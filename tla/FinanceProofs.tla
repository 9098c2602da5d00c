--------------------------- MODULE FinanceProofs ----------------------------
(***************************************************************************)
(* Theorems about the money: franchise statements (Settlement), invoices   *)
(* (Billing) and cash on delivery (Cod), for any number of statements,     *)
(* documents, clerks, parties and transfers and for any amounts.  What the *)
(* journals of an account come to is a sum over a set, and SumTheorems     *)
(* says how a sum changes when one element does.                           *)
(***************************************************************************)
EXTENDS Cod, Settlement, Billing, SumTheorems

-----------------------------------------------------------------------------
(***************************************************************************)
(* The ledger.  A balance is a sum over the journal: a journal with no leg *)
(* of an account is worth nothing to it, one with a single leg that leg,   *)
(* and a new journal adds what it is worth.                                *)
(***************************************************************************)
LegsOf(legs, account, party) == {l \in legs : l.account = account /\ l.party = party}
Worth(j, account, party) == SignedSum(LegsOf(j.legs, account, party))
Balance(J, account, party) == SumFunctionOnSet([j \in J |-> Worth(j, account, party)], J)

LEMMA BalanceIs ==
    ASSUME NEW account, NEW party
    PROVE  AccountBalance(account, party) = Balance(journal, account, party)
<1> DEFINE f == [j \in journal |-> Worth(j, account, party)]
<1>1. SumFunction(f) = SumFunctionOnSet(f, journal) BY DEF SumFunction
<1>2. QED BY <1>1 DEF AccountBalance, Balance, Worth, LegsOf

LEMMA NoLeg ==
    ASSUME NEW j, NEW account, NEW party,
           \A l \in j.legs : ~(l.account = account /\ l.party = party)
    PROVE  Worth(j, account, party) = 0
<1> DEFINE S == LegsOf(j.legs, account, party)
           f == [l \in S |-> IF l.account \in NormalDebit THEN l.debit - l.credit
                                                          ELSE l.credit - l.debit]
<1>1. S = {} BY DEF LegsOf
<1>2. Worth(j, account, party) = SumFunctionOnSet(f, S) BY DEF Worth, SignedSum, SumFunction
<1> HIDE DEF f, S
<1>3. QED BY <1>1, <1>2, SumEmpty

LEMMA OneLeg ==
    ASSUME NEW j, NEW account, NEW party, NEW l \in j.legs,
           l.account = account, l.party = party, l.debit \in Int, l.credit \in Int,
           \A k \in j.legs : k.account = account /\ k.party = party => k = l
    PROVE  Worth(j, account, party) = IF account \in NormalDebit THEN l.debit - l.credit
                                                                 ELSE l.credit - l.debit
<1> DEFINE S == LegsOf(j.legs, account, party)
           f == [k \in S |-> IF k.account \in NormalDebit THEN k.debit - k.credit
                                                          ELSE k.credit - k.debit]
<1>1. S = {l} BY DEF LegsOf
<1>2. Worth(j, account, party) = SumFunctionOnSet(f, S) BY DEF Worth, SignedSum, SumFunction
<1>3. f[l] = (IF account \in NormalDebit THEN l.debit - l.credit ELSE l.credit - l.debit)
      /\ f[l] \in Int
  BY <1>1
<1> HIDE DEF f, S
<1>4. SumFunctionOnSet(f, {l}) = f[l] + SumFunctionOnSet(f, {l} \ {l})
  <2>1. IsFiniteSet({l}) /\ \A y \in {l} : f[y] \in Int BY <1>3, FS_Singleton
  <2>2. QED BY <2>1, SumRemove
<1>5. SumFunctionOnSet(f, {l} \ {l}) = 0
  <2>1. {l} \ {l} = {} OBVIOUS
  <2>2. QED BY <2>1, SumEmpty
<1>6. QED BY <1>1, <1>2, <1>3, <1>4, <1>5

LEMMA BalanceType ==
    ASSUME NEW J, IsFiniteSet(J), NEW account, NEW party,
           \A j \in J : Worth(j, account, party) \in Int
    PROVE  Balance(J, account, party) \in Int
<1> DEFINE f == [j \in J |-> Worth(j, account, party)]
<1>1. \A j \in J : f[j] \in Int OBVIOUS
<1> HIDE DEF f
<1>2. SumFunctionOnSet(f, J) \in Int BY <1>1, SumType
<1>3. QED BY <1>2 DEF Balance, f

LEMMA BalanceAdds ==
    ASSUME NEW J, IsFiniteSet(J), NEW r, r \notin J, NEW account, NEW party,
           \A j \in J \cup {r} : Worth(j, account, party) \in Int
    PROVE  Balance(J \cup {r}, account, party)
             = Balance(J, account, party) + Worth(r, account, party)
<1> DEFINE f == [j \in J |-> Worth(j, account, party)]
           g == [j \in J \cup {r} |-> Worth(j, account, party)]
<1>1. \A j \in J : f[j] = g[j] OBVIOUS
<1>2. (\A j \in J \cup {r} : g[j] \in Int) /\ g[r] = Worth(r, account, party) OBVIOUS
<1> HIDE DEF f, g
<1>3. SumFunctionOnSet(g, J \cup {r}) = SumFunctionOnSet(g, J) + g[r] BY <1>2, SumAdd
<1>4. SumFunctionOnSet(f, J) = SumFunctionOnSet(g, J) BY <1>1, SumSame
<1>5. QED BY <1>2, <1>3, <1>4 DEF Balance, f, g

\* A posting that is not a replay writes one journal.
LEMMA PostNew ==
    ASSUME NEW source, NEW purpose, NEW legs, Post(source, purpose, legs),
           \A j \in journal : j.source # source \/ j.purpose # purpose
    PROVE  LET r == [source |-> source, purpose |-> purpose, legs |-> legs]
           IN  journal' = journal \cup {r} /\ r \notin journal
<1>1. FindJournalBySource(source, purpose) = {} BY DEF FindJournalBySource
<1>2. QED BY <1>1 DEF Post, CreateJournalTransaction

-----------------------------------------------------------------------------
(***************************************************************************)
(* Franchise statements: which statement has what, and then the sums.      *)
(***************************************************************************)
USE DEF Statements, Raises

-----------------------------------------------------------------------------
(***************************************************************************)
(* The inductive invariant.                                                *)
(***************************************************************************)
AdjStatuses == {"NONE", "PENDING_APPROVAL", "APPROVED", "APPLIED", "REJECTED"}
Calculations == Earnings \X Raises
CalcRow == [status : CalcStatuses, stl : Statements \cup {Nil}]
AdjRow == [status : AdjStatuses, stl : Statements \cup {Nil}, n : AdjAmounts \cup {0}]
CancelRow == [on : BOOLEAN, calcs : SUBSET Calculations, colls : SUBSET Collections]
IsStatement(r) == DOMAIN r = {"status", "period", "lines", "paid"} /\ r.status \in StatementStatuses

\* The columns.  Of a statement only the shape: its lines and what has been paid
\* of it hold sums.
Columns ==
    /\ calc \in [Earnings -> [Raises -> CalcRow]]
    /\ DOMAIN stl = Statements
    /\ \A t \in Statements : IsStatement(stl[t])
    /\ adj \in [Adjustments -> AdjRow]
    /\ \A a \in Adjustments : adj[a].status # "NONE" => adj[a].stl \in Statements
    /\ cancel \in [Statements -> CancelRow]

\* A commission is attached to the live statement that has a line for it.
LinesAttached ==
    \A t \in Statements, e \in Earnings, k \in Raises :
        Live(t) /\ On(t, <<"COMMISSION_CALCULATION", e, k>>) => calc[e][k].stl = t

\* What a cancellation found attached to its statement still is.
FoundAttached ==
    \A t \in Statements, e \in Earnings, k \in Raises :
        <<e, k>> \in cancel[t].calcs => calc[e][k].stl = t

\* A correction with a line is approved and not posted, and one that was posted
\* belongs to a statement that can no longer be calculated.
CorrectionLines ==
    \A t \in Statements, a \in Adjustments :
        On(t, <<"SETTLEMENT_ADJUSTMENT", a>>) => adj[a].status = "APPROVED" /\ adj[a].stl = t
AppliedFrozen ==
    \A a \in Adjustments : adj[a].status = "APPLIED" => isFrozen(adj[a].stl)

Inv == Columns /\ LinesAttached /\ FoundAttached /\ CorrectionLines /\ AppliedFrozen

-----------------------------------------------------------------------------
(***************************************************************************)
(* The lines of a calculation.                                             *)
(***************************************************************************)

\* Lines of different sources differ.
LEMMA SourceLemma ==
    /\ \A e, k, e2, k2 : <<"COMMISSION_CALCULATION", e, k>> = <<"COMMISSION_CALCULATION", e2, k2>>
                         => e = e2 /\ k = k2
    /\ \A a, b : <<"SETTLEMENT_ADJUSTMENT", a>> = <<"SETTLEMENT_ADJUSTMENT", b>> => a = b
    /\ \A e, k, x : /\ <<"COMMISSION_CALCULATION", e, k>> # <<"PREVIOUS_SETTLEMENT", x>>
                    /\ <<"COMMISSION_CALCULATION", e, k>> # <<"COD_OBLIGATION", x>>
                    /\ <<"COMMISSION_CALCULATION", e, k>> # <<"FRANCHISE_COLLECTION", x>>
                    /\ <<"COMMISSION_CALCULATION", e, k>> # <<"SETTLEMENT_ADJUSTMENT", x>>
                    /\ <<"COMMISSION_CALCULATION", e, k>> # <<"TAX_RULE">>
    /\ \A a, x, y : /\ <<"SETTLEMENT_ADJUSTMENT", a>> # <<"PREVIOUS_SETTLEMENT", x>>
                    /\ <<"SETTLEMENT_ADJUSTMENT", a>> # <<"COD_OBLIGATION", x>>
                    /\ <<"SETTLEMENT_ADJUSTMENT", a>> # <<"FRANCHISE_COLLECTION", x>>
                    /\ <<"SETTLEMENT_ADJUSTMENT", a>> # <<"COMMISSION_CALCULATION", x, y>>
                    /\ <<"SETTLEMENT_ADJUSTMENT", a>> # <<"TAX_RULE">>
  OBVIOUS

\* A statement that is calculated has lines for the commission it sweeps and the
\* corrections decided for it, and attaches what it sweeps.
LEMMA CalculateLemma ==
    ASSUME Columns, NEW t \in Statements, NEW p, calculate(t, p)
    PROVE  /\ Columns'
           /\ stl'[t].status = "CALCULATED"
           /\ \A u \in Statements : u # t => stl'[u] = stl[u]
           /\ \A e \in Earnings, k \in Raises :
                On(t, <<"COMMISSION_CALCULATION", e, k>>)' => calc'[e][k].stl = t
           /\ \A e \in Earnings, k \in Raises :
                calc'[e][k] = calc[e][k] \/ (calc[e][k].stl \in {Nil, t} /\ calc'[e][k].stl = t)
           /\ \A a \in Adjustments :
                On(t, <<"SETTLEMENT_ADJUSTMENT", a>>)' =>
                    adj[a].stl = t /\ adj[a].status \in {"APPROVED", "APPLIED"}
           /\ adj' = adj /\ cancel' = cancel
<1> DEFINE C == SweepCommissionForSettlement(t, p.start, p.end)
           X == SweepFranchiseCollectionsForSettlement(p)
           A == ListPendingAdjustmentsForSettlement(t)
           earnings == SumLines(CommissionLines(C) \cup AdjustmentLines(A \cap Incentives))
           L == OpeningLines(p) \cup CommissionLines(C) \cup CodLines(SweepCODForSettlement(p))
                \cup CollectionLines(X) \cup AdjustmentLines(A) \cup WithholdingLines(earnings)
<1>1. /\ stl' = [stl EXCEPT ![t] = [status |-> "CALCULATED", period |-> p, lines |-> L, paid |-> 0]]
      /\ calc' = WithSettlement(C, t)
      /\ adj' = adj /\ cancel' = cancel
  BY DEF calculate, ApplySettlementTotals, AttachCalculationsToSettlement
<1>2. /\ stl'[t].status = "CALCULATED" /\ stl'[t].lines = L
      /\ IsStatement(stl'[t])
      /\ DOMAIN stl' = Statements
      /\ \A u \in Statements : u # t => stl'[u] = stl[u]
  <2> HIDE DEF L
  <2>1. QED BY <1>1 DEF Columns, IsStatement, StatementStatuses, Cancellable
<1>3. \A e \in Earnings, k \in Raises :
         /\ <<e, k>> \in C => calc[e][k].stl \in {Nil, t} /\ calc'[e][k] = [calc[e][k] EXCEPT !.stl = t]
         /\ <<e, k>> \notin C => calc'[e][k] = calc[e][k]
  BY <1>1 DEF WithSettlement, SweepCommissionForSettlement
<1>4. ASSUME NEW e \in Earnings, NEW k \in Raises
      PROVE  /\ calc'[e][k] \in CalcRow
             /\ <<e, k>> \in C => calc'[e][k].stl = t
             /\ calc'[e][k] = calc[e][k] \/ (calc[e][k].stl \in {Nil, t} /\ calc'[e][k].stl = t)
  <2> HIDE DEF C
  <2>1. calc[e][k] \in CalcRow
    BY DEF Columns
  <2>2. /\ [calc[e][k] EXCEPT !.stl = t] \in CalcRow
        /\ [calc[e][k] EXCEPT !.stl = t].stl = t
    BY <2>1 DEF CalcRow
  <2>3. CASE <<e, k>> \in C
    <3>1. calc[e][k].stl \in {Nil, t} /\ calc'[e][k] = [calc[e][k] EXCEPT !.stl = t]
      BY <1>3, <2>3
    <3>2. QED BY <2>2, <3>1
  <2>4. CASE <<e, k>> \notin C
    <3>1. calc'[e][k] = calc[e][k]
      BY <1>3, <2>4
    <3>2. QED BY <2>1, <2>4, <3>1
  <2>5. QED BY <2>3, <2>4
<1>5. calc' \in [Earnings -> [Raises -> CalcRow]]
  <2>1. calc' = [e \in Earnings |-> [k \in Raises |-> calc'[e][k]]]
    BY <1>1 DEF WithSettlement
  <2>2. QED BY <1>4, <2>1
<1>6. ASSUME NEW e \in Earnings, NEW k \in Raises, On(t, <<"COMMISSION_CALCULATION", e, k>>)'
      PROVE  <<e, k>> \in C
  <2>1. PICK l \in L : l.src = <<"COMMISSION_CALCULATION", e, k>>
    BY <1>2, <1>6 DEF On
  <2>2. l \in CommissionLines(C)
    BY <2>1, SourceLemma
       DEF OpeningLines, CodLines, CollectionLines, AdjustmentLines, WithholdingLines
  <2>3. PICK c \in C : l = [src |-> <<"COMMISSION_CALCULATION", c[1], c[2]>>, n |-> Amount[c[1]]]
    BY <2>2 DEF CommissionLines
  <2>4. c \in Earnings \X Raises
    BY DEF SweepCommissionForSettlement
  <2>5. c[1] = e /\ c[2] = k
    BY <2>1, <2>3, SourceLemma
  <2>6. QED BY <2>4, <2>5
<1>7. ASSUME NEW a \in Adjustments, On(t, <<"SETTLEMENT_ADJUSTMENT", a>>)'
      PROVE  a \in A
  <2>1. PICK l \in L : l.src = <<"SETTLEMENT_ADJUSTMENT", a>>
    BY <1>2, <1>7 DEF On
  <2>2. l \in AdjustmentLines(A)
    BY <2>1, SourceLemma
       DEF OpeningLines, CodLines, CollectionLines, CommissionLines, WithholdingLines
  <2>3. PICK b \in A : l = [src |-> <<"SETTLEMENT_ADJUSTMENT", b>>, n |-> adj[b].n]
    BY <2>2 DEF AdjustmentLines
  <2>4. a = b
    BY <2>1, <2>3, SourceLemma
  <2>5. QED BY <2>4
<1> HIDE DEF C, L
<1>8. Columns'
  BY <1>1, <1>2, <1>5 DEF Columns
<1>9. \A a \in A : adj[a].stl = t /\ adj[a].status \in {"APPROVED", "APPLIED"}
  BY DEF ListPendingAdjustmentsForSettlement
<1> HIDE DEF A
<1>10. \A a \in Adjustments : On(t, <<"SETTLEMENT_ADJUSTMENT", a>>)' =>
          adj[a].stl = t /\ adj[a].status \in {"APPROVED", "APPLIED"}
  BY <1>7, <1>9
<1>11. \A e \in Earnings, k \in Raises :
          /\ On(t, <<"COMMISSION_CALCULATION", e, k>>)' => calc'[e][k].stl = t
          /\ calc'[e][k] = calc[e][k] \/ (calc[e][k].stl \in {Nil, t} /\ calc'[e][k].stl = t)
  BY <1>4, <1>6
<1>12. QED BY <1>1, <1>2, <1>8, <1>10, <1>11, ZenonT(60)

-----------------------------------------------------------------------------
(***************************************************************************)
(* Every step keeps the invariant.                                         *)
(***************************************************************************)

LEMMA InvInit ==
    ASSUME SettlementInit
    PROVE  Inv
<1>1. Columns
  <2>1. calc \in [Earnings -> [Raises -> CalcRow]]
    BY DEF SettlementInit, CommissionInit, CalcRow, CalcStatuses
  <2>2. /\ DOMAIN stl = Statements
        /\ \A t \in Statements : IsStatement(stl[t])
    BY DEF SettlementInit, StatementInit, IsStatement, StatementStatuses
  <2>3. /\ adj \in [Adjustments -> AdjRow]
        /\ \A a \in Adjustments : adj[a].status # "NONE" => adj[a].stl \in Statements
    BY DEF SettlementInit, StatementInit, AdjRow, AdjStatuses
  <2>4. cancel \in [Statements -> CancelRow]
    <3>1. [on |-> FALSE, calcs |-> {}, colls |-> {}] \in CancelRow
      BY DEF CancelRow
    <3>2. QED BY <3>1 DEF SettlementInit, StatementInit
  <2>5. QED BY <2>1, <2>2, <2>3, <2>4 DEF Columns
<1>2. \A t \in Statements : stl[t].lines = {} /\ cancel[t].calcs = {}
  BY DEF SettlementInit, StatementInit
<1>3. \A a \in Adjustments : adj[a].status = "NONE"
  BY DEF SettlementInit, StatementInit
<1>4. QED BY <1>1, <1>2, <1>3 DEF Inv, LinesAttached, FoundAttached, CorrectionLines, AppliedFrozen, On

\* A statement that may be calculated is live and not frozen, or not there yet.
LEMMA InvCalculate ==
    ASSUME Inv, NEW t \in Statements, NEW p, stl[t].status \notin Frozen, calculate(t, p)
    PROVE  Inv'
<1>1. Columns /\ Columns'
  BY CalculateLemma DEF Inv
<1>0. \A e \in Earnings, k \in Raises :
         calc'[e][k] = calc[e][k] \/ (calc[e][k].stl \in {Nil, t} /\ calc'[e][k].stl = t)
  BY <1>1, CalculateLemma
<1>2. LinesAttached'
  <2>1. ASSUME NEW u \in Statements, NEW e \in Earnings, NEW k \in Raises,
               Live(u)', On(u, <<"COMMISSION_CALCULATION", e, k>>)', u # t
        PROVE  calc'[e][k].stl = u
    <3>1. stl'[u] = stl[u]
      BY <1>1, <2>1, CalculateLemma
    <3>2. calc[e][k].stl = u
      BY <2>1, <3>1 DEF Inv, LinesAttached, Live, On
    <3>3. u # Nil
      BY SettlementAssumption
    <3>4. calc'[e][k] = calc[e][k]
      BY <1>1, <2>1, <3>2, <3>3, CalculateLemma
    <3>5. QED BY <3>2, <3>4
  <2>2. QED BY <1>1, <2>1, CalculateLemma DEF LinesAttached
<1>3. FoundAttached'
  <2>1. ASSUME NEW u \in Statements, NEW e \in Earnings, NEW k \in Raises, <<e, k>> \in cancel[u].calcs
        PROVE  calc'[e][k].stl = u
    <3>1. calc[e][k].stl = u /\ u # Nil
      BY <2>1, SettlementAssumption DEF Inv, FoundAttached
    <3>2. QED BY <1>0, <3>1
  <2>2. QED BY <1>1, <2>1, CalculateLemma DEF FoundAttached
<1>4. CorrectionLines'
  <2>1. ASSUME NEW u \in Statements, NEW a \in Adjustments, On(u, <<"SETTLEMENT_ADJUSTMENT", a>>)'
        PROVE  adj[a].status = "APPROVED" /\ adj[a].stl = u
    <3>1. CASE u = t
      BY <1>1, <2>1, <3>1, CalculateLemma DEF Inv, AppliedFrozen, isFrozen
    <3>2. CASE u # t
      <4>1. stl'[u] = stl[u]
        BY <1>1, <3>2, CalculateLemma
      <4>2. QED BY <2>1, <4>1 DEF Inv, CorrectionLines, On
    <3>3. QED BY <3>1, <3>2
  <2>2. QED BY <1>1, <2>1, CalculateLemma DEF CorrectionLines
<1>5. AppliedFrozen'
  <2>1. ASSUME NEW a \in Adjustments, adj[a].status = "APPLIED"
        PROVE  adj[a].stl \in Statements /\ stl'[adj[a].stl].status \in Frozen
    <3>1. adj[a].stl \in Statements /\ stl[adj[a].stl].status \in Frozen
      BY <1>1, <2>1 DEF Inv, Columns, AppliedFrozen, isFrozen
    <3>2. QED BY <1>1, <3>1, CalculateLemma
  <2>2. QED BY <1>1, <2>1, CalculateLemma DEF AppliedFrozen, isFrozen
<1>6. QED BY <1>1, <1>2, <1>3, <1>4, <1>5 DEF Inv

\* A change of status keeps every statement's lines, brings no statement back
\* to life and thaws none.
LEMMA StatusLemma ==
    ASSUME Columns, NEW t \in Statements,
           \/ Submit(t) \/ Approve(t) \/ CancelSettlement(t) \/ \E n : Pay(t, n)
    PROVE  /\ DOMAIN stl' = Statements
           /\ \A u \in Statements :
                /\ IsStatement(stl'[u])
                /\ stl'[u].lines = stl[u].lines
                /\ Live(u)' => Live(u)
                /\ isFrozen(u) => isFrozen(u)'
<1> DEFINE Kept(r, q) == /\ IsStatement(q) /\ q.lines = r.lines
                         /\ q.status \in {"NONE", "CANCELLED"} \/ r.status \notin {"NONE", "CANCELLED"}
                         /\ r.status \in Frozen => q.status \in Frozen
<1>1. IsStatement(stl[t]) /\ DOMAIN stl = Statements
  BY DEF Columns
<1>2. ASSUME NEW q, stl' = [stl EXCEPT ![t] = q], Kept(stl[t], q)
      PROVE  DOMAIN stl' = Statements /\ \A u \in Statements : Kept(stl[u], stl'[u])
  BY <1>2 DEF Columns
<1>3. ASSUME Submit(t) \/ Approve(t) \/ CancelSettlement(t)
      PROVE  DOMAIN stl' = Statements /\ \A u \in Statements : Kept(stl[u], stl'[u])
  <2>1. \/ stl' = stl
        \/ /\ stl[t].status \in Cancellable
           /\ \E x \in {"UNDER_REVIEW", "APPROVED", "CANCELLED"} :
                stl' = [stl EXCEPT ![t] = [stl[t] EXCEPT !.status = x]]
    BY <1>3 DEF Submit, Approve, ApproveSettlement, CancelSettlement, Cancellable
  <2>2. CASE stl' = stl
    BY <2>2 DEF Columns
  <2>3. ASSUME NEW x \in {"UNDER_REVIEW", "APPROVED", "CANCELLED"}, stl[t].status \in Cancellable
        PROVE  Kept(stl[t], [stl[t] EXCEPT !.status = x])
    BY <1>1, <2>3 DEF IsStatement, StatementStatuses, Cancellable, Frozen
  <2>4. QED BY <1>2, <2>1, <2>2, <2>3
<1>4. ASSUME NEW n, Pay(t, n)
      PROVE  DOMAIN stl' = Statements /\ \A u \in Statements : Kept(stl[u], stl'[u])
  <2>1. \E x, y : /\ stl' = [stl EXCEPT ![t] = [stl[t] EXCEPT !.paid = x, !.status = y]]
                  /\ y \in {"PAID", "PARTIALLY_PAID"}
    <3> DEFINE x == stl[t].paid + n
               y == IF stl[t].paid + n >= AbsInt(Net(t)) THEN "PAID" ELSE "PARTIALLY_PAID"
    <3>1. stl' = [stl EXCEPT ![t].paid = x, ![t].status = y]
      BY <1>4 DEF Pay, RecordSettlementPaid
    <3>2. y \in {"PAID", "PARTIALLY_PAID"}
      OBVIOUS
    <3> HIDE DEF x, y
    <3>3. stl' = [stl EXCEPT ![t] = [stl[t] EXCEPT !.paid = x, !.status = y]]
      BY <1>1, <3>1
    <3>4. QED BY <3>2, <3>3
  <2>2. ASSUME NEW x, NEW y \in {"PAID", "PARTIALLY_PAID"}
        PROVE  Kept(stl[t], [stl[t] EXCEPT !.paid = x, !.status = y])
    BY <1>1, <1>4 DEF Pay, IsStatement, StatementStatuses, Cancellable, Frozen
  <2>3. QED BY <1>2, <2>1, <2>2
<1>5. QED BY <1>3, <1>4 DEF Live, isFrozen

\* What is neither a statement's status nor its lines.
LEMMA InvOther ==
    ASSUME Inv, UNCHANGED stl, Columns',
           \A e \in Earnings, k \in Raises : calc'[e][k].stl = calc[e][k].stl,
           \A t \in Statements, e \in Earnings, k \in Raises :
               <<e, k>> \in cancel'[t].calcs => calc[e][k].stl = t,
           \A a \in Adjustments :
               \/ adj'[a] = adj[a]
               \/ /\ adj[a].status \in {"NONE", "PENDING_APPROVAL"}
                  /\ adj'[a].status = "APPLIED" => isFrozen(adj'[a].stl)
    PROVE  Inv'
<1>1. LinesAttached' /\ FoundAttached'
  BY DEF Inv, LinesAttached, FoundAttached, Live, On
<1>2. CorrectionLines'
  BY DEF Inv, CorrectionLines, On
<1>3. AppliedFrozen'
  BY DEF Inv, AppliedFrozen, isFrozen
<1>4. QED BY <1>1, <1>2, <1>3 DEF Inv

LEMMA InvStatus ==
    ASSUME Inv, NEW t \in Statements,
           Submit(t) \/ Approve(t) \/ CancelSettlement(t) \/ \E n : Pay(t, n)
    PROVE  Inv'
<1>0. Columns
  BY DEF Inv
<1>1. adj' = adj
  BY DEF Submit, Approve, CancelSettlement, Pay
<1>2. CorrectionLines'
  BY <1>0, <1>1, StatusLemma DEF Inv, CorrectionLines, On
<1>6. AppliedFrozen'
  BY <1>0, <1>1, StatusLemma DEF Inv, AppliedFrozen, Columns, isFrozen
<1>3. CASE calc' = calc /\ cancel' = cancel
  <2>1. Columns'
    BY <1>0, <1>1, <1>3, StatusLemma DEF Columns
  <2>2. LinesAttached' /\ FoundAttached'
    BY <1>0, <1>3, StatusLemma DEF Inv, LinesAttached, FoundAttached, On
  <2>3. QED BY <1>2, <1>6, <2>1, <2>2 DEF Inv
<1>4. CASE CancelSettlement(t)
  <2>1. /\ cancel' = [cancel EXCEPT ![t] = [on |-> FALSE, calcs |-> {}, colls |-> {}]]
        /\ \/ stl' = stl /\ calc' = calc
           \/ /\ stl' = [stl EXCEPT ![t].status = "CANCELLED"]
              /\ calc' = WithSettlement(cancel[t].calcs, Nil)
    BY <1>4 DEF CancelSettlement, DetachCalculationsFromSettlement
  <2>2. /\ cancel' \in [Statements -> CancelRow]
        /\ \A u \in Statements : u # t => cancel'[u] = cancel[u]
        /\ cancel'[t].calcs = {}
    <3>1. [on |-> FALSE, calcs |-> {}, colls |-> {}] \in CancelRow
      BY DEF CancelRow
    <3>2. QED BY <1>0, <2>1, <3>1 DEF Columns
  <2>3. CASE stl' = stl /\ calc' = calc
    <3>1. Columns'
      BY <1>0, <1>1, <2>2, <2>3 DEF Columns
    <3>2. LinesAttached' /\ FoundAttached'
      BY <2>2, <2>3 DEF Inv, LinesAttached, FoundAttached, Live, On
    <3>3. QED BY <1>2, <1>6, <3>1, <3>2 DEF Inv
  <2>4. CASE /\ stl' = [stl EXCEPT ![t].status = "CANCELLED"]
             /\ calc' = WithSettlement(cancel[t].calcs, Nil)
    <3>1. ASSUME NEW e \in Earnings, NEW k \in Raises
          PROVE  /\ calc'[e][k] \in CalcRow
                 /\ calc[e][k].stl # t => calc'[e][k] = calc[e][k]
      <4>1. calc[e][k] \in CalcRow
        BY <1>0 DEF Columns
      <4>2. CASE <<e, k>> \in cancel[t].calcs
        <5>1. calc[e][k].stl = t
          BY <4>2 DEF Inv, FoundAttached
        <5>2. calc'[e][k] = [calc[e][k] EXCEPT !.stl = Nil]
          BY <2>4, <4>2 DEF WithSettlement
        <5>3. QED BY <4>1, <5>1, <5>2 DEF CalcRow
      <4>3. CASE <<e, k>> \notin cancel[t].calcs
        <5>1. calc'[e][k] = calc[e][k]
          BY <2>4, <4>3 DEF WithSettlement
        <5>2. QED BY <4>1, <5>1
      <4>4. QED BY <4>2, <4>3
    <3>2. calc' \in [Earnings -> [Raises -> CalcRow]]
      <4>1. calc' = [e \in Earnings |-> [k \in Raises |-> calc'[e][k]]]
        BY <2>4 DEF WithSettlement
      <4>2. QED BY <3>1, <4>1
    <3>3. Columns'
      BY <1>0, <1>1, <1>4, <2>2, <3>2, StatusLemma DEF Columns
    <3>4. ~Live(t)' /\ \A u \in Statements : u # t => stl'[u] = stl[u]
      BY <1>0, <2>4 DEF Columns, IsStatement, Live
    <3>5. LinesAttached'
      BY <3>1, <3>4 DEF Inv, LinesAttached, Live, On
    <3>6. FoundAttached'
      BY <2>2, <3>1 DEF Inv, FoundAttached
    <3>7. QED BY <1>2, <1>6, <3>3, <3>5, <3>6 DEF Inv
  <2>5. QED BY <2>1, <2>3, <2>4
<1>5. QED BY <1>3, <1>4 DEF Submit, Approve, Pay

LEMMA InvStep ==
    ASSUME Inv, [SettlementNext]_settlementVars
    PROVE  Inv'
<1>0. Columns
  BY DEF Inv
<1>1. ASSUME NEW t \in Statements,
             (\E p \in Periods : Generate(t, p)) \/ Recalculate(t)
      PROVE  Inv'
  <2>1. stl[t].status \notin Frozen
    BY <1>1 DEF Generate, Recalculate, CreateSettlement, Workable, Frozen
  <2>2. \E p : calculate(t, p)
    BY <1>1 DEF Generate, Recalculate
  <2>3. QED BY <2>1, <2>2, InvCalculate
<1>2. ASSUME NEW t \in Statements, CancelDetaches(t)
      PROVE  Inv'
  <2> DEFINE row == [on |-> TRUE,
                     calcs |-> {c \in Earnings \X Raises : calc[c[1]][c[2]].stl = t},
                     colls |-> {x \in Collections : coll[x].stl = t /\ coll[x].status = "IN_SETTLEMENT"}]
  <2>1. row \in CancelRow /\ \A e \in Earnings, k \in Raises : <<e, k>> \in row.calcs => calc[e][k].stl = t
    BY DEF CancelRow, Calculations
  <2>2. cancel' = [cancel EXCEPT ![t] = row] /\ UNCHANGED <<calc, stl, adj>>
    BY <1>2 DEF CancelDetaches
  <2> HIDE DEF row
  <2>3. Columns'
    BY <1>0, <2>1, <2>2 DEF Columns
  <2>4. \A u \in Statements, e \in Earnings, k \in Raises :
            <<e, k>> \in cancel'[u].calcs => calc[e][k].stl = u
    BY <1>0, <2>1, <2>2 DEF Columns, Inv, FoundAttached
  <2>5. QED BY <2>2, <2>3, <2>4, InvOther
<1>3. ASSUME NEW a \in Adjustments,
             \/ \E t \in Statements, n \in AdjAmounts : RaiseAdjustment(a, t, n)
             \/ ApproveAdjustment(a) \/ RejectAdjustment(a)
      PROVE  Inv'
  <2> DEFINE Goal(r) == /\ r \in AdjRow /\ adj' = [adj EXCEPT ![a] = r]
                        /\ adj[a].status \in {"NONE", "PENDING_APPROVAL"}
                        /\ r.status # "NONE" /\ r.stl \in Statements
                        /\ r.status = "APPLIED" => isFrozen(r.stl)
  <2>1. \E r : Goal(r)
    <3>1. adj[a] \in AdjRow
      BY <1>0 DEF Columns
    <3>2. ASSUME NEW t \in Statements, NEW n \in AdjAmounts, RaiseAdjustment(a, t, n)
          PROVE  Goal([status |-> "PENDING_APPROVAL", stl |-> t, n |-> n])
      BY <3>2 DEF RaiseAdjustment, AdjRow, AdjStatuses
    <3>3. ASSUME ApproveAdjustment(a) \/ RejectAdjustment(a)
          PROVE  \E x \in {"APPROVED", "APPLIED", "REJECTED"} : Goal([adj[a] EXCEPT !.status = x])
      BY <1>0, <3>1, <3>3 DEF ApproveAdjustment, RejectAdjustment, AdjRow, AdjStatuses, Columns
    <3>4. QED BY <1>3, <3>2, <3>3
  <2>2. UNCHANGED <<calc, stl, cancel>>
    BY <1>3 DEF RaiseAdjustment, ApproveAdjustment, RejectAdjustment
  <2>3. Columns'
    BY <1>0, <2>1, <2>2 DEF Columns
  <2>4. QED BY <2>1, <2>2, <2>3, InvOther DEF Inv, FoundAttached
<1>4. ASSUME NEW e \in Earnings, NEW k \in Raises, Earn(e, k) \/ ClawBack(e, k)
      PROVE  Inv'
  <2>1. \E x \in CalcStatuses : calc' = [calc EXCEPT ![e][k].status = x]
    BY <1>4 DEF Earn, ClawBack, Calculate, CreateCommissionCalculation, postedStatus,
                ReverseCommission, MarkCalculationReversed, CalcStatuses
  <2>2. UNCHANGED <<stl, adj, cancel>>
    BY <1>4 DEF Earn, ClawBack
  <2>3. /\ calc' \in [Earnings -> [Raises -> CalcRow]]
        /\ \A f \in Earnings, i \in Raises : calc'[f][i].stl = calc[f][i].stl
    <3>1. PICK x \in CalcStatuses : calc' = [calc EXCEPT ![e][k].status = x]
      BY <2>1
    <3>2. /\ calc[e] \in [Raises -> CalcRow] /\ calc[e][k] \in CalcRow
          /\ [calc[e][k] EXCEPT !.status = x] \in CalcRow
          /\ [calc[e][k] EXCEPT !.status = x].stl = calc[e][k].stl
      <4>1. calc[e] \in [Raises -> CalcRow] /\ calc[e][k] \in CalcRow
        BY <1>0 DEF Columns
      <4>2. QED BY <4>1 DEF CalcRow
    <3>3. calc' = [calc EXCEPT ![e] = [calc[e] EXCEPT ![k] = [calc[e][k] EXCEPT !.status = x]]]
      BY <3>1
    <3>4. QED BY <1>0, <3>2, <3>3 DEF Columns
  <2>4. Columns'
    BY <1>0, <2>2, <2>3 DEF Columns
  <2>5. QED BY <2>2, <2>3, <2>4, InvOther DEF Inv, FoundAttached
<1>5. CASE UNCHANGED <<calc, stl, adj, cancel>>
  <2>1. Columns'
    BY <1>0, <1>5 DEF Columns
  <2>2. QED BY <1>5, <2>1, InvOther DEF Inv, FoundAttached
<1>6. QED BY <1>1, <1>2, <1>3, <1>4, <1>5, InvStatus DEF SettlementNext, Record, CashMoves, settlementVars

-----------------------------------------------------------------------------
(***************************************************************************)
(* The theorems.                                                           *)
(***************************************************************************)

\* A live statement has the commission it has a line for, a cancellation detaches
\* only from its own statement, and a correction has a line or was posted, not both.
THEOREM SettlementInvariant == SettlementSpec => []Inv
<1>1. SettlementInit => Inv
  BY InvInit
<1>2. Inv /\ [SettlementNext]_settlementVars => Inv'
  BY InvStep
<1>3. QED BY <1>1, <1>2, PTL DEF SettlementSpec

\* No commission is on two live statements (AttachCalculationsToSettlement), with
\* any number of statements generated, rebuilt and cancelled at the same time.
THEOREM CommissionOnce == SettlementSpec => []OnOneStatement
<1>1. ASSUME Inv PROVE OnOneStatement
  <2> SUFFICES ASSUME NEW e \in Earnings, NEW k \in Raises
               PROVE  Cardinality({t \in Statements :
                          Live(t) /\ On(t, <<"COMMISSION_CALCULATION", e, k>>)}) <= 1
    BY DEF OnOneStatement
  <2> DEFINE S == {t \in Statements : Live(t) /\ On(t, <<"COMMISSION_CALCULATION", e, k>>)}
  <2>1. \A t \in S : calc[e][k].stl = t
    BY <1>1 DEF Inv, LinesAttached
  <2>2. S = {} \/ S = {calc[e][k].stl}
    BY <2>1
  <2>3. Cardinality(S) \in {0, 1}
    BY <2>2, FS_EmptySet, FS_Singleton
  <2>4. QED BY <2>3
<1>2. QED BY <1>1, SettlementInvariant, PTL

\* A correction that was posted by itself is on no statement that posted it with
\* its net (ApproveAdjustment): no correction is counted twice.
THEOREM CorrectionOnce == SettlementSpec => []AdjustmentOnce
<1>1. Inv => AdjustmentOnce
  BY DEF Inv, CorrectionLines, AdjustmentOnce
<1>2. QED BY <1>1, SettlementInvariant, PTL

\* Once a statement is approved no step changes its lines or takes it back.
THEOREM AgreedStays == SettlementSpec => AgreedStaysAgreed
<1>1. ASSUME Inv, [SettlementNext]_settlementVars, NEW t \in Statements, isFrozen(t)
      PROVE  isFrozen(t)' /\ stl'[t].lines = stl[t].lines
  <2>0. Columns
    BY <1>1 DEF Inv
  <2>1. ASSUME NEW u \in Statements, (\E p \in Periods : Generate(u, p)) \/ Recalculate(u)
        PROVE  stl'[t] = stl[t]
    <3>1. u # t
      BY <1>1, <2>1 DEF Generate, Recalculate, CreateSettlement, Workable, Frozen, isFrozen
    <3>2. \E p : calculate(u, p)
      BY <2>1 DEF Generate, Recalculate
    <3>3. QED BY <2>0, <3>1, <3>2, CalculateLemma
  <2>2. ASSUME NEW u \in Statements,
               Submit(u) \/ Approve(u) \/ CancelSettlement(u) \/ \E n : Pay(u, n)
        PROVE  isFrozen(t)' /\ stl'[t].lines = stl[t].lines
    BY <1>1, <2>0, <2>2, StatusLemma
  <2>3. CASE UNCHANGED stl
    BY <1>1, <2>3 DEF isFrozen
  <2>4. CASE stl'[t] = stl[t]
    BY <1>1, <2>4 DEF isFrozen
  <2>5. QED BY <1>1, <2>1, <2>2, <2>3, <2>4
            DEF SettlementNext, settlementVars, CancelDetaches, RaiseAdjustment, ApproveAdjustment, RejectAdjustment,
                Earn, ClawBack, Record, CashMoves
<1>2. Inv /\ [SettlementNext]_settlementVars => \A t \in Statements : isFrozen(t) => isFrozen(t)' /\ stl'[t].lines = stl[t].lines
  BY <1>1
<1>3. QED BY <1>2, SettlementInvariant, PTL DEF SettlementSpec, AgreedStaysAgreed

-----------------------------------------------------------------------------
(***************************************************************************)
(* The sums.  What the journals of a franchise's two accounts come to      *)
(* changes exactly when the unpaid net of the approved statements or the   *)
(* corrections posted by themselves do, and by the same amount: a net is   *)
(* posted once, when its statement is approved, and its lines no longer    *)
(* change; a payment moves both; commission is accrued to nobody.          *)
(***************************************************************************)

\* The image of a finite set is finite.
LEMMA FiniteImage ==
    ASSUME NEW S, IsFiniteSet(S), NEW f
    PROVE  IsFiniteSet({f[x] : x \in S})
<1> DEFINE T == {f[x] : x \in S}
           g == [x \in S |-> f[x]]
<1>1. g \in Surjection(S, T) BY DEF Surjection
<1> HIDE DEF g, T
<1>2. IsFiniteSet(T) BY <1>1, FS_Surjection
<1>3. QED BY <1>2 DEF T

\* The lines of a statement can be added up, it is paid within its net, and
\* nothing is paid before it is approved.
Summable(L) == IsFiniteSet(L) /\ \A l \in L : l.n \in Int
Lined ==
    /\ cash \subseteq Holdings
    /\ \A t \in Statements :
        /\ Summable(stl[t].lines)
        /\ stl[t].paid \in Nat /\ stl[t].paid <= AbsInt(Net(t))
        /\ ~isFrozen(t) => stl[t].paid = 0

LEMMA LinesSum ==
    ASSUME NEW L, Summable(L)
    PROVE  SumLines(L) \in Int
<1> DEFINE f == [l \in L |-> l.n]
<1>1. SumLines(L) = SumFunctionOnSet(f, L) BY DEF SumLines, SumFunction
<1>2. \A l \in L : f[l] \in Int BY DEF Summable
<1> HIDE DEF f
<1>3. QED BY <1>1, <1>2, SumType DEF Summable

LEMMA SumsUnion ==
    ASSUME NEW A, NEW B, Summable(A), Summable(B)
    PROVE  Summable(A \cup B)
  BY FS_Union DEF Summable

\* Lines that are one for each of a finite set.
LEMMA SumsOf ==
    ASSUME NEW S, IsFiniteSet(S), NEW f, \A x \in S : f[x].n \in Int
    PROVE  Summable({f[x] : x \in S})
  BY FiniteImage DEF Summable

LEMMA SumsOpening ==
    ASSUME Lined, NEW p
    PROVE  Summable(OpeningLines(p))
<1> DEFINE S == {u \in GetPreviousSettlement(p.start) : CarryForward(u) # 0}
           f == [t \in S |-> [src |-> <<"PREVIOUS_SETTLEMENT", t>>, n |-> CarryForward(t)]]
<1>1. S \subseteq Statements BY DEF GetPreviousSettlement
<1>2. IsFiniteSet(S)
  <2> HIDE DEF S
  <2>1. IsFiniteSet(Statements)
    <3>1. MaxStatements \in Int /\ 1 \in Int BY SettlementAssumption
    <3>2. QED BY <3>1, FS_Interval
  <2>2. QED BY <1>1, <2>1, FS_Subset
<1>3. \A t \in S : f[t].n \in Int
  <2>1. \A t \in Statements : CarryForward(t) \in Int
    BY LinesSum DEF Lined, CarryForward, Net
  <2>2. \A t \in S : f[t].n = CarryForward(t) OBVIOUS
  <2> HIDE DEF f, S
  <2>3. QED BY <1>1, <2>1, <2>2
<1>4. OpeningLines(p) = {f[t] : t \in S} BY DEF OpeningLines
<1> HIDE DEF f, S
<1>5. QED BY <1>2, <1>3, <1>4, SumsOf

LEMMA SumsCommission ==
    ASSUME NEW C \in SUBSET (Earnings \X Raises)
    PROVE  Summable(CommissionLines(C))
<1> DEFINE f == [c \in C |-> [src |-> <<"COMMISSION_CALCULATION", c[1], c[2]>>, n |-> Amount[c[1]]]]
<1>1. IsFiniteSet(C)
  <2>0. MaxRaises \in Int /\ 1 \in Int BY CommissionAssumption
  <2>1. IsFiniteSet(Raises) BY <2>0, FS_Interval
  <2>2. IsFiniteSet(Earnings \X Raises) BY <2>1, CommissionAssumption, FS_Product
  <2>3. QED BY <2>2, FS_Subset
<1>2. \A c \in C : f[c].n \in Int BY CommissionAssumption
<1>3. CommissionLines(C) = {f[c] : c \in C} BY DEF CommissionLines
<1> HIDE DEF f
<1>4. QED BY <1>1, <1>2, <1>3, SumsOf

LEMMA SumsCod ==
    ASSUME NEW S \in SUBSET Holdings
    PROVE  Summable(CodLines(S))
<1> DEFINE f == [o \in S |-> [src |-> <<"COD_OBLIGATION", o>>, n |-> -CashHeld[o]]]
<1>1. IsFiniteSet(S) BY SettlementAssumption, FS_Subset
<1>2. \A o \in S : f[o].n \in Int BY SettlementAssumption
<1>3. CodLines(S) = {f[o] : o \in S} BY DEF CodLines
<1> HIDE DEF f
<1>4. QED BY <1>1, <1>2, <1>3, SumsOf

LEMMA SumsCollection ==
    ASSUME NEW S \in SUBSET Collections
    PROVE  Summable(CollectionLines(S))
<1> DEFINE f == [x \in S |-> [src |-> <<"FRANCHISE_COLLECTION", x>>, n |-> -Collected[x]]]
<1>1. IsFiniteSet(S) BY SettlementAssumption, FS_Subset
<1>2. \A x \in S : f[x].n \in Int BY SettlementAssumption
<1>3. CollectionLines(S) = {f[x] : x \in S} BY DEF CollectionLines
<1> HIDE DEF f
<1>4. QED BY <1>1, <1>2, <1>3, SumsOf

LEMMA SumsAdjustment ==
    ASSUME Columns, NEW S \in SUBSET Adjustments
    PROVE  Summable(AdjustmentLines(S))
<1> DEFINE f == [a \in S |-> [src |-> <<"SETTLEMENT_ADJUSTMENT", a>>, n |-> adj[a].n]]
<1>1. IsFiniteSet(S) BY SettlementAssumption, FS_Subset
<1>2. \A a \in S : f[a].n \in Int
  <2>1. \A a \in S : adj[a].n \in AdjAmounts \cup {0} BY DEF Columns, AdjRow
  <2>2. AdjAmounts \cup {0} \subseteq Int BY SettlementAssumption
  <2>3. \A a \in S : adj[a].n \in Int BY <2>1, <2>2
  <2>4. \A a \in S : f[a].n = adj[a].n OBVIOUS
  <2>5. QED BY <2>3, <2>4
<1>3. AdjustmentLines(S) = {f[a] : a \in S} BY DEF AdjustmentLines
<1> HIDE DEF f
<1>4. QED BY <1>1, <1>2, <1>3, SumsOf

LEMMA SumsWithholding ==
    ASSUME NEW n \in Int
    PROVE  Summable(WithholdingLines(n))
<1>1. CASE WithholdingBp > 0 /\ n > 0
  <2> DEFINE l == [src |-> <<"TAX_RULE">>, n |-> -ApplyBP(n, WithholdingBp)]
  <2>1. ApplyBP(n, WithholdingBp) \in Int
    <3>1. WithholdingBp \in Int BY SettlementAssumption
    <3>2. n * WithholdingBp \in Int BY <3>1
    <3>3. QED BY <3>2 DEF ApplyBP
  <2>2. l.n \in Int BY <2>1
  <2>3. WithholdingLines(n) = {l} BY <1>1 DEF WithholdingLines
  <2> HIDE DEF l
  <2>4. QED BY <2>2, <2>3, FS_Singleton DEF Summable
<1>2. CASE ~(WithholdingBp > 0 /\ n > 0)
  BY <1>2, FS_EmptySet DEF WithholdingLines, Summable
<1>3. QED BY <1>1, <1>2

LEMMA LinedCalculate ==
    ASSUME Columns, Lined, NEW t \in Statements, NEW p, calculate(t, p)
    PROVE  Lined'
<1> DEFINE C == SweepCommissionForSettlement(t, p.start, p.end)
           X == SweepFranchiseCollectionsForSettlement(p)
           A == ListPendingAdjustmentsForSettlement(t)
           D == SweepCODForSettlement(p)
           E == CommissionLines(C) \cup AdjustmentLines(A \cap Incentives)
           L == OpeningLines(p) \cup CommissionLines(C) \cup CodLines(D)
                \cup CollectionLines(X) \cup AdjustmentLines(A) \cup WithholdingLines(SumLines(E))
<1>1. /\ stl' = [stl EXCEPT ![t] = [status |-> "CALCULATED", period |-> p, lines |-> L, paid |-> 0]]
      /\ cash' = cash
  BY DEF calculate, ApplySettlementTotals
<1>2. /\ C \in SUBSET (Earnings \X Raises) /\ X \in SUBSET Collections
      /\ A \in SUBSET Adjustments /\ D \in SUBSET Holdings
  BY DEF SweepCommissionForSettlement, SweepFranchiseCollectionsForSettlement,
         ListPendingAdjustmentsForSettlement, SweepCODForSettlement, Lined
<1> HIDE DEF C, X, A, D
<1>3. /\ Summable(CommissionLines(C)) /\ Summable(CollectionLines(X))
      /\ Summable(AdjustmentLines(A)) /\ Summable(CodLines(D))
      /\ Summable(AdjustmentLines(A \cap Incentives)) /\ Summable(OpeningLines(p))
  <2>1. A \cap Incentives \in SUBSET Adjustments BY <1>2
  <2>2. QED BY <1>2, <2>1, SumsCommission, SumsCollection, SumsAdjustment, SumsCod, SumsOpening
<1>4. Summable(E) BY <1>3, SumsUnion
<1> HIDE DEF E
<1>5. Summable(WithholdingLines(SumLines(E)))
  <2>1. SumLines(E) \in Int BY <1>4, LinesSum
  <2>2. QED BY <2>1, SumsWithholding
<1>6. Summable(L)
  <2>1. Summable(OpeningLines(p) \cup CommissionLines(C)) BY <1>3, SumsUnion
  <2>2. Summable(OpeningLines(p) \cup CommissionLines(C) \cup CodLines(D)) BY <1>3, <2>1, SumsUnion
  <2>3. Summable(OpeningLines(p) \cup CommissionLines(C) \cup CodLines(D) \cup CollectionLines(X))
    BY <1>3, <2>2, SumsUnion
  <2>4. Summable(OpeningLines(p) \cup CommissionLines(C) \cup CodLines(D) \cup CollectionLines(X)
                 \cup AdjustmentLines(A))
    BY <1>3, <2>3, SumsUnion
  <2>5. QED BY <1>5, <2>4, SumsUnion
<1> HIDE DEF L
<1>7. /\ stl'[t].lines = L /\ stl'[t].paid = 0 /\ stl'[t].status = "CALCULATED"
      /\ \A u \in Statements : u # t => stl'[u] = stl[u]
  BY <1>1 DEF Columns
<1>8. ASSUME NEW u \in Statements
      PROVE  /\ Summable(stl'[u].lines)
             /\ stl'[u].paid \in Nat /\ stl'[u].paid <= AbsInt(SumLines(stl'[u].lines))
             /\ stl'[u].status \notin Frozen => stl'[u].paid = 0
  <2>1. CASE u = t
    <3>1. SumLines(L) \in Int BY <1>6, LinesSum
    <3>2. 0 <= AbsInt(SumLines(L)) BY <3>1 DEF AbsInt
    <3>3. QED BY <1>6, <1>7, <2>1, <3>2
  <2>2. CASE u # t BY <1>7, <2>2 DEF Lined, Net, isFrozen
  <2>3. QED BY <2>1, <2>2
<1>9. QED BY <1>1, <1>8 DEF Lined, Net, isFrozen, Summable

LEMMA LinedStatus ==
    ASSUME Columns, Lined, NEW t \in Statements, Submit(t) \/ Approve(t) \/ CancelSettlement(t)
    PROVE  Lined'
<1>1. cash' = cash BY DEF Submit, Approve, CancelSettlement
<1>2. \/ stl' = stl
      \/ /\ stl[t].status \in Cancellable
         /\ \E x \in {"UNDER_REVIEW", "APPROVED", "CANCELLED"} :
              stl' = [stl EXCEPT ![t] = [stl[t] EXCEPT !.status = x]]
  BY DEF Submit, Approve, ApproveSettlement, CancelSettlement, Cancellable
<1>3. CASE stl' = stl BY <1>1, <1>3 DEF Lined, Net, isFrozen
<1>4. ASSUME NEW x, stl' = [stl EXCEPT ![t] = [stl[t] EXCEPT !.status = x]],
             stl[t].status \in Cancellable
      PROVE  Lined'
  <2>1. ASSUME NEW u \in Statements
        PROVE  /\ stl'[u].lines = stl[u].lines /\ stl'[u].paid = stl[u].paid
               /\ u # t => stl'[u].status = stl[u].status
    BY <1>4 DEF Columns, IsStatement
  <2>2. stl[t].paid = 0 BY <1>4 DEF Lined, isFrozen, Cancellable, Frozen
  <2>3. ASSUME NEW u \in Statements
        PROVE  /\ Summable(stl'[u].lines)
               /\ stl'[u].paid \in Nat /\ stl'[u].paid <= AbsInt(SumLines(stl'[u].lines))
               /\ stl'[u].status \notin Frozen => stl'[u].paid = 0
    BY <2>1, <2>2 DEF Lined, Net, isFrozen
  <2>4. QED BY <1>1, <2>3 DEF Lined, Net, isFrozen, Summable
<1>5. QED BY <1>2, <1>3, <1>4

\* A payment is recorded on its statement and changes no other.
LEMMA PaidLemma ==
    ASSUME Columns, Lined, NEW t \in Statements, NEW n \in Int, Pay(t, n)
    PROVE  /\ isFrozen(t) /\ isFrozen(t)'
           /\ stl'[t].paid = stl[t].paid + n /\ stl'[t].lines = stl[t].lines
           /\ \A u \in Statements : u # t => stl'[u] = stl[u]
<1> DEFINE x == stl[t].paid + n
           y == IF stl[t].paid + n >= AbsInt(Net(t)) THEN "PAID" ELSE "PARTIALLY_PAID"
<1>1. stl' = [stl EXCEPT ![t].paid = x, ![t].status = y]
  BY DEF Pay, RecordSettlementPaid
<1>2. y \in Frozen BY DEF Frozen
<1>3. stl[t].status \in Frozen BY DEF Pay, Frozen
<1> HIDE DEF x, y
<1>4. stl'[t].paid = x /\ stl'[t].lines = stl[t].lines /\ stl'[t].status = y
      /\ \A u \in Statements : u # t => stl'[u] = stl[u]
  BY <1>1 DEF Columns, IsStatement
<1>5. QED BY <1>2, <1>3, <1>4 DEF isFrozen, x

LEMMA LinedPay ==
    ASSUME Columns, Lined, NEW t \in Statements, NEW n \in Int, Pay(t, n)
    PROVE  Lined'
<1>1. cash' = cash /\ n > 0 /\ n <= AbsInt(Net(t)) - stl[t].paid BY DEF Pay
<1>2. Net(t) \in Int /\ stl[t].paid \in Nat /\ AbsInt(Net(t)) \in Int
  BY LinesSum DEF Lined, Net, AbsInt
<1>3. ASSUME NEW u \in Statements
      PROVE  /\ Summable(stl'[u].lines)
             /\ stl'[u].paid \in Nat /\ stl'[u].paid <= AbsInt(SumLines(stl'[u].lines))
             /\ stl'[u].status \notin Frozen => stl'[u].paid = 0
  <2>1. CASE u = t
    <3>1. stl'[t].paid = stl[t].paid + n /\ stl'[t].lines = stl[t].lines /\ stl'[t].status \in Frozen
      BY PaidLemma DEF isFrozen
    <3>2. stl[t].paid + n \in Nat /\ stl[t].paid + n <= AbsInt(Net(t))
      BY <1>1, <1>2
    <3>3. QED BY <2>1, <3>1, <3>2 DEF Lined, Net
  <2>2. CASE u # t
    <3>1. stl'[u] = stl[u] BY <2>2, PaidLemma
    <3>2. QED BY <3>1 DEF Lined, Net, isFrozen
  <2>3. QED BY <2>1, <2>2
<1>4. QED BY <1>1, <1>3 DEF Lined, Net, isFrozen, Summable

-----------------------------------------------------------------------------
\* What a journal is worth to the franchise: what we owe it less what it owes us.
Due(j) == Worth(j, FranchisePayable, Franchise) - Worth(j, FranchiseReceivable, Franchise)
Valued(j) == /\ Worth(j, FranchisePayable, Franchise) \in Int
             /\ Worth(j, FranchiseReceivable, Franchise) \in Int
DueTotal == Balance(journal, FranchisePayable, Franchise)
            - Balance(journal, FranchiseReceivable, Franchise)

\* The legs of a commission are nobody's, and so are those of its reversal.
LEMMA CommissionWorth ==
    ASSUME NEW j, NEW n, j.legs = CommissionLegs(n) \/ j.legs = Mirror(CommissionLegs(n))
    PROVE  Valued(j) /\ Due(j) = 0
<1>1. \A l \in j.legs : l.party = Nil
  <2>1. \A l \in CommissionLegs(n) : l.party = Nil /\ l = [account |-> l.account, party |-> l.party,
                                                          debit |-> l.debit, credit |-> l.credit]
    BY DEF CommissionLegs, Debit, Credit
  <2>2. \A l \in CommissionLegs(n) : [l EXCEPT !.debit = l.credit, !.credit = l.debit].party = Nil
    BY <2>1
  <2>3. ASSUME NEW l \in Mirror(CommissionLegs(n)) PROVE l.party = Nil
    <3>1. PICK k \in CommissionLegs(n) : l = [k EXCEPT !.debit = k.credit, !.credit = k.debit]
      BY DEF Mirror
    <3>2. QED BY <2>2, <3>1
  <2>4. QED BY <2>1, <2>3
<1>2. \A l \in j.legs : l.party # Franchise BY <1>1, SettlementAssumption
<1>3. /\ Worth(j, FranchisePayable, Franchise) = 0
      /\ Worth(j, FranchiseReceivable, Franchise) = 0
  BY <1>2, NoLeg
<1>4. QED BY <1>3 DEF Valued, Due

LEMMA AccountsDiffer ==
    /\ FranchisePayable # FranchiseReceivable /\ FranchisePayable # CommissionPayable
    /\ FranchiseReceivable # CommissionPayable
    /\ Cash # FranchisePayable /\ Cash # FranchiseReceivable
    /\ FranchisePayable \notin NormalDebit /\ FranchiseReceivable \in NormalDebit
  BY DEF FranchisePayable, FranchiseReceivable, CommissionPayable, Cash, NormalDebit,
         CODReceivableAgent, CODReceivableBranch, CODReceivableFranchise, TradeReceivable,
         CODShortageRecoverable, CommissionExpense, DiscountAllowed

\* Two legs, of which one is the franchise's: in the liability, or in the receivable.
LEMMA PayableWorth ==
    ASSUME NEW j, NEW l, NEW m, j.legs = {l, m},
           l.account = FranchisePayable, l.party = Franchise, l.debit \in Int, l.credit \in Int,
           m.account \notin {FranchisePayable, FranchiseReceivable}
    PROVE  Valued(j) /\ Due(j) = l.credit - l.debit
<1>1. Worth(j, FranchisePayable, Franchise) = l.credit - l.debit
  <2>1. /\ l \in j.legs
        /\ \A k \in j.legs : k.account = FranchisePayable /\ k.party = Franchise => k = l
    OBVIOUS
  <2>2. QED BY <2>1, AccountsDiffer, OneLeg
<1>2. Worth(j, FranchiseReceivable, Franchise) = 0
  <2>1. \A k \in j.legs : k.account # FranchiseReceivable BY AccountsDiffer
  <2>2. QED BY <2>1, NoLeg
<1>3. QED BY <1>1, <1>2 DEF Valued, Due

LEMMA ReceivableWorth ==
    ASSUME NEW j, NEW l, NEW m, j.legs = {l, m},
           l.account = FranchiseReceivable, l.party = Franchise, l.debit \in Int, l.credit \in Int,
           m.account \notin {FranchisePayable, FranchiseReceivable}
    PROVE  Valued(j) /\ Due(j) = l.credit - l.debit
<1>1. Worth(j, FranchiseReceivable, Franchise) = l.debit - l.credit
  <2>1. /\ l \in j.legs
        /\ \A k \in j.legs : k.account = FranchiseReceivable /\ k.party = Franchise => k = l
    OBVIOUS
  <2>2. QED BY <2>1, AccountsDiffer, OneLeg
<1>2. Worth(j, FranchisePayable, Franchise) = 0
  <2>1. \A k \in j.legs : k.account # FranchisePayable BY AccountsDiffer
  <2>2. QED BY <2>1, NoLeg
<1>3. QED BY <1>1, <1>2 DEF Valued, Due

LEMMA NetWorth ==
    ASSUME NEW j, NEW n \in Int, j.legs = NetLegs(n)
    PROVE  Valued(j) /\ Due(j) = n
<1>1. CASE n > 0
  <2> DEFINE l == Credit(FranchisePayable, Franchise, n)
             m == Debit(CommissionPayable, Nil, n)
  <2>1. j.legs = {l, m} BY <1>1 DEF NetLegs
  <2>2. /\ l.account = FranchisePayable /\ l.party = Franchise /\ l.debit = 0 /\ l.credit = n
        /\ m.account = CommissionPayable
    BY DEF Credit, Debit
  <2>3. m.account \notin {FranchisePayable, FranchiseReceivable} BY <2>2, AccountsDiffer
  <2> HIDE DEF l, m
  <2>4. Valued(j) /\ Due(j) = l.credit - l.debit BY <2>1, <2>2, <2>3, PayableWorth
  <2>5. QED BY <2>2, <2>4
<1>2. CASE ~(n > 0)
  <2> DEFINE l == Debit(FranchiseReceivable, Franchise, -n)
             m == Credit(CommissionPayable, Nil, -n)
  <2>1. j.legs = {l, m} BY <1>2 DEF NetLegs
  <2>2. /\ l.account = FranchiseReceivable /\ l.party = Franchise /\ l.debit = -n /\ l.credit = 0
        /\ m.account = CommissionPayable
    BY DEF Credit, Debit
  <2>3. m.account \notin {FranchisePayable, FranchiseReceivable} BY <2>2, AccountsDiffer
  <2> HIDE DEF l, m
  <2>4. Valued(j) /\ Due(j) = l.credit - l.debit BY <2>1, <2>2, <2>3, ReceivableWorth
  <2>5. QED BY <2>2, <2>4
<1>3. QED BY <1>1, <1>2

LEMMA PayWorth ==
    ASSUME NEW t \in Statements, NEW n \in Int, NEW j, j.legs = PayLegs(t, n)
    PROVE  Valued(j) /\ Due(j) = IF Net(t) > 0 THEN -n ELSE n
<1>1. CASE Net(t) > 0
  <2> DEFINE l == Debit(FranchisePayable, Franchise, n)
             m == Credit(Cash, Nil, n)
  <2>1. j.legs = {l, m} BY <1>1 DEF PayLegs
  <2>2. /\ l.account = FranchisePayable /\ l.party = Franchise /\ l.debit = n /\ l.credit = 0
        /\ m.account = Cash
    BY DEF Credit, Debit
  <2>3. m.account \notin {FranchisePayable, FranchiseReceivable} BY <2>2, AccountsDiffer
  <2> HIDE DEF l, m
  <2>4. Valued(j) /\ Due(j) = l.credit - l.debit BY <2>1, <2>2, <2>3, PayableWorth
  <2>5. QED BY <1>1, <2>2, <2>4
<1>2. CASE ~(Net(t) > 0)
  <2> DEFINE l == Credit(FranchiseReceivable, Franchise, n)
             m == Debit(Cash, Nil, n)
  <2>1. j.legs = {l, m} BY <1>2 DEF PayLegs
  <2>2. /\ l.account = FranchiseReceivable /\ l.party = Franchise /\ l.debit = 0 /\ l.credit = n
        /\ m.account = Cash
    BY DEF Credit, Debit
  <2>3. m.account \notin {FranchisePayable, FranchiseReceivable} BY <2>2, AccountsDiffer
  <2> HIDE DEF l, m
  <2>4. Valued(j) /\ Due(j) = l.credit - l.debit BY <2>1, <2>2, <2>3, ReceivableWorth
  <2>5. QED BY <1>2, <2>2, <2>4
<1>3. QED BY <1>1, <1>2

-----------------------------------------------------------------------------
\* Every journal is that of an approved statement, of a correction posted by
\* itself, of a numbered payment, or of a commission or its reversal.
SettlementPayments == {j \in journal : j.purpose = "SETTLEMENT_PAYMENT"}
Caused(j) ==
    \/ \E t \in Statements : isFrozen(t) /\ j.source = <<"SETTLEMENT", t>>
    \/ \E a \in Adjustments : adj[a].status = "APPLIED" /\ j.source = <<"ADJUSTMENT", a>>
    \/ \E t, m : m \in 1 .. Cardinality(SettlementPayments) /\ j.source = <<"PAYMENT", t, m>>
    \/ \E e, k, n : j.source = <<"COMMISSION", e, k>> /\ j.legs = CommissionLegs(n)
    \/ \E x, y : j.source = <<"REVERSAL", x, y>>
Journals == IsFiniteSet(journal) /\ \A j \in journal : Valued(j) /\ Caused(j)

LEMMA PostedSource ==
    /\ \A t, a, m, e, k, x, y :
        /\ <<"SETTLEMENT", t>> # <<"ADJUSTMENT", a>> /\ <<"SETTLEMENT", t>> # <<"PAYMENT", a, m>>
        /\ <<"SETTLEMENT", t>> # <<"COMMISSION", e, k>> /\ <<"SETTLEMENT", t>> # <<"REVERSAL", x, y>>
        /\ <<"ADJUSTMENT", a>> # <<"PAYMENT", t, m>> /\ <<"ADJUSTMENT", a>> # <<"COMMISSION", e, k>>
        /\ <<"ADJUSTMENT", a>> # <<"REVERSAL", x, y>> /\ <<"PAYMENT", t, m>> # <<"COMMISSION", e, k>>
        /\ <<"PAYMENT", t, m>> # <<"REVERSAL", x, y>> /\ <<"COMMISSION", e, k>> # <<"REVERSAL", x, y>>
    /\ \A t, u : <<"SETTLEMENT", t>> = <<"SETTLEMENT", u>> => t = u
    /\ \A a, b : <<"ADJUSTMENT", a>> = <<"ADJUSTMENT", b>> => a = b
    /\ \A t, u, m, n : <<"PAYMENT", t, m>> = <<"PAYMENT", u, n>> => m = n
  OBVIOUS

\* Approved statements stay approved, and posted corrections posted.
Forward == /\ \A t \in Statements : isFrozen(t) => isFrozen(t)'
           /\ \A a \in Adjustments : adj[a].status = "APPLIED" => adj'[a].status = "APPLIED"

LEMMA CausedKept ==
    ASSUME Journals, Forward, journal \subseteq journal', IsFiniteSet(journal'), NEW j \in journal
    PROVE  Caused(j)'
<1>1. Caused(j) BY DEF Journals
<1>2. CASE \E t \in Statements : isFrozen(t) /\ j.source = <<"SETTLEMENT", t>>
  BY <1>2 DEF Forward, Caused
<1>3. CASE \E a \in Adjustments : adj[a].status = "APPLIED" /\ j.source = <<"ADJUSTMENT", a>>
  BY <1>3 DEF Forward, Caused
<1>4. CASE \E t, m : m \in 1 .. Cardinality(SettlementPayments) /\ j.source = <<"PAYMENT", t, m>>
  <2>1. /\ SettlementPayments \subseteq SettlementPayments' /\ SettlementPayments' \subseteq journal'
    BY DEF SettlementPayments
  <2>2. IsFiniteSet(SettlementPayments') BY <2>1, FS_Subset
  <2>3. /\ Cardinality(SettlementPayments) <= Cardinality(SettlementPayments')
        /\ IsFiniteSet(SettlementPayments)
    BY <2>1, <2>2, FS_Subset
  <2>4. Cardinality(SettlementPayments) \in Nat /\ Cardinality(SettlementPayments') \in Nat
    BY <2>2, <2>3, FS_CardinalityType
  <2>5. PICK t, m : m \in 1 .. Cardinality(SettlementPayments) /\ j.source = <<"PAYMENT", t, m>>
    BY <1>4
  <2>6. m \in 1 .. Cardinality(SettlementPayments') BY <2>3, <2>4, <2>5
  <2>7. QED BY <2>5, <2>6 DEF Caused
<1>5. CASE \/ \E e, k, n : j.source = <<"COMMISSION", e, k>> /\ j.legs = CommissionLegs(n)
           \/ \E x, y : j.source = <<"REVERSAL", x, y>>
  BY <1>5 DEF Caused
<1>6. QED BY <1>1, <1>2, <1>3, <1>4, <1>5 DEF Caused

LEMMA DueType ==
    ASSUME Journals
    PROVE  DueTotal \in Int
<1>1. /\ \A j \in journal : Worth(j, FranchisePayable, Franchise) \in Int
      /\ \A j \in journal : Worth(j, FranchiseReceivable, Franchise) \in Int
  BY DEF Journals, Valued
<1>2. /\ Balance(journal, FranchisePayable, Franchise) \in Int
      /\ Balance(journal, FranchiseReceivable, Franchise) \in Int
  BY <1>1, BalanceType DEF Journals
<1>3. QED BY <1>2 DEF DueTotal

\* Nothing is posted.
LEMMA NothingPosted ==
    ASSUME Journals, Forward, UNCHANGED journal
    PROVE  Journals' /\ DueTotal' = DueTotal
<1>1. \A j \in journal : Caused(j)' BY CausedKept DEF Journals
<1>2. Journals'
  BY <1>1 DEF Journals, Valued, Worth, LegsOf
<1>3. QED BY <1>2 DEF DueTotal, Balance, Worth, LegsOf

\* One journal is posted.
LEMMA OnePosted ==
    ASSUME Journals, Forward, NEW r, journal' = journal \cup {r}, Valued(r), Caused(r)'
    PROVE  /\ Journals'
           /\ r \notin journal => DueTotal' = DueTotal + Due(r)
           /\ r \in journal => DueTotal' = DueTotal
<1>1. IsFiniteSet(journal') BY FS_AddElement DEF Journals
<1>2. \A j \in journal : Caused(j)' BY <1>1, CausedKept
<1>3. \A j \in journal' : Valued(j) BY DEF Journals
<1>4. Journals'
  BY <1>1, <1>2, <1>3 DEF Journals, Valued, Worth, LegsOf
<1>5. ASSUME r \in journal PROVE DueTotal' = DueTotal
  <2>1. journal' = journal BY <1>5
  <2>2. QED BY <2>1 DEF DueTotal, Balance, Worth, LegsOf
<1>6. ASSUME r \notin journal PROVE DueTotal' = DueTotal + Due(r)
  <2>1. \A j \in journal \cup {r} : /\ Worth(j, FranchisePayable, Franchise) \in Int
                                    /\ Worth(j, FranchiseReceivable, Franchise) \in Int
    BY DEF Journals, Valued
  <2>2. /\ Balance(journal \cup {r}, FranchisePayable, Franchise)
             = Balance(journal, FranchisePayable, Franchise) + Worth(r, FranchisePayable, Franchise)
        /\ Balance(journal \cup {r}, FranchiseReceivable, Franchise)
             = Balance(journal, FranchiseReceivable, Franchise) + Worth(r, FranchiseReceivable, Franchise)
    BY <1>6, <2>1, BalanceAdds DEF Journals
  <2>3. /\ Balance(journal, FranchisePayable, Franchise) \in Int
        /\ Balance(journal, FranchiseReceivable, Franchise) \in Int
    BY <2>1, BalanceType DEF Journals
  <2>4. DueTotal' = Balance(journal \cup {r}, FranchisePayable, Franchise)
                    - Balance(journal \cup {r}, FranchiseReceivable, Franchise)
    BY DEF DueTotal, Balance, Worth, LegsOf
  <2>5. QED BY <2>1, <2>2, <2>3, <2>4 DEF DueTotal, Due
<1>7. QED BY <1>4, <1>5, <1>6

-----------------------------------------------------------------------------
FrozenStatements == {t \in Statements : isFrozen(t)}
AppliedAdjustments == {a \in Adjustments : adj[a].status = "APPLIED"}
Owed == SumFunctionOnSet([t \in Statements |-> Unpaid(t)], FrozenStatements)
Corrected == SumFunctionOnSet([a \in Adjustments |-> adj[a].n], AppliedAdjustments)

LEMMA UnpaidType ==
    ASSUME Lined, NEW t \in Statements
    PROVE  Net(t) \in Int /\ Unpaid(t) \in Int
  BY LinesSum DEF Lined, Net, Unpaid

LEMMA FrozenFinite ==
    /\ FrozenStatements \subseteq Statements /\ IsFiniteSet(FrozenStatements)
    /\ AppliedAdjustments \subseteq Adjustments /\ IsFiniteSet(AppliedAdjustments)
<1>1. MaxStatements \in Int /\ 1 \in Int BY SettlementAssumption
<1>2. IsFiniteSet(Statements) BY <1>1, FS_Interval
<1>3. IsFiniteSet(Adjustments) BY SettlementAssumption
<1>4. FrozenStatements \subseteq Statements /\ AppliedAdjustments \subseteq Adjustments
  BY DEF FrozenStatements, AppliedAdjustments
<1>5. QED BY <1>2, <1>3, <1>4, FS_Subset

LEMMA OwedType ==
    ASSUME Lined, Columns
    PROVE  Owed \in Int /\ Corrected \in Int
<1> DEFINE f == [t \in Statements |-> Unpaid(t)]
           g == [a \in Adjustments |-> adj[a].n]
<1>1. \A t \in FrozenStatements : f[t] \in Int BY UnpaidType, FrozenFinite
<1>2. \A a \in AppliedAdjustments : g[a] \in Int
  <2>1. \A a \in Adjustments : adj[a].n \in AdjAmounts \cup {0} BY DEF Columns, AdjRow
  <2>2. AdjAmounts \cup {0} \subseteq Int BY SettlementAssumption
  <2>3. QED BY <2>1, <2>2, FrozenFinite
<1> HIDE DEF f, g
<1>3. QED BY <1>1, <1>2, FrozenFinite, SumType DEF Owed, Corrected, f, g

\* No statement is approved or paid.
LEMMA OwedSame ==
    ASSUME \A t \in Statements : isFrozen(t)' <=> isFrozen(t),
           \A t \in Statements : isFrozen(t) => stl'[t].lines = stl[t].lines /\ stl'[t].paid = stl[t].paid
    PROVE  Owed' = Owed
<1> DEFINE f == [t \in Statements |-> Unpaid(t)]
           g == [t \in Statements |-> Unpaid(t)']
           S == FrozenStatements
<1>1. FrozenStatements' = S BY DEF FrozenStatements
<1>2. \A t \in S : f[t] = g[t] BY DEF Unpaid, Net, FrozenStatements
<1>3. Owed' = SumFunctionOnSet(g, S) BY <1>1 DEF Owed
<1>4. Owed = SumFunctionOnSet(f, S) BY DEF Owed
<1>5. IsFiniteSet(S) BY FrozenFinite
<1> HIDE DEF f, g, S
<1>6. QED BY <1>2, <1>3, <1>4, <1>5, SumSame

LEMMA CorrectedSame ==
    ASSUME \A a \in Adjustments :
               \/ adj'[a] = adj[a]
               \/ adj[a].status # "APPLIED" /\ adj'[a].status # "APPLIED"
    PROVE  Corrected' = Corrected
<1> DEFINE f == [a \in Adjustments |-> adj[a].n]
           g == [a \in Adjustments |-> adj'[a].n]
           S == AppliedAdjustments
<1>1. AppliedAdjustments' = S BY DEF AppliedAdjustments
<1>2. \A a \in S : f[a] = g[a] BY DEF AppliedAdjustments
<1>3. Corrected' = SumFunctionOnSet(g, S) BY <1>1 DEF Corrected
<1>4. Corrected = SumFunctionOnSet(f, S) BY DEF Corrected
<1>5. IsFiniteSet(S) BY FrozenFinite
<1> HIDE DEF f, g, S
<1>6. QED BY <1>2, <1>3, <1>4, <1>5, SumSame

\* A statement is approved.
LEMMA OwedApproved ==
    ASSUME Lined, Lined', NEW t \in Statements, ~isFrozen(t), isFrozen(t)',
           \A u \in Statements : stl'[u].lines = stl[u].lines /\ stl'[u].paid = stl[u].paid,
           \A u \in Statements : u # t => (isFrozen(u)' <=> isFrozen(u))
    PROVE  Owed' = Owed + Net(t)
<1> DEFINE f == [u \in Statements |-> Unpaid(u)]
           g == [u \in Statements |-> Unpaid(u)']
           S == FrozenStatements
<1>1. FrozenStatements' = S \cup {t} /\ t \notin S BY DEF FrozenStatements
<1>2. \A u \in Statements : f[u] = g[u] BY DEF Unpaid, Net
<1>3. \A u \in Statements : f[u] \in Int BY UnpaidType
<1>4. f[t] = Net(t)
  <2>1. stl[t].paid = 0 /\ Net(t) \in Int BY UnpaidType DEF Lined
  <2>2. QED BY <2>1 DEF Unpaid
<1>5. Owed' = SumFunctionOnSet(g, S \cup {t}) BY <1>1 DEF Owed
<1>6. Owed = SumFunctionOnSet(f, S) BY DEF Owed
<1>7. IsFiniteSet(S) /\ S \subseteq Statements BY FrozenFinite
<1> HIDE DEF f, g, S
<1>8. IsFiniteSet(S \cup {t}) /\ \A u \in S \cup {t} : f[u] = g[u] /\ f[u] \in Int
  BY <1>2, <1>3, <1>7, FS_AddElement
<1>9. SumFunctionOnSet(g, S \cup {t}) = SumFunctionOnSet(f, S \cup {t}) BY <1>8, SumSame
<1>10. SumFunctionOnSet(f, S \cup {t}) = SumFunctionOnSet(f, S) + f[t] BY <1>1, <1>7, <1>8, SumAdd
<1>11. QED BY <1>4, <1>5, <1>6, <1>9, <1>10

\* A statement is paid.
LEMMA OwedPaid ==
    ASSUME Columns, Lined, Lined', NEW t \in Statements, NEW n \in Int, Pay(t, n)
    PROVE  Owed' = Owed + IF Net(t) > 0 THEN -n ELSE n
<1> DEFINE f == [u \in Statements |-> Unpaid(u)]
           g == [u \in Statements |-> Unpaid(u)']
           S == FrozenStatements
<1>0. /\ isFrozen(t) /\ isFrozen(t)'
      /\ stl'[t].paid = stl[t].paid + n /\ stl'[t].lines = stl[t].lines
      /\ \A u \in Statements : u # t => stl'[u] = stl[u]
  BY PaidLemma
<1>1. FrozenStatements' = S /\ t \in S BY <1>0 DEF FrozenStatements, isFrozen
<1>2. \A u \in Statements : u # t => f[u] = g[u] BY <1>0 DEF Unpaid, Net
<1>3. \A u \in Statements : f[u] \in Int /\ g[u] \in Int
  <2>1. \A u \in Statements : Unpaid(u) \in Int BY UnpaidType
  <2>2. \A u \in Statements : Unpaid(u)' \in Int
    <3>1. ASSUME NEW u \in Statements PROVE Unpaid(u)' \in Int
      <4>1. Summable(stl'[u].lines) /\ stl'[u].paid \in Nat BY DEF Lined, Summable
      <4>2. SumLines(stl'[u].lines) \in Int BY <4>1, LinesSum
      <4>3. QED BY <4>1, <4>2 DEF Unpaid, Net
    <3>2. QED BY <3>1
  <2>3. QED BY <2>1, <2>2
<1>4. g[t] = f[t] + IF Net(t) > 0 THEN -n ELSE n
  <2>1. stl[t].paid \in Int /\ Net(t) \in Int BY UnpaidType DEF Lined
  <2>2. Net(t)' = Net(t) BY <1>0 DEF Net
  <2>3. Unpaid(t)' = IF Net(t) > 0 THEN Net(t) - (stl[t].paid + n) ELSE Net(t) + (stl[t].paid + n)
    BY <1>0, <2>2 DEF Unpaid
  <2>4. Unpaid(t) = IF Net(t) > 0 THEN Net(t) - stl[t].paid ELSE Net(t) + stl[t].paid
    BY DEF Unpaid
  <2>5. Unpaid(t)' = Unpaid(t) + IF Net(t) > 0 THEN -n ELSE n BY <2>1, <2>3, <2>4
  <2>6. QED BY <2>5
<1>5. Owed' = SumFunctionOnSet(g, S) BY <1>1 DEF Owed
<1>6. Owed = SumFunctionOnSet(f, S) BY DEF Owed
<1>7. IsFiniteSet(S) /\ S \subseteq Statements BY FrozenFinite
<1>12. (IF Net(t) > 0 THEN -n ELSE n) \in Int OBVIOUS
<1> HIDE DEF f, g, S
<1>8. \A u \in S : f[u] \in Int /\ g[u] \in Int /\ (u # t => g[u] = f[u]) BY <1>2, <1>3, <1>7
<1>9. SumFunctionOnSet(g, S) = SumFunctionOnSet(f, S) + g[t] - f[t] BY <1>1, <1>7, <1>8, SumChange, ZenonT(60)
<1>10. SumFunctionOnSet(f, S) \in Int /\ f[t] \in Int BY <1>3, <1>7, <1>8, SumType
<1> DEFINE x == IF Net(t) > 0 THEN -n ELSE n
<1>11. x \in Int /\ g[t] = f[t] + x BY <1>4, <1>12
<1> HIDE DEF x
<1>13. SumFunctionOnSet(g, S) = SumFunctionOnSet(f, S) + x BY <1>9, <1>10, <1>11
<1>14. QED BY <1>5, <1>6, <1>13 DEF x

\* A correction is posted by itself.
LEMMA CorrectedApplied ==
    ASSUME Columns, NEW a \in Adjustments, adj[a].status # "APPLIED",
           adj' = [adj EXCEPT ![a].status = "APPLIED"]
    PROVE  Corrected' = Corrected + adj[a].n
<1> DEFINE f == [b \in Adjustments |-> adj[b].n]
           g == [b \in Adjustments |-> adj'[b].n]
           S == AppliedAdjustments
<1>0. /\ adj'[a].status = "APPLIED" /\ adj'[a].n = adj[a].n
      /\ \A b \in Adjustments : b # a => adj'[b] = adj[b]
  BY DEF Columns, AdjRow
<1>1. AppliedAdjustments' = S \cup {a} /\ a \notin S BY <1>0 DEF AppliedAdjustments
<1>2. \A b \in Adjustments : f[b] = g[b] BY <1>0
<1>3. \A b \in Adjustments : f[b] \in Int
  <2>1. \A b \in Adjustments : adj[b].n \in AdjAmounts \cup {0} BY DEF Columns, AdjRow
  <2>2. AdjAmounts \cup {0} \subseteq Int BY SettlementAssumption
  <2>3. QED BY <2>1, <2>2
<1>4. f[a] = adj[a].n OBVIOUS
<1>5. Corrected' = SumFunctionOnSet(g, S \cup {a}) BY <1>1 DEF Corrected
<1>6. Corrected = SumFunctionOnSet(f, S) BY DEF Corrected
<1>7. IsFiniteSet(S) /\ S \subseteq Adjustments BY FrozenFinite
<1> HIDE DEF f, g, S
<1>8. IsFiniteSet(S \cup {a}) /\ \A b \in S \cup {a} : f[b] = g[b] /\ f[b] \in Int
  BY <1>2, <1>3, <1>7, FS_AddElement
<1>9. SumFunctionOnSet(g, S \cup {a}) = SumFunctionOnSet(f, S \cup {a}) BY <1>8, SumSame
<1>10. SumFunctionOnSet(f, S \cup {a}) = SumFunctionOnSet(f, S) + f[a] BY <1>1, <1>7, <1>8, SumAdd
<1>11. QED BY <1>4, <1>5, <1>6, <1>9, <1>10

-----------------------------------------------------------------------------
\* The books of a franchise.
Accounts == Lined /\ Journals /\ DueTotal = Owed + Corrected

\* Nothing is posted, and nothing that has been.
LEMMA AccountsQuiet ==
    ASSUME Accounts, Lined', UNCHANGED journal,
           \A t \in Statements : isFrozen(t)' <=> isFrozen(t),
           \A t \in Statements : isFrozen(t) => stl'[t].lines = stl[t].lines /\ stl'[t].paid = stl[t].paid,
           \A a \in Adjustments :
               \/ adj'[a] = adj[a]
               \/ adj[a].status # "APPLIED" /\ adj'[a].status # "APPLIED"
    PROVE  Accounts'
<1>1. Forward BY DEF Forward
<1>2. Journals' /\ DueTotal' = DueTotal BY <1>1, NothingPosted DEF Accounts
<1>3. Owed' = Owed BY OwedSame
<1>4. Corrected' = Corrected BY CorrectedSame
<1>5. QED BY <1>2, <1>3, <1>4 DEF Accounts

LEMMA AccountsCalculate ==
    ASSUME Columns, Accounts, NEW t \in Statements, NEW p, stl[t].status \notin Frozen, calculate(t, p)
    PROVE  Accounts'
<1>1. Lined' BY LinedCalculate DEF Accounts
<1>2. UNCHANGED <<journal, adj>> BY DEF calculate
<1>3. /\ stl'[t].status = "CALCULATED"
      /\ \A u \in Statements : u # t => stl'[u] = stl[u]
  BY CalculateLemma
<1>4. "CALCULATED" \notin Frozen BY DEF Frozen
<1>5. \A u \in Statements : isFrozen(u)' <=> isFrozen(u) BY <1>3, <1>4 DEF isFrozen
<1>6. \A u \in Statements : isFrozen(u) => stl'[u].lines = stl[u].lines /\ stl'[u].paid = stl[u].paid
  BY <1>3 DEF isFrozen
<1>7. QED BY <1>1, <1>2, <1>5, <1>6, AccountsQuiet

LEMMA AccountsStatus ==
    ASSUME Columns, Accounts, NEW t \in Statements, Submit(t) \/ CancelSettlement(t)
    PROVE  Accounts'
<1>1. Lined' BY LinedStatus DEF Accounts
<1>2. UNCHANGED <<journal, adj>> BY DEF Submit, CancelSettlement
<1>3. \/ stl' = stl
      \/ /\ stl[t].status \in Cancellable
         /\ \E x \in {"UNDER_REVIEW", "CANCELLED"} :
              stl' = [stl EXCEPT ![t] = [stl[t] EXCEPT !.status = x]]
  BY DEF Submit, CancelSettlement, Cancellable
<1>4. CASE stl' = stl BY <1>1, <1>2, <1>4, AccountsQuiet DEF isFrozen
<1>5. ASSUME NEW x \in {"UNDER_REVIEW", "CANCELLED"}, stl[t].status \in Cancellable,
             stl' = [stl EXCEPT ![t] = [stl[t] EXCEPT !.status = x]]
      PROVE  Accounts'
  <2>1. /\ stl'[t].status = x
        /\ \A u \in Statements : u # t => stl'[u] = stl[u]
    BY <1>5 DEF Columns, IsStatement
  <2>2. x \notin Frozen /\ stl[t].status \notin Frozen BY <1>5 DEF Frozen, Cancellable
  <2>3. \A u \in Statements : isFrozen(u)' <=> isFrozen(u) BY <2>1, <2>2 DEF isFrozen
  <2>4. \A u \in Statements : isFrozen(u) => stl'[u].lines = stl[u].lines /\ stl'[u].paid = stl[u].paid
    BY <2>1, <2>2 DEF isFrozen
  <2>5. QED BY <1>1, <1>2, <2>3, <2>4, AccountsQuiet
<1>6. QED BY <1>3, <1>4, <1>5

\* An approval posts the net of the statement, which nothing had posted.
LEMMA AccountsApprove ==
    ASSUME Columns, Accounts, NEW t \in Statements, Approve(t)
    PROVE  Accounts'
<1>1. Lined /\ Lined' /\ Journals BY LinedStatus DEF Accounts
<1>2. /\ stl[t].status \in Cancellable
      /\ stl' = [stl EXCEPT ![t] = [stl[t] EXCEPT !.status = "APPROVED"]]
      /\ adj' = adj
  BY DEF Approve, ApproveSettlement, Cancellable
<1>3. /\ stl'[t].status = "APPROVED"
      /\ \A u \in Statements : u # t => stl'[u].status = stl[u].status
      /\ \A u \in Statements : stl'[u].lines = stl[u].lines /\ stl'[u].paid = stl[u].paid
  BY <1>2 DEF Columns, IsStatement
<1>4. ~isFrozen(t) /\ isFrozen(t)' BY <1>2, <1>3 DEF isFrozen, Frozen, Cancellable
<1>5. \A u \in Statements : u # t => (isFrozen(u)' <=> isFrozen(u)) BY <1>3 DEF isFrozen
<1>6. Owed' = Owed + Net(t) BY <1>1, <1>3, <1>4, <1>5, OwedApproved
<1>7. Corrected' = Corrected BY <1>2, CorrectedSame
<1>8. Forward BY <1>2, <1>4, <1>5 DEF Forward
<1>9. Net(t) \in Int /\ Owed \in Int /\ Corrected \in Int /\ DueTotal \in Int
  BY <1>1, UnpaidType, OwedType, DueType
<1>10. Journals' /\ DueTotal' = DueTotal + Net(t)
  <2>1. CASE Net(t) = 0
    <3>1. journal' = journal BY <2>1 DEF Approve
    <3>2. Journals' /\ DueTotal' = DueTotal BY <1>1, <1>8, <3>1, NothingPosted
    <3>3. QED BY <1>9, <2>1, <3>2
  <2>2. CASE Net(t) # 0
    <3>1. PICK r : r = [source |-> <<"SETTLEMENT", t>>, purpose |-> "APPROVAL", legs |-> NetLegs(Net(t))]
      OBVIOUS
    <3>2. \A j \in journal : j.source # <<"SETTLEMENT", t>>
      BY <1>1, <1>4, PostedSource DEF Journals, Caused
    <3>3. Post(<<"SETTLEMENT", t>>, "APPROVAL", NetLegs(Net(t))) BY <2>2 DEF Approve
    <3>4. journal' = journal \cup {r} /\ r \notin journal BY <3>1, <3>2, <3>3, PostNew
    <3>5. r.source = <<"SETTLEMENT", t>> /\ r.legs = NetLegs(Net(t)) BY <3>1
    <3>6. Valued(r) /\ Due(r) = Net(t) BY <1>9, <3>5, NetWorth
    <3>7. Caused(r)' BY <1>4, <3>5 DEF Caused
    <3>8. QED BY <1>1, <1>8, <3>4, <3>6, <3>7, OnePosted
  <2>3. QED BY <2>1, <2>2
<1>11. QED BY <1>1, <1>6, <1>7, <1>9, <1>10 DEF Accounts

\* A payment takes from the account what it takes from the statement.
LEMMA AccountsPay ==
    ASSUME Columns, Accounts, NEW t \in Statements, NEW n \in Int, Pay(t, n)
    PROVE  Accounts'
<1>1. Lined /\ Lined' /\ Journals BY LinedPay DEF Accounts
<1>2. adj' = adj BY DEF Pay
<1>3. /\ isFrozen(t) /\ isFrozen(t)'
      /\ \A u \in Statements : u # t => stl'[u] = stl[u]
  BY <1>1, PaidLemma
<1>4. Forward BY <1>2, <1>3 DEF Forward, isFrozen
<1> DEFINE x == IF Net(t) > 0 THEN -n ELSE n
           N == Cardinality(SettlementPayments)
<1>5. Owed' = Owed + x BY <1>1, OwedPaid
<1>6. Corrected' = Corrected BY <1>2, CorrectedSame
<1>7. x \in Int /\ Owed \in Int /\ Corrected \in Int /\ DueTotal \in Int
  BY <1>1, OwedType, DueType
<1>8. SettlementPayments \subseteq journal /\ IsFiniteSet(SettlementPayments) /\ N \in Nat
  <2>1. SettlementPayments \subseteq journal BY DEF SettlementPayments
  <2>2. IsFiniteSet(SettlementPayments) BY <1>1, <2>1, FS_Subset DEF Journals
  <2>3. QED BY <2>1, <2>2, FS_CardinalityType
<1>9. allocatePaymentNumber = N + 1 BY DEF allocatePaymentNumber, SettlementPayments
<1> HIDE DEF x
<1>10. Journals' /\ DueTotal' = DueTotal + x
  <2>1. PICK r : r = [source |-> <<"PAYMENT", t, N + 1>>, purpose |-> "SETTLEMENT_PAYMENT",
                      legs |-> PayLegs(t, n)]
    OBVIOUS
  <2>2. \A j \in journal : j.source # <<"PAYMENT", t, N + 1>>
    <3>1. ASSUME NEW j \in journal, j.source = <<"PAYMENT", t, N + 1>> PROVE FALSE
      <4>1. Caused(j) BY <1>1 DEF Journals
      <4>2. PICK u, m : m \in 1 .. N /\ j.source = <<"PAYMENT", u, m>>
        BY <3>1, <4>1, PostedSource DEF Caused
      <4>3. m = N + 1 BY <3>1, <4>2, PostedSource
      <4>4. QED BY <1>8, <4>2, <4>3
    <3>2. QED BY <3>1
  <2>3. Post(<<"PAYMENT", t, N + 1>>, "SETTLEMENT_PAYMENT", PayLegs(t, n)) BY <1>9 DEF Pay
  <2>4. journal' = journal \cup {r} /\ r \notin journal BY <2>1, <2>2, <2>3, PostNew
  <2>5. /\ r.source = <<"PAYMENT", t, N + 1>> /\ r.legs = PayLegs(t, n)
        /\ r.purpose = "SETTLEMENT_PAYMENT"
    BY <2>1
  <2>6. Valued(r) /\ Due(r) = x BY <2>5, PayWorth DEF x
  <2>7. Cardinality(SettlementPayments') = N + 1
    <3>1. SettlementPayments' = SettlementPayments \cup {r} /\ r \notin SettlementPayments
      BY <2>4, <2>5 DEF SettlementPayments
    <3>2. QED BY <1>8, <3>1, FS_AddElement
  <2>8. N + 1 \in 1 .. Cardinality(SettlementPayments') BY <1>8, <2>7
  <2>9. Caused(r)' BY <2>5, <2>8 DEF Caused
  <2>10. QED BY <1>1, <1>4, <2>4, <2>6, <2>9, OnePosted
<1>11. QED BY <1>1, <1>5, <1>6, <1>7, <1>10 DEF Accounts

\* A correction of an approved statement is posted, once.
LEMMA AccountsCorrect ==
    ASSUME Columns, Accounts, NEW a \in Adjustments, ApproveAdjustment(a)
    PROVE  Accounts'
<1>1. Lined /\ Journals BY DEF Accounts
<1>2. stl' = stl /\ cash' = cash /\ adj[a].status = "PENDING_APPROVAL" BY DEF ApproveAdjustment
<1>3. Lined' BY <1>1, <1>2 DEF Lined, Net, isFrozen
<1>4. CASE /\ adj' = [adj EXCEPT ![a].status = "APPROVED"] /\ journal' = journal
  <2>0. adj'[a].status = "APPROVED" /\ \A b \in Adjustments : b # a => adj'[b] = adj[b]
    BY <1>4 DEF Columns, AdjRow
  <2>1. \A b \in Adjustments : \/ adj'[b] = adj[b]
                               \/ adj[b].status # "APPLIED" /\ adj'[b].status # "APPLIED"
    BY <1>2, <2>0
  <2>2. QED BY <1>2, <1>3, <1>4, <2>1, AccountsQuiet DEF isFrozen
<1>5. CASE adj' = [adj EXCEPT ![a].status = "APPLIED"] /\ postAdjustment(a)
  <2>1. /\ adj'[a].status = "APPLIED"
        /\ \A b \in Adjustments : b # a => adj'[b] = adj[b]
    BY <1>5 DEF Columns, AdjRow
  <2>2. Forward BY <1>2, <2>1 DEF Forward, isFrozen
  <2>3. Owed' = Owed BY <1>2, OwedSame DEF isFrozen
  <2>4. Corrected' = Corrected + adj[a].n BY <1>2, <1>5, CorrectedApplied
  <2>5. adj[a].n \in Int
    <3>1. adj[a].n \in AdjAmounts \cup {0} BY DEF Columns, AdjRow
    <3>2. AdjAmounts \cup {0} \subseteq Int BY SettlementAssumption
    <3>3. QED BY <3>1, <3>2
  <2>6. Owed \in Int /\ Corrected \in Int /\ DueTotal \in Int BY <1>1, OwedType, DueType
  <2>7. PICK r : r = [source |-> <<"ADJUSTMENT", a>>, purpose |-> "SETTLEMENT_ADJUSTMENT",
                      legs |-> NetLegs(adj[a].n)]
    OBVIOUS
  <2>8. \A j \in journal : j.source # <<"ADJUSTMENT", a>>
    BY <1>1, <1>2, PostedSource DEF Journals, Caused
  <2>9. Post(<<"ADJUSTMENT", a>>, "SETTLEMENT_ADJUSTMENT", NetLegs(adj[a].n))
    BY <1>5 DEF postAdjustment
  <2>10. journal' = journal \cup {r} /\ r \notin journal BY <2>7, <2>8, <2>9, PostNew
  <2>11. r.source = <<"ADJUSTMENT", a>> /\ r.legs = NetLegs(adj[a].n) BY <2>7
  <2>12. Valued(r) /\ Due(r) = adj[a].n BY <2>5, <2>11, NetWorth
  <2>13. Caused(r)' BY <2>1, <2>11 DEF Caused
  <2>14. Journals' /\ DueTotal' = DueTotal + adj[a].n
    BY <1>1, <2>2, <2>10, <2>12, <2>13, OnePosted
  <2>15. QED BY <1>3, <2>3, <2>4, <2>5, <2>6, <2>14 DEF Accounts
<1>6. QED BY <1>4, <1>5 DEF ApproveAdjustment

\* Commission is accrued, and reversed, to nobody.
LEMMA AccountsCommission ==
    ASSUME Columns, Accounts, NEW e \in Earnings, NEW k \in Raises, Earn(e, k) \/ ClawBack(e, k)
    PROVE  Accounts'
<1>1. Lined /\ Journals BY DEF Accounts
<1>2. UNCHANGED <<stl, cash, adj>> BY DEF Earn, ClawBack
<1>3. Lined' BY <1>1, <1>2 DEF Lined, Net, isFrozen
<1>4. Forward BY <1>2 DEF Forward, isFrozen
<1>5. Owed' = Owed /\ Corrected' = Corrected BY <1>2, OwedSame, CorrectedSame DEF isFrozen
<1>6. Journals' /\ DueTotal' = DueTotal
  <2>1. CASE journal' = journal BY <1>1, <1>4, <2>1, NothingPosted
  <2>2. ASSUME NEW r, NEW n, journal' = journal \cup {r}, Caused(r)',
               r.legs = CommissionLegs(n) \/ r.legs = Mirror(CommissionLegs(n))
        PROVE  Journals' /\ DueTotal' = DueTotal
    <3>1. Valued(r) /\ Due(r) = 0 BY <2>2, CommissionWorth
    <3>2. /\ Journals'
          /\ r \notin journal => DueTotal' = DueTotal + Due(r)
          /\ r \in journal => DueTotal' = DueTotal
      BY <1>1, <1>4, <2>2, <3>1, OnePosted
    <3>3. DueTotal \in Int BY <1>1, DueType
    <3>4. QED BY <3>1, <3>2, <3>3
  <2>3. CASE Earn(e, k)
    <3>1. PICK r : r = [source |-> CommissionSource(e, k), purpose |-> "COMMISSION",
                        legs |-> CommissionLegs(Amount[e])]
      OBVIOUS
    <3>2. journal' = journal \/ journal' = journal \cup {r}
      BY <2>3, <3>1 DEF Earn, Calculate, Post, CreateJournalTransaction
    <3>3. r.source = <<"COMMISSION", e, k>> /\ r.legs = CommissionLegs(Amount[e])
      BY <3>1 DEF CommissionSource
    <3>4. Caused(r)' BY <3>3 DEF Caused
    <3>5. QED BY <2>1, <2>2, <3>2, <3>3, <3>4
  <2>4. CASE ClawBack(e, k)
    <3>1. PICK j \in journal : j.source = CommissionSource(e, k) /\ Reverse(j)
      BY <2>4 DEF ClawBack, ReverseCommission
    <3>2. PICK n : j.legs = CommissionLegs(n)
      BY <1>1, <3>1, PostedSource DEF Journals, Caused, CommissionSource
    <3>3. PICK r : r = [source |-> <<"REVERSAL", j.source, j.purpose>>, purpose |-> "REVERSAL",
                        legs |-> Mirror(j.legs)]
      OBVIOUS
    <3>4. journal' = journal \cup {r} BY <3>1, <3>3 DEF Reverse, CreateJournalTransaction
    <3>5. r.source = <<"REVERSAL", j.source, j.purpose>> /\ r.legs = Mirror(CommissionLegs(n))
      BY <3>2, <3>3
    <3>6. Caused(r)' BY <3>5 DEF Caused
    <3>7. QED BY <2>2, <3>4, <3>5, <3>6
  <2>5. QED BY <2>3, <2>4
<1>7. QED BY <1>3, <1>5, <1>6 DEF Accounts

LEMMA AccountsStep ==
    ASSUME Inv, Accounts, [SettlementNext]_settlementVars
    PROVE  Accounts'
<1>0. Columns BY DEF Inv
<1>1. ASSUME NEW t \in Statements,
             (\E p \in Periods : Generate(t, p)) \/ Recalculate(t)
      PROVE  Accounts'
  <2>1. stl[t].status \notin Frozen
    BY <1>1 DEF Generate, Recalculate, CreateSettlement, Workable, Frozen
  <2>2. \E p : calculate(t, p)
    BY <1>1 DEF Generate, Recalculate
  <2>3. QED BY <1>0, <2>1, <2>2, AccountsCalculate
<1>2. ASSUME NEW t \in Statements, Submit(t) \/ CancelSettlement(t) PROVE Accounts'
  BY <1>0, <1>2, AccountsStatus
<1>3. ASSUME NEW t \in Statements, Approve(t) PROVE Accounts' BY <1>0, <1>3, AccountsApprove
<1>4. ASSUME NEW t \in Statements, NEW n \in 1 .. AbsInt(Net(t)), Pay(t, n) PROVE Accounts'
  BY <1>0, <1>4, AccountsPay
<1>5. ASSUME NEW a \in Adjustments, ApproveAdjustment(a) PROVE Accounts'
  BY <1>0, <1>5, AccountsCorrect
<1>6. ASSUME NEW e \in Earnings, NEW k \in Raises, Earn(e, k) \/ ClawBack(e, k) PROVE Accounts'
  BY <1>0, <1>6, AccountsCommission
<1>7. ASSUME UNCHANGED <<stl, journal>>, cash' \subseteq Holdings,
             \A b \in Adjustments :
                \/ adj'[b] = adj[b]
                \/ adj[b].status # "APPLIED" /\ adj'[b].status # "APPLIED"
      PROVE  Accounts'
  <2>1. Lined' BY <1>7 DEF Accounts, Lined, Net, isFrozen
  <2>2. QED BY <1>7, <2>1, AccountsQuiet DEF isFrozen
<1>8. cash \subseteq Holdings BY DEF Accounts, Lined
<1>9. ASSUME NEW a \in Adjustments,
             (\E t \in Statements, n \in AdjAmounts : RaiseAdjustment(a, t, n)) \/ RejectAdjustment(a)
      PROVE  Accounts'
  <2>1. UNCHANGED <<stl, journal, cash>> BY <1>9 DEF RaiseAdjustment, RejectAdjustment
  <2>2. /\ adj[a].status \in {"NONE", "PENDING_APPROVAL"}
        /\ adj'[a].status \in {"PENDING_APPROVAL", "REJECTED"}
        /\ \A b \in Adjustments : b # a => adj'[b] = adj[b]
    BY <1>0, <1>9 DEF RaiseAdjustment, RejectAdjustment, Columns, AdjRow
  <2>3. QED BY <1>7, <1>8, <2>1, <2>2
<1>10. ASSUME \/ \E t \in Statements : CancelDetaches(t)
              \/ \E x \in Collections : Record(x)
              \/ UNCHANGED settlementVars
       PROVE  Accounts'
  <2>1. UNCHANGED <<stl, journal, cash, adj>> BY <1>10 DEF CancelDetaches, Record, settlementVars
  <2>2. QED BY <1>7, <1>8, <2>1
<1>11. ASSUME NEW o \in Holdings, CashMoves(o) PROVE Accounts'
  <2>1. UNCHANGED <<stl, journal, adj>> /\ cash' \subseteq Holdings BY <1>8, <1>11 DEF CashMoves
  <2>2. QED BY <1>7, <2>1
<1>12. QED BY <1>1, <1>2, <1>3, <1>4, <1>5, <1>6, <1>9, <1>10, <1>11 DEF SettlementNext

LEMMA AccountsInit ==
    ASSUME SettlementInit
    PROVE  Accounts
<1>1. /\ journal = {} /\ cash = {}
      /\ \A t \in Statements : stl[t].status = "NONE" /\ stl[t].lines = {} /\ stl[t].paid = 0
      /\ \A a \in Adjustments : adj[a].status = "NONE"
  BY DEF SettlementInit, LedgerInit, StatementInit
<1>2. Lined
  <2>1. Summable({}) BY FS_EmptySet DEF Summable
  <2>2. SumLines({}) \in Int BY <2>1, LinesSum
  <2>3. 0 <= AbsInt(SumLines({})) BY <2>2 DEF AbsInt
  <2>4. ASSUME NEW t \in Statements
        PROVE  /\ Summable(stl[t].lines) /\ stl[t].paid \in Nat /\ stl[t].paid = 0
               /\ stl[t].paid <= AbsInt(Net(t))
    <3>1. stl[t].lines = {} /\ stl[t].paid = 0 BY <1>1
    <3>2. QED BY <2>1, <2>3, <3>1 DEF Net
  <2>5. QED BY <1>1, <2>4 DEF Lined
<1>3. Journals BY <1>1, FS_EmptySet DEF Journals
<1>4. DueTotal = 0
  <2>1. \A f : SumFunctionOnSet(f, {}) = 0 BY SumEmpty
  <2>2. Balance({}, FranchisePayable, Franchise) = 0 /\ Balance({}, FranchiseReceivable, Franchise) = 0
    BY <2>1 DEF Balance
  <2>3. QED BY <1>1, <2>2 DEF DueTotal
<1>5. Owed = 0 /\ Corrected = 0
  <2>1. FrozenStatements = {} BY <1>1 DEF FrozenStatements, isFrozen, Frozen
  <2>2. AppliedAdjustments = {} BY <1>1 DEF AppliedAdjustments
  <2>3. QED BY <2>1, <2>2, SumEmpty DEF Owed, Corrected
<1>6. QED BY <1>2, <1>3, <1>4, <1>5 DEF Accounts

\* The two sums of LedgerAgrees, over the functions it adds up.
LEMMA AccountsAgree ==
    ASSUME Inv, Accounts
    PROVE  LedgerAgrees
<1>1. AdjustmentOnce BY DEF Inv, CorrectionLines, AdjustmentOnce
<1> DEFINE f == [t \in FrozenStatements |-> Unpaid(t)]
           g == [t \in Statements |-> Unpaid(t)]
           h == [a \in AppliedAdjustments |-> adj[a].n]
           k == [a \in Adjustments |-> adj[a].n]
<1>2. (\A t \in FrozenStatements : f[t] = g[t]) /\ \A a \in AppliedAdjustments : h[a] = k[a]
  BY FrozenFinite
<1>3. SumFunction(f) = SumFunctionOnSet(f, FrozenStatements)
      /\ SumFunction(h) = SumFunctionOnSet(h, AppliedAdjustments)
  BY DEF SumFunction
<1>4. Owed = SumFunctionOnSet(g, FrozenStatements) /\ Corrected = SumFunctionOnSet(k, AppliedAdjustments)
  BY DEF Owed, Corrected
<1> HIDE DEF f, g, h, k
<1>5. /\ SumFunctionOnSet(f, FrozenStatements) = SumFunctionOnSet(g, FrozenStatements)
      /\ SumFunctionOnSet(h, AppliedAdjustments) = SumFunctionOnSet(k, AppliedAdjustments)
  BY <1>2, FrozenFinite, SumSame
<1>6. AccountBalance(FranchisePayable, Franchise) - AccountBalance(FranchiseReceivable, Franchise) = DueTotal
  BY BalanceIs DEF DueTotal
<1>7. DueTotal = SumFunction(f) + SumFunction(h)
  BY <1>3, <1>4, <1>5 DEF Accounts
<1>8. /\ SumFunction(f) = SumFunction([t \in {u \in Statements : isFrozen(u)} |-> Unpaid(t)])
      /\ SumFunction(h) = SumFunction([a \in {b \in Adjustments : adj[b].status = "APPLIED"} |-> adj[a].n])
  BY DEF f, h, FrozenStatements, AppliedAdjustments
<1>9. QED BY <1>1, <1>6, <1>7, <1>8 DEF LedgerAgrees

\* In every behaviour the franchise's payable and receivable come to the unpaid
\* net of its approved statements and the corrections posted after approval
\* (Approve, Pay, ApproveAdjustment and what they post): no net, payment or
\* correction is posted twice or left out, for any amounts and any withholding.
THEOREM LedgerAgreesAlways == SettlementSpec => []LedgerAgrees
<1>1. SettlementInit => Inv /\ Accounts BY InvInit, AccountsInit
<1>2. Inv /\ Accounts /\ [SettlementNext]_settlementVars => (Inv /\ Accounts)' BY InvStep, AccountsStep
<1>3. Inv /\ Accounts => LedgerAgrees BY AccountsAgree
<1>4. QED BY <1>1, <1>2, <1>3, PTL DEF SettlementSpec

-----------------------------------------------------------------------------
\* The columns no statement's sum depends on.
CollRow == [status : {"NONE", "COLLECTED", "IN_SETTLEMENT", "REMITTED"}, stl : Statements \cup {Nil}]
Rows ==
    /\ coll \in [Collections -> CollRow]
    /\ \A t \in Statements : stl[t].period \in Periods \cup {NoPeriod}

LEMMA RowsCalculate ==
    ASSUME Columns, Rows, NEW t \in Statements, NEW p \in Periods \cup {NoPeriod}, calculate(t, p)
    PROVE  Rows'
<1>1. PICK X, L :
        /\ coll' = [x \in Collections |-> IF x \in X THEN [status |-> "IN_SETTLEMENT", stl |-> t]
                                                     ELSE coll[x]]
        /\ stl' = [stl EXCEPT ![t] = [status |-> "CALCULATED", period |-> p, lines |-> L, paid |-> 0]]
  BY DEF calculate, AttachFranchiseCollectionsToSettlement, ApplySettlementTotals
<1>2. [status |-> "IN_SETTLEMENT", stl |-> t] \in CollRow BY DEF CollRow
<1>3. coll' \in [Collections -> CollRow] BY <1>1, <1>2 DEF Rows
<1>4. \A u \in Statements : stl'[u].period \in Periods \cup {NoPeriod} BY <1>1 DEF Columns, Rows
<1>5. QED BY <1>3, <1>4 DEF Rows

LEMMA RowsStatus ==
    ASSUME Columns, Rows, NEW t \in Statements,
           Submit(t) \/ Approve(t) \/ CancelSettlement(t) \/ \E n : Pay(t, n)
    PROVE  Rows'
<1>1. \A u \in Statements : stl'[u].period = stl[u].period
  <2>1. CASE Submit(t) \/ Approve(t) \/ CancelSettlement(t)
    <3>1. stl' = stl \/ \E x : stl' = [stl EXCEPT ![t] = [stl[t] EXCEPT !.status = x]]
      BY <2>1 DEF Submit, Approve, ApproveSettlement, CancelSettlement
    <3>2. QED BY <3>1, ZenonT(60) DEF Columns, IsStatement
  <2>2. ASSUME NEW n, Pay(t, n) PROVE \A u \in Statements : stl'[u].period = stl[u].period
    <3> DEFINE x == stl[t].paid + n
               y == IF stl[t].paid + n >= AbsInt(Net(t)) THEN "PAID" ELSE "PARTIALLY_PAID"
    <3>1. stl' = [stl EXCEPT ![t].paid = x, ![t].status = y] BY <2>2 DEF Pay, RecordSettlementPaid
    <3> HIDE DEF x, y
    <3>2. QED BY <3>1 DEF Columns, IsStatement
  <2>3. QED BY <2>1, <2>2
<1>2. coll' \in [Collections -> CollRow]
  <2>1. CASE coll' = coll BY <2>1 DEF Rows
  <2>2. CASE MarkFranchiseCollectionsRemitted(t)
    <3>1. ASSUME NEW x \in Collections PROVE [coll[x] EXCEPT !.status = "REMITTED"] \in CollRow
      <4>1. coll[x] \in CollRow BY DEF Rows
      <4>2. QED BY <4>1 DEF CollRow
    <3>2. QED BY <2>2, <3>1 DEF MarkFranchiseCollectionsRemitted, Rows
  <2>3. CASE ReleaseFranchiseCollectionsFromSettlement(t)
    <3>1. [status |-> "COLLECTED", stl |-> Nil] \in CollRow BY DEF CollRow
    <3>2. QED BY <2>3, <3>1 DEF ReleaseFranchiseCollectionsFromSettlement, Rows
  <2>4. QED BY <2>1, <2>2, <2>3 DEF Submit, Approve, CancelSettlement, Pay
<1>3. QED BY <1>1, <1>2 DEF Rows

LEMMA RowsStep ==
    ASSUME Columns, Rows, [SettlementNext]_settlementVars
    PROVE  Rows'
<1>1. ASSUME NEW t \in Statements,
             (\E p \in Periods : Generate(t, p)) \/ Recalculate(t)
      PROVE  Rows'
  <2>1. \E p \in Periods \cup {NoPeriod} : calculate(t, p)
    BY <1>1 DEF Generate, Recalculate, Rows
  <2>2. QED BY <2>1, RowsCalculate
<1>2. ASSUME NEW x \in Collections, Record(x) PROVE Rows'
  <2>1. coll[x] \in CollRow BY DEF Rows
  <2>2. [coll[x] EXCEPT !.status = "COLLECTED"] \in CollRow BY <2>1 DEF CollRow
  <2>3. coll' = [coll EXCEPT ![x] = [coll[x] EXCEPT !.status = "COLLECTED"]] /\ stl' = stl
    BY <1>2 DEF Record
  <2>4. QED BY <2>2, <2>3 DEF Rows
<1>3. CASE UNCHANGED <<coll, stl>> BY <1>3 DEF Rows
<1>4. QED BY <1>1, <1>2, <1>3, RowsStatus
          DEF SettlementNext, settlementVars, CancelDetaches, RaiseAdjustment, ApproveAdjustment,
              RejectAdjustment, Earn, ClawBack, CashMoves

\* Every column of the statements, the collections, the commissions and the
\* corrections holds a value of its type, and no statement is ever paid more than
\* its net (Pay compares with what is outstanding), whatever is rebuilt.
THEOREM StatementsTypeCorrect == SettlementSpec => []SettlementTypeOK
<1>1. SettlementInit => Inv /\ Accounts /\ Rows
  <2>1. ASSUME SettlementInit PROVE Rows
    <3>1. [status |-> "NONE", stl |-> Nil] \in CollRow BY DEF CollRow
    <3>2. coll \in [Collections -> CollRow] BY <2>1, <3>1 DEF SettlementInit, StatementInit
    <3>3. QED BY <2>1, <3>2 DEF SettlementInit, StatementInit, Rows
  <2>2. QED BY <2>1, InvInit, AccountsInit
<1>2. Inv /\ Accounts /\ Rows /\ [SettlementNext]_settlementVars => (Inv /\ Accounts /\ Rows)'
  BY InvStep, AccountsStep, RowsStep DEF Inv
<1>3. Inv /\ Accounts /\ Rows => SettlementTypeOK
  <2> SUFFICES ASSUME Inv, Accounts, Rows PROVE SettlementTypeOK OBVIOUS
  <2>1. Columns /\ Lined BY DEF Inv, Accounts
  <2>2. calc \in [Earnings -> [Raises -> [status : CalcStatuses, stl : Statements \cup {Nil}]]]
    BY <2>1 DEF Columns, CalcRow
  <2>3. ASSUME NEW t \in Statements
        PROVE  /\ stl[t].status \in StatementStatuses
               /\ stl[t].period \in Periods \cup {NoPeriod}
               /\ stl[t].paid \in 0 .. AbsInt(Net(t))
    <3>1. Net(t) \in Int BY <2>1, UnpaidType
    <3>2. AbsInt(Net(t)) \in Int BY <3>1 DEF AbsInt
    <3>3. stl[t].paid \in 0 .. AbsInt(Net(t)) BY <2>1, <3>2 DEF Lined
    <3>4. QED BY <2>1, <3>3 DEF Columns, IsStatement, Rows
  <2>4. \A a \in Adjustments :
           adj[a].status \in {"NONE", "PENDING_APPROVAL", "APPROVED", "APPLIED", "REJECTED"}
    BY <2>1 DEF Columns, AdjRow, AdjStatuses
  <2>5. QED BY <2>1, <2>2, <2>3, <2>4 DEF SettlementTypeOK, Rows, CollRow, Lined
<1>4. QED BY <1>1, <1>2, <1>3, PTL DEF SettlementSpec

-----------------------------------------------------------------------------
(***************************************************************************)
(* Invoices.  An invoice that bills shipments has been drafted, a drafted  *)
(* one has its year, and the numbers of a year are given out one by one to *)
(* drafts that become issued; nothing takes a number or a shipment away.   *)
(***************************************************************************)
IssuedStatuses == Open \cup {"PAID"}

\* What the proof needs of a row, whatever the amounts in it are.
InvoiceColumns == {"status", "ships", "year", "no", "taxable", "tax", "paid", "credited"}
InvoiceRow(q) ==
    /\ q = [c \in InvoiceColumns |-> q[c]]
    /\ q.status = "NONE" => q.ships = {}
    /\ q.status \in {"DRAFT"} \cup IssuedStatuses => q.year \in Years

BillInv ==
    /\ inv = [i \in Invoices |-> inv[i]] /\ seq \in [Years -> Nat]
    /\ \A i \in Invoices : InvoiceRow(inv[i])
    /\ BilledOnce

\* A settlement changes amounts, and the status of an issued invoice.
Settled(old, new) ==
    /\ new.ships = old.ships /\ new.year = old.year /\ new.no = old.no
    /\ \/ new.status = old.status
       \/ new.status \in IssuedStatuses /\ old.status \in IssuedStatuses

LEMMA InvoicesFinite == IsFiniteSet(Invoices)
<1>1. MaxInvoices \in Int /\ 1 \in Int BY BillingAssumption
<1>2. QED BY <1>1, FS_Interval DEF Invoices

LEMMA BillSettled ==
    ASSUME BillInv, UNCHANGED seq, inv' = [i \in Invoices |-> inv'[i]],
           \A i \in Invoices : InvoiceRow(inv'[i]) /\ Settled(inv[i], inv'[i])
    PROVE  BillInv'
<1>1. \A i \in Invoices : Issued(i)' <=> Issued(i)
  BY DEF Settled, Issued, IssuedStatuses
<1>2. Gapless'
  <2> SUFFICES ASSUME NEW y \in Years
               PROVE  /\ {inv'[i].no : i \in {h \in Invoices : Issued(h)' /\ inv'[h].year = y}}
                           = 1 .. seq'[y]
                      /\ Cardinality({h \in Invoices : Issued(h)' /\ inv'[h].year = y}) = seq'[y]
    BY DEF Gapless
  <2> DEFINE A == {h \in Invoices : Issued(h) /\ inv[h].year = y}
             B == {h \in Invoices : Issued(h)' /\ inv'[h].year = y}
  <2>1. A = B BY <1>1 DEF Settled
  <2>2. {inv[i].no : i \in A} = 1 .. seq[y] /\ Cardinality(A) = seq[y]
    BY DEF BillInv, BilledOnce, Gapless
  <2>3. \A i \in A : inv'[i].no = inv[i].no BY DEF Settled
  <2> HIDE DEF A, B
  <2>4. {inv'[i].no : i \in A} = {inv[i].no : i \in A} BY <2>3
  <2>5. {inv'[i].no : i \in B} = 1 .. seq'[y] /\ Cardinality(B) = seq'[y]
    BY <2>1, <2>2, <2>4
  <2>6. QED BY <2>5 DEF B
<1>3. \A i, h \in Invoices : i # h => inv'[i].ships \cap inv'[h].ships = {}
  BY DEF BillInv, BilledOnce, Settled
<1>4. BilledOnce' BY <1>2, <1>3 DEF BilledOnce
<1>5. \A i \in Invoices : InvoiceRow(inv[i])' BY DEF InvoiceRow
<1>6. QED BY <1>4, <1>5 DEF BillInv

LEMMA BillSame == ASSUME BillInv, UNCHANGED <<inv, seq>> PROVE BillInv'
<1>1. inv' = [i \in Invoices |-> inv'[i]] BY DEF BillInv
<1>2. \A i \in Invoices : InvoiceRow(inv'[i]) /\ Settled(inv[i], inv'[i])
  BY DEF BillInv, Settled
<1>3. QED BY <1>1, <1>2, BillSettled

\* A draft takes shipments that no invoice has.
LEMMA BillDraft ==
    ASSUME BillInv, NEW c \in Clerks, NEW i \in Invoices, NEW y \in Years, Draft(c, i, y)
    PROVE  BillInv'
<1>0. UNCHANGED seq BY DEF Draft
<1>1. CASE UNCHANGED inv BY <1>0, <1>1, BillSame
<1>2. CASE /\ AddInvoiceShipment(asked[c].ships)
           /\ ApplyInvoiceTotals(i, asked[c].ships, y)
  <2> DEFINE S == asked[c].ships
  <2>0. PICK amount, tax :
           inv' = [inv EXCEPT ![i] = [NoInvoice EXCEPT !.status = "DRAFT", !.ships = S,
                                      !.year = y, !.taxable = amount, !.tax = tax]]
    BY <1>2 DEF ApplyInvoiceTotals
  <2> DEFINE q == [NoInvoice EXCEPT !.status = "DRAFT", !.ships = S, !.year = y,
                                    !.taxable = amount, !.tax = tax]
  <2>1. inv' = [inv EXCEPT ![i] = q] BY <2>0
  <2>2. inv[i].status = "NONE" BY DEF Draft, CreateInvoice
  <2>3. \A h \in Invoices : S \cap inv[h].ships = {} BY <1>2 DEF AddInvoiceShipment, Billed
  <2> HIDE DEF S
  <2>4. q.status = "DRAFT" /\ q.ships = S /\ q.year = y BY DEF NoInvoice
  <2>5. q = [x \in InvoiceColumns |-> q[x]] BY DEF NoInvoice, InvoiceColumns
  <2> HIDE DEF q
  <2>6. InvoiceRow(q) BY <2>4, <2>5 DEF InvoiceRow
  <2>7. \A h \in Invoices : inv'[h] = IF h = i THEN q ELSE inv[h] BY <2>1 DEF BillInv
  <2>8. inv' = [h \in Invoices |-> inv'[h]] BY <2>1 DEF BillInv
  <2>9. \A h \in Invoices : InvoiceRow(inv'[h]) BY <2>6, <2>7 DEF BillInv
  <2>10. \A g, h \in Invoices : g # h => inv'[g].ships \cap inv'[h].ships = {}
    BY <2>3, <2>4, <2>7 DEF BillInv, BilledOnce
  <2>11. ~Issued(i) /\ ~Issued(i)' BY <2>2, <2>4, <2>7 DEF Issued, Open
  <2>12. \A h \in Invoices : h # i => inv'[h] = inv[h] /\ (Issued(h)' <=> Issued(h))
    BY <2>7 DEF Issued
  <2>13. Gapless'
    <3> SUFFICES ASSUME NEW x \in Years
                 PROVE  /\ {inv'[g].no : g \in {h \in Invoices : Issued(h)' /\ inv'[h].year = x}}
                             = 1 .. seq'[x]
                        /\ Cardinality({h \in Invoices : Issued(h)' /\ inv'[h].year = x}) = seq'[x]
      BY DEF Gapless
    <3> DEFINE A == {h \in Invoices : Issued(h) /\ inv[h].year = x}
               B == {h \in Invoices : Issued(h)' /\ inv'[h].year = x}
    <3>1. A = B /\ \A h \in A : h # i BY <2>11, <2>12
    <3>2. {inv[g].no : g \in A} = 1 .. seq[x] /\ Cardinality(A) = seq[x]
      BY DEF BillInv, BilledOnce, Gapless
    <3>3. \A h \in A : inv'[h].no = inv[h].no BY <2>12, <3>1
    <3> HIDE DEF A, B
    <3>4. {inv'[g].no : g \in A} = {inv[g].no : g \in A} BY <3>3
    <3>5. {inv'[g].no : g \in B} = 1 .. seq'[x] /\ Cardinality(B) = seq'[x]
      BY <1>0, <3>1, <3>2, <3>4
    <3>6. QED BY <3>5 DEF B
  <2>14. BilledOnce' BY <2>10, <2>13 DEF BilledOnce
  <2>15. \A h \in Invoices : InvoiceRow(inv[h])' BY <2>9 DEF InvoiceRow
  <2>16. QED BY <1>0, <2>8, <2>14, <2>15 DEF BillInv
<1>3. QED BY <1>1, <1>2 DEF Draft

\* An issue gives the draft the next number of its year.
LEMMA BillIssue ==
    ASSUME BillInv, NEW i \in Invoices, Issue(i)
    PROVE  BillInv'
<1> DEFINE y == inv[i].year
           q == [inv[i] EXCEPT !.status = "ISSUED", !.no = seq[y] + 1]
<1>1. inv' = [inv EXCEPT ![i] = q] /\ seq' = [seq EXCEPT ![y] = @ + 1] /\ inv[i].status = "DRAFT"
  BY DEF Issue, AllocateInvoiceNumber, IssueInvoice
<1>2. InvoiceRow(inv[i]) BY DEF BillInv
<1>3. y \in Years /\ seq[y] \in Nat BY <1>1, <1>2 DEF InvoiceRow, BillInv
<1>4. /\ q.status = "ISSUED" /\ q.ships = inv[i].ships /\ q.year = y /\ q.no = seq[y] + 1
      /\ q = [x \in InvoiceColumns |-> q[x]]
  BY <1>2 DEF InvoiceRow, InvoiceColumns
<1> HIDE DEF q
<1>5. InvoiceRow(q) BY <1>3, <1>4 DEF InvoiceRow
<1>6. \A h \in Invoices : inv'[h] = IF h = i THEN q ELSE inv[h] BY <1>1 DEF BillInv
<1>7. inv' = [h \in Invoices |-> inv'[h]] BY <1>1 DEF BillInv
<1>8. seq' \in [Years -> Nat] /\ \A x \in Years : seq'[x] = IF x = y THEN seq[y] + 1 ELSE seq[x]
  BY <1>1, <1>3 DEF BillInv
<1>9. \A g, h \in Invoices : g # h => inv'[g].ships \cap inv'[h].ships = {}
  BY <1>4, <1>6 DEF BillInv, BilledOnce
<1>10. ~Issued(i) /\ Issued(i)' BY <1>1, <1>4, <1>6 DEF Issued, Open
<1>11. \A h \in Invoices : h # i => inv'[h] = inv[h] /\ (Issued(h)' <=> Issued(h))
  BY <1>6 DEF Issued
<1>12. Gapless'
  <2> SUFFICES ASSUME NEW x \in Years
               PROVE  /\ {inv'[g].no : g \in {h \in Invoices : Issued(h)' /\ inv'[h].year = x}}
                           = 1 .. seq'[x]
                      /\ Cardinality({h \in Invoices : Issued(h)' /\ inv'[h].year = x}) = seq'[x]
    BY DEF Gapless
  <2> DEFINE A == {h \in Invoices : Issued(h) /\ inv[h].year = x}
             B == {h \in Invoices : Issued(h)' /\ inv'[h].year = x}
  <2>1. {inv[g].no : g \in A} = 1 .. seq[x] /\ Cardinality(A) = seq[x]
    BY DEF BillInv, BilledOnce, Gapless
  <2>2. i \notin A /\ A \in SUBSET Invoices BY <1>10
  <2>3. IsFiniteSet(A)
    <3>2. IsFiniteSet(Invoices) BY InvoicesFinite
    <3> HIDE DEF A
    <3>3. QED BY <2>2, <3>2, FS_Subset
  <2>4. \A h \in A : inv'[h].no = inv[h].no BY <1>11, <2>2
  <2>5. inv'[i].no = seq[y] + 1 /\ inv'[i].year = y BY <1>4, <1>6
  <2>6. seq[x] \in Nat BY DEF BillInv
  <2>7. CASE x = y
    <3>1. B = A \cup {i} BY <1>10, <1>11, <2>5, <2>7
    <3>2. seq'[x] = seq[x] + 1 BY <1>8, <2>7
    <3> HIDE DEF A, B
    <3>3. {inv'[g].no : g \in B} = {inv[g].no : g \in A} \cup {seq[x] + 1}
      BY <2>4, <2>5, <2>7, <3>1
    <3>4. 1 .. seq[x] + 1 = (1 .. seq[x]) \cup {seq[x] + 1} BY <2>6
    <3>5. Cardinality(B) = Cardinality(A) + 1 BY <2>2, <2>3, <3>1, FS_AddElement
    <3>6. {inv'[g].no : g \in B} = 1 .. seq'[x] /\ Cardinality(B) = seq'[x]
      BY <2>1, <3>2, <3>3, <3>4, <3>5
    <3>7. QED BY <3>6 DEF B
  <2>8. CASE x # y
    <3>1. B = A BY <1>10, <1>11, <2>5, <2>8
    <3>2. seq'[x] = seq[x] BY <1>8, <2>8
    <3> HIDE DEF A, B
    <3>3. {inv'[g].no : g \in A} = {inv[g].no : g \in A} BY <2>4
    <3>4. {inv'[g].no : g \in B} = 1 .. seq'[x] /\ Cardinality(B) = seq'[x]
      BY <2>1, <3>1, <3>2, <3>3
    <3>5. QED BY <3>4 DEF B
  <2>9. QED BY <2>7, <2>8
<1>13. BilledOnce' BY <1>9, <1>12 DEF BilledOnce
<1>14. \A h \in Invoices : InvoiceRow(inv[h])' BY <1>5, <1>6 DEF InvoiceRow, BillInv
<1>15. QED BY <1>7, <1>8, <1>13, <1>14 DEF BillInv

\* A payment and a credit note settle one invoice that is open.
LEMMA BillSettles ==
    ASSUME BillInv, UNCHANGED seq, NEW i, NEW q, inv' = [inv EXCEPT ![i] = q],
           inv[i].status \in Open,
           i \in Invoices => q = [x \in InvoiceColumns |-> q[x]] /\ Settled(inv[i], q)
    PROVE  BillInv'
<1>1. inv' = [h \in Invoices |-> inv'[h]] BY DEF BillInv
<1>2. \A h \in Invoices : inv'[h] = IF h = i THEN q ELSE inv[h] BY DEF BillInv
<1>3. ASSUME NEW h \in Invoices PROVE InvoiceRow(inv'[h]) /\ Settled(inv[h], inv'[h])
  <2>1. InvoiceRow(inv[h]) BY DEF BillInv
  <2>2. CASE h = i
    <3>1. q = [x \in InvoiceColumns |-> q[x]] /\ Settled(inv[h], q) BY <2>2
    <3>2. inv[h].status # "NONE" /\ inv[h].year \in Years
      BY <2>1, <2>2 DEF InvoiceRow, Open, IssuedStatuses
    <3>3. q.status \in IssuedStatuses /\ q.year \in Years
      BY <2>2, <3>1, <3>2 DEF Settled, IssuedStatuses
    <3>4. q.status # "NONE" BY <3>3 DEF IssuedStatuses, Open
    <3>5. QED BY <1>2, <2>2, <3>1, <3>3, <3>4 DEF InvoiceRow
  <2>3. CASE h # i BY <1>2, <2>1, <2>3 DEF Settled
  <2>4. QED BY <2>2, <2>3
<1>4. QED BY <1>1, <1>3, BillSettled

LEMMA BillPayment == ASSUME BillInv, NEW c \in Clerks, RecordPayment(c) PROVE BillInv'
<1>1. UNCHANGED seq BY DEF RecordPayment
<1>2. CASE UNCHANGED inv BY <1>1, <1>2, BillSame
<1>3. CASE RecordInvoicePayment(asked[c].inv, asked[c].n)
  <2> DEFINE i == asked[c].inv
  <2>1. PICK paid, s :
           /\ s \in {"PAID", "PARTIALLY_PAID"}
           /\ inv' = [inv EXCEPT ![i] = [inv[i] EXCEPT !.paid = paid, !.status = s]]
    BY <1>3 DEF RecordInvoicePayment
  <2>2. inv[i].status \in Open BY <1>3 DEF RecordInvoicePayment
  <2> HIDE DEF i
  <2> DEFINE q == [inv[i] EXCEPT !.paid = paid, !.status = s]
  <2>3. ASSUME i \in Invoices PROVE q = [x \in InvoiceColumns |-> q[x]] /\ Settled(inv[i], q)
    <3>1. InvoiceRow(inv[i]) BY <2>3 DEF BillInv
    <3>2. QED BY <2>1, <2>2, <3>1 DEF InvoiceRow, InvoiceColumns, Settled, IssuedStatuses, Open
  <2> HIDE DEF q
  <2>4. QED BY <1>1, <2>1, <2>2, <2>3, BillSettles DEF q
<1>4. QED BY <1>2, <1>3 DEF RecordPayment

LEMMA BillNote == ASSUME BillInv, NEW k \in Notes, IssueCreditNote(k) PROVE BillInv'
<1>1. UNCHANGED seq BY DEF IssueCreditNote
<1>2. CASE UNCHANGED inv BY <1>1, <1>2, BillSame
<1>3. CASE RecordInvoiceCredit(note[k].inv, NoteTotal(k)) /\ inv[note[k].inv].status \in Open
  <2> DEFINE i == note[k].inv
  <2>1. PICK credited, s :
           /\ s = "PAID" \/ s = inv[i].status
           /\ inv' = [inv EXCEPT ![i] = [inv[i] EXCEPT !.credited = credited, !.status = s]]
    BY <1>3, ZenonT(60) DEF RecordInvoiceCredit
  <2> HIDE DEF i
  <2>2. inv[i].status \in Open BY <1>3 DEF i
  <2> DEFINE q == [inv[i] EXCEPT !.credited = credited, !.status = s]
  <2>3. ASSUME i \in Invoices PROVE q = [x \in InvoiceColumns |-> q[x]] /\ Settled(inv[i], q)
    <3>1. InvoiceRow(inv[i]) BY <2>3 DEF BillInv
    <3>2. QED BY <2>1, <2>2, <3>1 DEF InvoiceRow, InvoiceColumns, Settled, IssuedStatuses, Open
  <2> HIDE DEF q
  <2>4. QED BY <1>1, <2>1, <2>2, <2>3, BillSettles DEF q
<1>4. QED BY <1>2, <1>3 DEF IssueCreditNote, RecordInvoiceCredit

LEMMA BillStep == BillInv /\ [BillingNext]_billingVars => BillInv'
<1> SUFFICES ASSUME BillInv, [BillingNext]_billingVars PROVE BillInv' OBVIOUS
<1>1. CASE UNCHANGED <<inv, seq>> BY <1>1, BillSame
<1>2. CASE \E c \in Clerks, P \in BillingPeriods : DraftReads(c, P)
  BY <1>1, <1>2 DEF DraftReads
<1>3. CASE \E c \in Clerks, i \in Invoices, r \in References, n \in 1 .. MaxAmount :
              PaymentProbes(c, i, r, n)
  BY <1>1, <1>3 DEF PaymentProbes
<1>4. CASE \E k \in Notes, type \in {"CREDIT", "DEBIT"}, i \in Invoices, n \in 1 .. MaxAmount :
              RaiseCreditNote(k, type, i, n)
  BY <1>1, <1>4 DEF RaiseCreditNote
<1>5. CASE UNCHANGED billingVars BY <1>1, <1>5 DEF billingVars
<1>6. QED BY <1>2, <1>3, <1>4, <1>5, BillDraft, BillIssue, BillPayment, BillNote DEF BillingNext

LEMMA BillStart == BillingInit => BillInv
<1> SUFFICES ASSUME BillingInit PROVE BillInv OBVIOUS
<1>1. inv = [i \in Invoices |-> inv[i]] /\ seq \in [Years -> Nat] BY DEF BillingInit
<1>2. \A i \in Invoices : inv[i] = NoInvoice BY DEF BillingInit
<1>3. NoInvoice.status = "NONE" /\ NoInvoice.ships = {} BY DEF NoInvoice
<1>4. NoInvoice = [x \in InvoiceColumns |-> NoInvoice[x]] BY DEF NoInvoice, InvoiceColumns
<1>5. InvoiceRow(NoInvoice) BY <1>3, <1>4 DEF InvoiceRow, IssuedStatuses, Open
<1>6. Gapless
  <2> SUFFICES ASSUME NEW y \in Years
               PROVE  /\ {inv[i].no : i \in {h \in Invoices : Issued(h) /\ inv[h].year = y}}
                           = 1 .. seq[y]
                      /\ Cardinality({h \in Invoices : Issued(h) /\ inv[h].year = y}) = seq[y]
    BY DEF Gapless
  <2> DEFINE A == {h \in Invoices : Issued(h) /\ inv[h].year = y}
  <2>1. A = {} BY <1>2, <1>3 DEF Issued, Open
  <2>2. seq[y] = 0 BY DEF BillingInit
  <2> HIDE DEF A
  <2>3. {inv[i].no : i \in A} = 1 .. seq[y] BY <2>1, <2>2
  <2>4. Cardinality(A) = seq[y] BY <2>1, <2>2, FS_EmptySet
  <2>5. QED BY <2>3, <2>4 DEF A
<1>7. QED BY <1>1, <1>2, <1>3, <1>5, <1>6 DEF BillInv, BilledOnce

\* In every behaviour of invoicing, for any shipments, charges, clerks and years,
\* no two invoices bill a shipment (invoice_shipments_billed_once_idx against two
\* drafts that have both selected it), and a year's numbers are those of its
\* issued invoices without gap or repetition (AllocateInvoiceNumber).
THEOREM BilledOnceEach == BillingSpec => []BilledOnce
<1>1. BillInv => BilledOnce BY DEF BillInv
<1>2. QED BY <1>1, BillStart, BillStep, PTL DEF BillingSpec

-----------------------------------------------------------------------------
(***************************************************************************)
(* The customer's account.  An invoice is posted with its total when it is *)
(* issued and its amounts no longer change, every payment is posted under  *)
(* a number of its own, and every note once: what the receivable comes to  *)
(* moves with the documents.                                               *)
(***************************************************************************)
InvoiceAmounts(q) ==
    /\ q.status \in InvoiceStatuses /\ q.ships \subseteq Shipments /\ q.year \in Years \cup {Nil}
    /\ q.taxable \in Nat /\ q.tax \in Nat /\ q.paid \in Nat /\ q.credited \in Nat
    /\ q.paid + q.credited <= q.taxable + q.tax + Slack
NoteRow == [status : {"NONE", "DRAFT", "ISSUED"}, type : {"CREDIT", "DEBIT", Nil},
            inv : Invoices \cup {Nil}, n : 0 .. MaxAmount]
Answerable(q) ==
    /\ q.op \in {"idle", "draft", "pay"}
    /\ q.op = "draft" => q.ships \subseteq Shipments
    /\ q.op = "pay" => q.inv \in Invoices /\ q.n \in 1 .. MaxAmount

BillRows ==
    /\ BillInv
    /\ \A i \in Invoices : InvoiceAmounts(inv[i])
    /\ note \in [Notes -> NoteRow]
    /\ \A k \in Notes : note[k].status # "NONE" => note[k].inv \in Invoices
    /\ asked = [c \in Clerks |-> asked[c]] /\ \A c \in Clerks : Answerable(asked[c])
    /\ IsFiniteSet(payments)
    /\ \A p \in payments : p.no \in 1 .. Cardinality(payments) /\ p.n \in Int

\* The shipments of a draft come to an amount, and its tax to another.
LEMMA TaxableLemma ==
    ASSUME NEW S \in SUBSET Shipments
    PROVE  LET taxable == SumFunction([s \in S |-> Charge[s]])
           IN  taxable \in Nat /\ ApplyBP(taxable, TaxBp) \in Nat
<1> DEFINE f == [s \in S |-> Charge[s]]
           taxable == SumFunction(f)
<1>1. taxable = SumFunctionOnSet(f, S) BY DEF SumFunction
<1>2. \A s \in S : f[s] \in Nat BY BillingAssumption
<1>3. IsFiniteSet(S) BY BillingAssumption, FS_Subset
<1> HIDE DEF f
<1>4. SumFunctionOnSet(f, S) \in Nat BY <1>2, <1>3, SumNat
<1>5. taxable \in Nat BY <1>1, <1>4
<1> HIDE DEF taxable
<1>6. ApplyBP(taxable, TaxBp) \in Nat
  <2>1. TaxBp \in Nat BY BillingAssumption
  <2>2. taxable * TaxBp \in Nat BY <1>5, <2>1
  <2>3. QED BY <2>2 DEF ApplyBP
<1>7. QED BY <1>5, <1>6 DEF taxable, f

\* An amount paid or credited changes one invoice, and neither its total nor
\* whether it is issued.
Recorded(i) ==
    /\ \A h \in Invoices : h # i => inv'[h] = inv[h]
    /\ inv'[i].taxable = inv[i].taxable /\ inv'[i].tax = inv[i].tax
    /\ inv[i].status \in Open /\ inv'[i].status \in IssuedStatuses
    /\ InvoiceAmounts(inv'[i])

LEMMA PaymentRecorded ==
    ASSUME BillRows, NEW i \in Invoices, NEW n \in Nat, n <= Outstanding(i), RecordInvoicePayment(i, n)
    PROVE  Recorded(i)
<1> DEFINE s == IF inv[i].paid + inv[i].credited + n >= Total(i) THEN "PAID" ELSE "PARTIALLY_PAID"
           q == [inv[i] EXCEPT !.paid = inv[i].paid + n, !.status = s]
<1>1. s \in IssuedStatuses /\ s \in InvoiceStatuses
  <2>1. s \in {"PAID", "PARTIALLY_PAID"} OBVIOUS
  <2> HIDE DEF s
  <2>2. QED BY <2>1 DEF IssuedStatuses, InvoiceStatuses, Open
<1> HIDE DEF s
<1>2. InvoiceAmounts(inv[i]) /\ InvoiceRow(inv[i]) BY DEF BillRows, BillInv
<1>3. inv' = [inv EXCEPT ![i] = q] /\ inv[i].status \in Open
  BY DEF RecordInvoicePayment, s
<1>4. /\ q.taxable = inv[i].taxable /\ q.tax = inv[i].tax /\ q.ships = inv[i].ships
      /\ q.year = inv[i].year /\ q.status = s /\ q.paid = inv[i].paid + n
      /\ q.credited = inv[i].credited
  BY <1>2 DEF InvoiceRow, InvoiceColumns
<1> HIDE DEF q
<1>5. /\ \A h \in Invoices : h # i => inv'[h] = inv[h]
      /\ inv'[i] = q
  BY <1>3 DEF BillRows, BillInv
<1>6. inv[i].paid + n \in Nat /\ inv[i].paid + n + inv[i].credited <= inv[i].taxable + inv[i].tax + Slack
  <2>1. Slack \in Nat BY BillingAssumption
  <2>2. n <= (inv[i].taxable + inv[i].tax) - inv[i].paid - inv[i].credited
    BY DEF Outstanding, Total
  <2>3. QED BY <1>2, <2>1, <2>2 DEF InvoiceAmounts
<1>7. InvoiceAmounts(q) BY <1>1, <1>2, <1>4, <1>6 DEF InvoiceAmounts
<1>8. QED BY <1>1, <1>3, <1>4, <1>5, <1>7 DEF Recorded

LEMMA CreditRecorded ==
    ASSUME BillRows, NEW i \in Invoices, NEW n \in Nat, RecordInvoiceCredit(i, n)
    PROVE  inv' = inv \/ Recorded(i)
<1>1. CASE inv[i].status \in Open
  <2> DEFINE s == IF inv[i].paid + inv[i].credited + n >= Total(i) THEN "PAID" ELSE inv[i].status
             q == [inv[i] EXCEPT !.credited = inv[i].credited + n, !.status = s]
  <2>1. s \in IssuedStatuses /\ s \in InvoiceStatuses
    BY <1>1 DEF IssuedStatuses, InvoiceStatuses, Open
  <2> HIDE DEF s
  <2>2. InvoiceAmounts(inv[i]) /\ InvoiceRow(inv[i]) BY DEF BillRows, BillInv
  <2>3. inv' = [inv EXCEPT ![i] = q]
    BY <1>1 DEF RecordInvoiceCredit, s
  <2>4. /\ q.taxable = inv[i].taxable /\ q.tax = inv[i].tax /\ q.ships = inv[i].ships
        /\ q.year = inv[i].year /\ q.status = s /\ q.paid = inv[i].paid
        /\ q.credited = inv[i].credited + n
    BY <2>2 DEF InvoiceRow, InvoiceColumns
  <2> HIDE DEF q
  <2>5. /\ \A h \in Invoices : h # i => inv'[h] = inv[h]
        /\ inv'[i] = q
    BY <2>3 DEF BillRows, BillInv
  <2>6. /\ inv[i].credited + n \in Nat
        /\ inv[i].paid + (inv[i].credited + n) <= inv[i].taxable + inv[i].tax + Slack
    <3>1. Slack \in Nat BY BillingAssumption
    <3>2. inv[i].paid + inv[i].credited + n <= inv[i].taxable + inv[i].tax + Slack
      BY <1>1 DEF RecordInvoiceCredit, Total
    <3>3. QED BY <2>2, <3>1, <3>2 DEF InvoiceAmounts
  <2>7. InvoiceAmounts(q) BY <2>1, <2>2, <2>4, <2>6 DEF InvoiceAmounts
  <2>8. QED BY <1>1, <2>1, <2>4, <2>5, <2>7 DEF Recorded
<1>2. CASE inv[i].status \notin Open BY <1>2 DEF RecordInvoiceCredit
<1>3. QED BY <1>1, <1>2

\* The other columns, for a step that leaves the named ones alone.
LEMMA InvoicesKept ==
    ASSUME BillRows, NEW i, inv' = inv \/ Recorded(i)
    PROVE  \A h \in Invoices : InvoiceAmounts(inv'[h])
  BY DEF BillRows, Recorded

LEMMA RowsKept ==
    ASSUME BillRows, BillInv', \A i \in Invoices : InvoiceAmounts(inv'[i]),
           note' \in [Notes -> NoteRow],
           \A k \in Notes : note'[k].status # "NONE" => note'[k].inv \in Invoices,
           asked' = [c \in Clerks |-> asked'[c]], \A c \in Clerks : Answerable(asked'[c]),
           UNCHANGED payments
    PROVE  BillRows'
  BY DEF BillRows, InvoiceAmounts, Answerable, InvoiceStatuses, NoteRow, Invoices

LEMMA AnswerKept ==
    ASSUME BillRows, NEW c \in Clerks, NEW q, asked' = [asked EXCEPT ![c] = q], Answerable(q)
    PROVE  asked' = [x \in Clerks |-> asked'[x]] /\ \A x \in Clerks : Answerable(asked'[x])
  BY DEF BillRows

LEMMA RowsDraftReads ==
    ASSUME BillRows, BillInv', NEW c \in Clerks, NEW P \in BillingPeriods, DraftReads(c, P)
    PROVE  BillRows'
<1> DEFINE q == [op |-> "draft", ships |-> ListBillableShipments(P)]
<1>1. asked' = [asked EXCEPT ![c] = q] /\ UNCHANGED <<inv, payments, note>> BY DEF DraftReads
<1>2. P \subseteq Shipments BY BillingAssumption
<1>3. q.op = "draft" /\ q.ships \subseteq Shipments BY <1>2 DEF ListBillableShipments
<1>4. Answerable(q) BY <1>3 DEF Answerable
<1> HIDE DEF q
<1>5. asked' = [x \in Clerks |-> asked'[x]] /\ \A x \in Clerks : Answerable(asked'[x])
  BY <1>1, <1>4, AnswerKept
<1>6. QED BY <1>1, <1>5, RowsKept DEF BillRows

LEMMA RowsProbes ==
    ASSUME BillRows, BillInv', NEW c \in Clerks, NEW i \in Invoices, NEW r, NEW n \in 1 .. MaxAmount,
           PaymentProbes(c, i, r, n)
    PROVE  BillRows'
<1> DEFINE q == [op |-> "pay", inv |-> i, ref |-> r, n |-> n]
<1>1. asked' = [asked EXCEPT ![c] = q] /\ UNCHANGED <<inv, payments, note>> BY DEF PaymentProbes
<1>3. q.op = "pay" /\ q.inv = i /\ q.n = n OBVIOUS
<1>4. Answerable(q) BY <1>3 DEF Answerable
<1> HIDE DEF q
<1>5. asked' = [x \in Clerks |-> asked'[x]] /\ \A x \in Clerks : Answerable(asked'[x])
  BY <1>1, <1>4, AnswerKept
<1>6. QED BY <1>1, <1>5, RowsKept DEF BillRows

LEMMA IdleAnswers == Answerable(NoRequest)
  BY DEF NoRequest, Answerable

LEMMA RowsDraft ==
    ASSUME BillRows, BillInv', NEW c \in Clerks, NEW i \in Invoices, NEW y \in Years, Draft(c, i, y)
    PROVE  /\ BillRows'
           /\ ~Issued(i) /\ ~Issued(i)'
           /\ \A h \in Invoices : h # i => inv'[h] = inv[h]
<1>1. asked' = [asked EXCEPT ![c] = NoRequest] /\ UNCHANGED <<payments, note>> /\ asked[c].op = "draft"
  BY DEF Draft
<1>2. asked' = [x \in Clerks |-> asked'[x]] /\ \A x \in Clerks : Answerable(asked'[x])
  BY <1>1, IdleAnswers, AnswerKept
<1>3. inv[i].status = "NONE" BY DEF Draft, CreateInvoice
<1>4. ~Issued(i) BY <1>3 DEF Issued, Open
<1>5. /\ \A h \in Invoices : InvoiceAmounts(inv'[h])
      /\ ~Issued(i)'
      /\ \A h \in Invoices : h # i => inv'[h] = inv[h]
  <2>1. CASE inv' = inv BY <1>4, <2>1 DEF BillRows, Issued
  <2>2. CASE ApplyInvoiceTotals(i, asked[c].ships, y)
    <3> DEFINE S == asked[c].ships
               a == SumFunction([s \in S |-> Charge[s]])
               b == ApplyBP(a, TaxBp)
               q == [NoInvoice EXCEPT !.status = "DRAFT", !.ships = S, !.year = y,
                                      !.taxable = a, !.tax = b]
    <3>1. inv' = [inv EXCEPT ![i] = q] BY <2>2 DEF ApplyInvoiceTotals
    <3>2. S \in SUBSET Shipments
      <4>1. Answerable(asked[c]) BY DEF BillRows
      <4>2. QED BY <1>1, <4>1 DEF Answerable
    <3>3. a \in Nat /\ b \in Nat BY <3>2, TaxableLemma
    <3> HIDE DEF S, a, b
    <3>4. /\ q.status = "DRAFT" /\ q.ships = S /\ q.year = y /\ q.taxable = a /\ q.tax = b
          /\ q.paid = 0 /\ q.credited = 0
      BY DEF NoInvoice
    <3> HIDE DEF q
    <3>5. InvoiceAmounts(q)
      <4>1. Slack \in Nat BY BillingAssumption
      <4>2. "DRAFT" \in InvoiceStatuses BY DEF InvoiceStatuses
      <4>3. QED BY <3>2, <3>3, <3>4, <4>1, <4>2 DEF InvoiceAmounts
    <3>6. inv'[i] = q /\ \A h \in Invoices : h # i => inv'[h] = inv[h]
      BY <3>1 DEF BillRows, BillInv
    <3>7. ~Issued(i)' BY <3>4, <3>6 DEF Issued, Open
    <3>8. \A h \in Invoices : InvoiceAmounts(inv'[h]) BY <3>5, <3>6 DEF BillRows
    <3>9. QED BY <3>6, <3>7, <3>8
  <2>3. QED BY <2>1, <2>2 DEF Draft
<1>6. BillRows' BY <1>1, <1>2, <1>5, RowsKept DEF BillRows
<1>7. QED BY <1>4, <1>5, <1>6

LEMMA RowsIssue ==
    ASSUME BillRows, BillInv', NEW i \in Invoices, Issue(i)
    PROVE  /\ BillRows'
           /\ inv[i].status = "DRAFT" /\ inv'[i].status = "ISSUED"
           /\ inv'[i].taxable = inv[i].taxable /\ inv'[i].tax = inv[i].tax
           /\ \A h \in Invoices : h # i => inv'[h] = inv[h]
<1> DEFINE x == seq[inv[i].year] + 1
           q == [inv[i] EXCEPT !.status = "ISSUED", !.no = x]
<1>1. inv' = [inv EXCEPT ![i] = q] /\ inv[i].status = "DRAFT" /\ UNCHANGED <<payments, note, asked>>
  BY DEF Issue, IssueInvoice
<1> HIDE DEF x
<1>2. InvoiceAmounts(inv[i]) /\ InvoiceRow(inv[i]) BY DEF BillRows, BillInv
<1>3. /\ q.taxable = inv[i].taxable /\ q.tax = inv[i].tax /\ q.ships = inv[i].ships
      /\ q.year = inv[i].year /\ q.status = "ISSUED" /\ q.paid = inv[i].paid
      /\ q.credited = inv[i].credited
  BY <1>2 DEF InvoiceRow, InvoiceColumns
<1> HIDE DEF q
<1>4. InvoiceAmounts(q) BY <1>2, <1>3 DEF InvoiceAmounts, InvoiceStatuses, Open
<1>5. inv'[i] = q /\ \A h \in Invoices : h # i => inv'[h] = inv[h]
  BY <1>1 DEF BillRows, BillInv
<1>6. \A h \in Invoices : InvoiceAmounts(inv'[h]) BY <1>4, <1>5 DEF BillRows
<1>7. BillRows' BY <1>1, <1>6, RowsKept DEF BillRows
<1>8. QED BY <1>1, <1>3, <1>5, <1>7

LEMMA RowsNote ==
    ASSUME BillRows, BillInv', NEW k \in Notes, IssueCreditNote(k)
    PROVE  /\ BillRows'
           /\ note[k].status = "DRAFT" /\ note'[k].status = "ISSUED"
           /\ note'[k].type = note[k].type /\ note'[k].n = note[k].n
           /\ \A x \in Notes : x # k => note'[x] = note[x]
           /\ inv' = inv \/ (note[k].inv \in Invoices /\ Recorded(note[k].inv))
<1>1. /\ note[k].status = "DRAFT" /\ note' = [note EXCEPT ![k].status = "ISSUED"]
      /\ UNCHANGED <<payments, asked>>
  BY DEF IssueCreditNote
<1>2. note[k] \in NoteRow /\ note[k].inv \in Invoices BY <1>1 DEF BillRows
<1>3. /\ note'[k] \in NoteRow /\ note'[k].status = "ISSUED" /\ note'[k].inv = note[k].inv
      /\ note'[k].type = note[k].type /\ note'[k].n = note[k].n
      /\ \A x \in Notes : x # k => note'[x] = note[x]
      /\ note' \in [Notes -> NoteRow]
  <2>1. note \in [Notes -> NoteRow] BY DEF BillRows
  <2> DEFINE q == [note[k] EXCEPT !.status = "ISSUED"]
  <2>2. /\ q \in NoteRow /\ q.status = "ISSUED" /\ q.inv = note[k].inv
        /\ q.type = note[k].type /\ q.n = note[k].n
    BY <1>2 DEF NoteRow
  <2>3. note' = [note EXCEPT ![k] = q] BY <1>1
  <2> HIDE DEF q
  <2>4. QED BY <2>1, <2>2, <2>3
<1>4. NoteTotal(k) \in Nat
  <2>1. note[k].n \in Nat BY <1>2, BillingAssumption DEF NoteRow
  <2>2. QED BY <2>1, BillingAssumption DEF NoteTotal
<1>5. inv' = inv \/ Recorded(note[k].inv)
  BY <1>2, <1>4, CreditRecorded DEF IssueCreditNote
<1>6. \A h \in Invoices : InvoiceAmounts(inv'[h]) BY <1>5, InvoicesKept
<1>7. \A x \in Notes : note'[x].status # "NONE" => note'[x].inv \in Invoices
  BY <1>2, <1>3 DEF BillRows
<1>8. BillRows' BY <1>1, <1>3, <1>6, <1>7, RowsKept DEF BillRows
<1>9. QED BY <1>1, <1>2, <1>3, <1>5, <1>8

LEMMA RowsRaise ==
    ASSUME BillRows, BillInv', NEW k \in Notes, NEW type \in {"CREDIT", "DEBIT"}, NEW i \in Invoices,
           NEW n \in 1 .. MaxAmount, RaiseCreditNote(k, type, i, n)
    PROVE  /\ BillRows'
           /\ note[k].status = "NONE" /\ note'[k].status = "DRAFT"
           /\ \A x \in Notes : x # k => note'[x] = note[x]
<1> DEFINE q == [status |-> "DRAFT", type |-> type, inv |-> i, n |-> n]
<1>1. /\ note[k].status = "NONE" /\ note' = [note EXCEPT ![k] = q]
      /\ UNCHANGED <<inv, payments, asked>>
  BY DEF RaiseCreditNote
<1>2. n \in 0 .. MaxAmount BY BillingAssumption
<1>3. q \in NoteRow /\ q.status = "DRAFT" /\ q.inv \in Invoices BY <1>2 DEF NoteRow
<1> HIDE DEF q
<1>4. note'[k] = q /\ \A x \in Notes : x # k => note'[x] = note[x] BY <1>1 DEF BillRows
<1>5. note' \in [Notes -> NoteRow] BY <1>1, <1>3 DEF BillRows
<1>6. \A x \in Notes : note'[x].status # "NONE" => note'[x].inv \in Invoices
  BY <1>3, <1>4 DEF BillRows
<1>7. BillRows' BY <1>1, <1>5, <1>6, RowsKept DEF BillRows
<1>8. QED BY <1>1, <1>3, <1>4, <1>7

\* A payment is written under the next number, or nothing is.
LEMMA RowsPayment ==
    ASSUME BillRows, BillInv', NEW c \in Clerks, RecordPayment(c)
    PROVE  /\ BillRows'
           /\ asked[c].op = "pay" /\ asked[c].inv \in Invoices /\ asked[c].n \in Int
           /\ UNCHANGED <<note, seq>>
           /\ \/ UNCHANGED <<journal, inv, payments>>
              \/ /\ Post(<<"PAYMENT", asked[c].inv>>, <<"INVOICE_PAYMENT", Cardinality(payments) + 1>>,
                         PaymentLegs(asked[c].n))
                 /\ payments' = payments \cup {[no |-> Cardinality(payments) + 1, inv |-> asked[c].inv,
                                                ref |-> asked[c].ref, n |-> asked[c].n]}
                 /\ Recorded(asked[c].inv)
<1> DEFINE i == asked[c].inv
           n == asked[c].n
           N == Cardinality(payments)
           p == [no |-> N + 1, inv |-> i, ref |-> asked[c].ref, n |-> n]
<1>1. asked[c].op = "pay" /\ asked' = [asked EXCEPT ![c] = NoRequest] /\ UNCHANGED <<note, seq>>
  BY DEF RecordPayment
<1>2. i \in Invoices /\ n \in Nat
  <2>1. Answerable(asked[c]) BY DEF BillRows
  <2>2. i \in Invoices /\ n \in 1 .. MaxAmount BY <1>1, <2>1 DEF Answerable
  <2>3. QED BY <2>2, BillingAssumption
<1>3. asked' = [x \in Clerks |-> asked'[x]] /\ \A x \in Clerks : Answerable(asked'[x])
  BY <1>1, IdleAnswers, AnswerKept
<1>4. \/ UNCHANGED <<journal, inv, payments>>
      \/ /\ Post(<<"PAYMENT", i>>, <<"INVOICE_PAYMENT", N + 1>>, PaymentLegs(n))
         /\ payments' = payments \cup {p}
         /\ n <= Outstanding(i) /\ RecordInvoicePayment(i, n)
  BY DEF RecordPayment, CreateInvoicePayment
<1>5. CASE UNCHANGED <<journal, inv, payments>>
  <2>1. BillRows' BY <1>1, <1>3, <1>5, RowsKept DEF BillRows
  <2>2. QED BY <1>1, <1>2, <1>5, <2>1
<1>6. CASE /\ Post(<<"PAYMENT", i>>, <<"INVOICE_PAYMENT", N + 1>>, PaymentLegs(n))
           /\ payments' = payments \cup {p}
           /\ n <= Outstanding(i) /\ RecordInvoicePayment(i, n)
  <2> HIDE DEF i, n
  <2>1. Recorded(i) BY <1>2, <1>6, PaymentRecorded
  <2>2. \A h \in Invoices : InvoiceAmounts(inv'[h]) BY <2>1, InvoicesKept
  <2>3. p.no = N + 1 /\ p.n = n OBVIOUS
  <2> HIDE DEF p
  <2>4. IsFiniteSet(payments) /\ N \in Nat BY FS_CardinalityType DEF BillRows
  <2>5. p \notin payments
    <3>1. \A r \in payments : r.no \in 1 .. N BY DEF BillRows
    <3>2. QED BY <2>3, <2>4, <3>1
  <2>6. IsFiniteSet(payments') /\ Cardinality(payments') = N + 1
    BY <1>6, <2>4, <2>5, FS_AddElement
  <2>7. \A r \in payments' : r.no \in 1 .. (N + 1) /\ r.n \in Int
    <3>1. \A r \in payments : r.no \in 1 .. N /\ r.n \in Int BY DEF BillRows
    <3>2. \A r \in payments : r.no \in 1 .. (N + 1) BY <2>4, <3>1
    <3>3. p.no \in 1 .. (N + 1) /\ p.n \in Int BY <1>2, <2>3, <2>4
    <3>4. QED BY <1>6, <3>1, <3>2, <3>3
  <2>8. BillRows'
    <3>1. /\ note' \in [Notes -> NoteRow]
          /\ \A k \in Notes : note'[k].status # "NONE" => note'[k].inv \in Invoices
      BY <1>1 DEF BillRows
    <3>2. /\ IsFiniteSet(payments')
          /\ \A r \in payments' : r.no \in 1 .. Cardinality(payments') /\ r.n \in Int
      BY <2>6, <2>7
    <3>3. QED BY <1>3, <2>2, <3>1, <3>2
              DEF BillRows, InvoiceAmounts, Answerable, InvoiceStatuses, NoteRow, Invoices
  <2>9. QED BY <1>1, <1>2, <1>6, <2>1, <2>8 DEF i, n, p
<1>7. QED BY <1>4, <1>5, <1>6

-----------------------------------------------------------------------------
\* What a journal is worth to the customer's account, and what caused it.
Charged(j) == Worth(j, TradeReceivable, Customer)
Receivable == Balance(journal, TradeReceivable, Customer)
BillCaused(j) ==
    \/ \E i \in Invoices : Issued(i) /\ j.source = <<"INVOICE", i>>
    \/ \E k \in Notes : note[k].status = "ISSUED" /\ j.source = <<"CREDIT_NOTE", k>>
    \/ \E i, m : /\ m \in 1 .. Cardinality(payments)
                 /\ j.source = <<"PAYMENT", i>> /\ j.purpose = <<"INVOICE_PAYMENT", m>>
BillJournals == IsFiniteSet(journal) /\ \A j \in journal : Charged(j) \in Int /\ BillCaused(j)

LEMMA BillSource ==
    /\ \A i, k, h : /\ <<"INVOICE", i>> # <<"CREDIT_NOTE", k>> /\ <<"INVOICE", i>> # <<"PAYMENT", h>>
                    /\ <<"CREDIT_NOTE", k>> # <<"PAYMENT", h>>
    /\ \A i, h : <<"INVOICE", i>> = <<"INVOICE", h>> => i = h
    /\ \A k, x : <<"CREDIT_NOTE", k>> = <<"CREDIT_NOTE", x>> => k = x
    /\ \A m, n : <<"INVOICE_PAYMENT", m>> = <<"INVOICE_PAYMENT", n>> => m = n
  OBVIOUS

LEMMA BillAccounts ==
    /\ TradeReceivable \in NormalDebit /\ TradeReceivable # Cash /\ TradeReceivable # FreightRevenue
    /\ TradeReceivable # TaxPayable /\ TradeReceivable # DiscountAllowed /\ TradeReceivable # OtherRevenue
  BY DEF TradeReceivable, NormalDebit, Cash, FreightRevenue, TaxPayable, DiscountAllowed, OtherRevenue

\* A journal with one leg of the customer's.
LEMMA ChargedOnce ==
    ASSUME NEW j, NEW l \in j.legs, l.account = TradeReceivable, l.party = Customer,
           l.debit \in Int, l.credit \in Int, \A k \in j.legs : k.account = TradeReceivable => k = l
    PROVE  Charged(j) = l.debit - l.credit /\ Charged(j) \in Int
<1>1. Worth(j, TradeReceivable, Customer) = l.debit - l.credit BY OneLeg, BillAccounts
<1>2. QED BY <1>1 DEF Charged

LEMMA IssueWorth ==
    ASSUME BillRows, NEW i \in Invoices, NEW j, j.legs = IssueLegs(i)
    PROVE  Charged(j) = Total(i) /\ Charged(j) \in Int
<1> DEFINE l == Debit(TradeReceivable, Customer, Total(i))
<1>1. Total(i) \in Int BY DEF BillRows, InvoiceAmounts, Total
<1>2. l.account = TradeReceivable /\ l.party = Customer /\ l.debit = Total(i) /\ l.credit = 0
  BY DEF Debit
<1>3. l \in j.legs BY DEF IssueLegs
<1>4. \A k \in j.legs : k = l \/ k.account \in {FreightRevenue, TaxPayable}
  BY DEF IssueLegs, Credit
<1> HIDE DEF l
<1>5. \A k \in j.legs : k.account = TradeReceivable => k = l BY <1>4, BillAccounts
<1>6. QED BY <1>1, <1>2, <1>3, <1>5, ChargedOnce

LEMMA PaymentWorth ==
    ASSUME NEW n \in Int, NEW j, j.legs = PaymentLegs(n)
    PROVE  Charged(j) = -n /\ Charged(j) \in Int
<1> DEFINE l == Credit(TradeReceivable, Customer, n)
<1>2. l.account = TradeReceivable /\ l.party = Customer /\ l.debit = 0 /\ l.credit = n
  BY DEF Credit
<1>3. l \in j.legs BY DEF PaymentLegs
<1>4. \A k \in j.legs : k = l \/ k.account = Cash
  BY DEF PaymentLegs, Debit
<1> HIDE DEF l
<1>5. \A k \in j.legs : k.account = TradeReceivable => k = l BY <1>4, BillAccounts
<1>6. QED BY <1>2, <1>3, <1>5, ChargedOnce

SignedNote(k) == IF note[k].type = "DEBIT" THEN NoteTotal(k) ELSE -NoteTotal(k)

LEMMA NoteType ==
    ASSUME BillRows, NEW k \in Notes
    PROVE  NoteTotal(k) \in Int /\ SignedNote(k) \in Int
<1>1. note[k].n \in Int BY BillingAssumption DEF BillRows, NoteRow
<1>2. QED BY <1>1, BillingAssumption DEF NoteTotal, SignedNote

LEMMA NoteWorth ==
    ASSUME BillRows, NEW k \in Notes, note[k].type \in {"CREDIT", "DEBIT"}, NEW j, j.legs = NoteLegs(k)
    PROVE  Charged(j) = SignedNote(k) /\ Charged(j) \in Int
<1>1. NoteTotal(k) \in Int BY NoteType
<1>2. CASE note[k].type = "CREDIT"
  <2> DEFINE l == Credit(TradeReceivable, Customer, NoteTotal(k))
  <2>2. l.account = TradeReceivable /\ l.party = Customer /\ l.debit = 0 /\ l.credit = NoteTotal(k)
    BY DEF Credit
  <2>3. l \in j.legs BY <1>2 DEF NoteLegs
  <2>4. \A x \in j.legs : x = l \/ x.account \in {DiscountAllowed, TaxPayable}
    BY <1>2 DEF NoteLegs, Debit
  <2> HIDE DEF l
  <2>5. \A x \in j.legs : x.account = TradeReceivable => x = l BY <2>4, BillAccounts
  <2>6. Charged(j) = l.debit - l.credit /\ Charged(j) \in Int
    BY <1>1, <2>2, <2>3, <2>5, ChargedOnce
  <2>7. QED BY <1>1, <1>2, <2>2, <2>6 DEF SignedNote
<1>3. CASE note[k].type = "DEBIT"
  <2> DEFINE l == Debit(TradeReceivable, Customer, NoteTotal(k))
  <2>2. l.account = TradeReceivable /\ l.party = Customer /\ l.debit = NoteTotal(k) /\ l.credit = 0
    BY DEF Debit
  <2>3. l \in j.legs BY <1>3 DEF NoteLegs
  <2>4. \A x \in j.legs : x = l \/ x.account \in {OtherRevenue, TaxPayable}
    BY <1>3 DEF NoteLegs, Credit
  <2> HIDE DEF l
  <2>5. \A x \in j.legs : x.account = TradeReceivable => x = l BY <2>4, BillAccounts
  <2>6. Charged(j) = l.debit - l.credit /\ Charged(j) \in Int
    BY <1>1, <2>2, <2>3, <2>5, ChargedOnce
  <2>7. QED BY <1>1, <1>3, <2>2, <2>6 DEF SignedNote
<1>4. QED BY <1>2, <1>3

\* Issued invoices and notes stay issued, and the count of payments only grows.
BillForward ==
    /\ \A i \in Invoices : Issued(i) => Issued(i)'
    /\ \A k \in Notes : note[k].status = "ISSUED" => note'[k].status = "ISSUED"
    /\ Cardinality(payments) \in Nat /\ Cardinality(payments') \in Nat
    /\ Cardinality(payments) <= Cardinality(payments')

LEMMA BillCausedKept ==
    ASSUME BillJournals, BillForward, NEW j \in journal
    PROVE  BillCaused(j)'
<1>1. BillCaused(j) BY DEF BillJournals
<1>2. CASE \E i \in Invoices : Issued(i) /\ j.source = <<"INVOICE", i>>
  BY <1>2 DEF BillForward, BillCaused, Invoices
<1>3. CASE \E k \in Notes : note[k].status = "ISSUED" /\ j.source = <<"CREDIT_NOTE", k>>
  BY <1>3 DEF BillForward, BillCaused
<1>4. CASE \E i, m : /\ m \in 1 .. Cardinality(payments)
                     /\ j.source = <<"PAYMENT", i>> /\ j.purpose = <<"INVOICE_PAYMENT", m>>
  <2>1. PICK i, m : /\ m \in 1 .. Cardinality(payments)
                    /\ j.source = <<"PAYMENT", i>> /\ j.purpose = <<"INVOICE_PAYMENT", m>>
    BY <1>4
  <2>2. m \in 1 .. Cardinality(payments') BY <2>1 DEF BillForward
  <2>3. QED BY <2>1, <2>2 DEF BillCaused
<1>5. QED BY <1>1, <1>2, <1>3, <1>4 DEF BillCaused

LEMMA ReceivableType ==
    ASSUME BillJournals
    PROVE  Receivable \in Int
  BY BalanceType DEF BillJournals, Charged, Receivable

LEMMA BillNothingPosted ==
    ASSUME BillJournals, BillForward, UNCHANGED journal
    PROVE  BillJournals' /\ Receivable' = Receivable
<1>1. \A j \in journal : BillCaused(j)' BY BillCausedKept
<1>2. BillJournals' BY <1>1 DEF BillJournals, Charged, Worth, LegsOf
<1>3. QED BY <1>2 DEF Receivable, Balance, Worth, LegsOf

LEMMA BillOnePosted ==
    ASSUME BillJournals, BillForward, NEW r, journal' = journal \cup {r}, r \notin journal,
           Charged(r) \in Int, BillCaused(r)'
    PROVE  BillJournals' /\ Receivable' = Receivable + Charged(r)
<1>1. IsFiniteSet(journal') BY FS_AddElement DEF BillJournals
<1>2. \A j \in journal : BillCaused(j)' BY BillCausedKept
<1>3. \A j \in journal' : Charged(j) \in Int BY DEF BillJournals
<1>4. BillJournals'
  BY <1>1, <1>2, <1>3 DEF BillJournals, Charged, Worth, LegsOf
<1>5. \A j \in journal \cup {r} : Worth(j, TradeReceivable, Customer) \in Int BY <1>3 DEF Charged
<1>6. Balance(journal \cup {r}, TradeReceivable, Customer)
        = Balance(journal, TradeReceivable, Customer) + Worth(r, TradeReceivable, Customer)
  BY <1>5, BalanceAdds DEF BillJournals
<1>7. Receivable' = Balance(journal \cup {r}, TradeReceivable, Customer)
  BY DEF Receivable, Balance, Worth, LegsOf
<1>8. QED BY <1>4, <1>6, <1>7 DEF Receivable, Charged

-----------------------------------------------------------------------------
\* What the documents come to.
IssuedInvoices == {i \in Invoices : Issued(i)}
IssuedNotes == {k \in Notes : note[k].status = "ISSUED"}
Invoiced == SumFunctionOnSet([i \in Invoices |-> Total(i)], IssuedInvoices)
Banked == SumFunctionOnSet([p \in payments |-> p.n], payments)
Noted == SumFunctionOnSet([k \in Notes |-> SignedNote(k)], IssuedNotes)

\* A note that is raised is one or the other.
NotesTyped == \A k \in Notes : note[k].status # "NONE" => note[k].type \in {"CREDIT", "DEBIT"}

\* The books of a customer.
BillBooks == BillRows /\ NotesTyped /\ BillJournals /\ Receivable = (Invoiced - Banked) + Noted

LEMMA DocumentsFinite ==
    /\ IsFiniteSet(IssuedInvoices) /\ IssuedInvoices \subseteq Invoices
    /\ IsFiniteSet(IssuedNotes) /\ IssuedNotes \subseteq Notes
<1>1. IssuedInvoices \subseteq Invoices /\ IssuedNotes \subseteq Notes BY DEF IssuedInvoices, IssuedNotes
<1>2. QED BY <1>1, InvoicesFinite, BillingAssumption, FS_Subset

LEMMA DocumentsType ==
    ASSUME BillRows
    PROVE  Invoiced \in Int /\ Banked \in Int /\ Noted \in Int
<1> DEFINE f == [i \in Invoices |-> Total(i)]
           g == [p \in payments |-> p.n]
           h == [k \in Notes |-> SignedNote(k)]
<1>1. \A i \in IssuedInvoices : f[i] \in Int
  BY DocumentsFinite DEF BillRows, InvoiceAmounts, Total
<1>2. \A p \in payments : g[p] \in Int BY DEF BillRows
<1>3. \A k \in IssuedNotes : h[k] \in Int BY DocumentsFinite, NoteType
<1>4. IsFiniteSet(payments) BY DEF BillRows
<1> HIDE DEF f, g, h
<1>5. /\ SumFunctionOnSet(f, IssuedInvoices) \in Int
      /\ SumFunctionOnSet(g, payments) \in Int
      /\ SumFunctionOnSet(h, IssuedNotes) \in Int
  BY <1>1, <1>2, <1>3, <1>4, DocumentsFinite, SumType
<1>6. QED BY <1>5 DEF Invoiced, Banked, Noted, f, g, h

LEMMA InvoicedSame ==
    ASSUME \A i \in Invoices : Issued(i)' <=> Issued(i),
           \A i \in Invoices : Issued(i) => Total(i)' = Total(i)
    PROVE  Invoiced' = Invoiced
<1> DEFINE f == [i \in Invoices |-> Total(i)]
           g == [i \in Invoices |-> Total(i)']
           S == IssuedInvoices
<1>1. IssuedInvoices' = S BY DEF IssuedInvoices, Invoices
<1>2. \A i \in S : f[i] = g[i] BY DEF IssuedInvoices
<1>3. Invoiced' = SumFunctionOnSet(g, S) BY <1>1 DEF Invoiced, Invoices
<1>4. Invoiced = SumFunctionOnSet(f, S) BY DEF Invoiced
<1>5. IsFiniteSet(S) BY DocumentsFinite
<1> HIDE DEF f, g, S
<1>6. QED BY <1>2, <1>3, <1>4, <1>5, SumSame

LEMMA NotedSame ==
    ASSUME \A k \in Notes : \/ note'[k] = note[k]
                            \/ note[k].status # "ISSUED" /\ note'[k].status # "ISSUED"
    PROVE  Noted' = Noted
<1> DEFINE f == [k \in Notes |-> SignedNote(k)]
           g == [k \in Notes |-> SignedNote(k)']
           S == IssuedNotes
<1>1. IssuedNotes' = S BY DEF IssuedNotes
<1>2. \A k \in S : f[k] = g[k] BY DEF IssuedNotes, SignedNote, NoteTotal
<1>3. Noted' = SumFunctionOnSet(g, S) BY <1>1 DEF Noted
<1>4. Noted = SumFunctionOnSet(f, S) BY DEF Noted
<1>5. IsFiniteSet(S) BY DocumentsFinite
<1> HIDE DEF f, g, S
<1>6. QED BY <1>2, <1>3, <1>4, <1>5, SumSame

LEMMA InvoicedIssued ==
    ASSUME BillRows, NEW i \in Invoices, ~Issued(i), Issued(i)',
           \A h \in Invoices : Total(h)' = Total(h),
           \A h \in Invoices : h # i => (Issued(h)' <=> Issued(h))
    PROVE  Invoiced' = Invoiced + Total(i)
<1> DEFINE f == [h \in Invoices |-> Total(h)]
           g == [h \in Invoices |-> Total(h)']
           S == IssuedInvoices
<1>1. IssuedInvoices' = S \cup {i} /\ i \notin S BY DEF IssuedInvoices, Invoices
<1>2. \A h \in Invoices : f[h] = g[h] OBVIOUS
<1>3. \A h \in Invoices : f[h] \in Int BY DEF BillRows, InvoiceAmounts, Total
<1>4. f[i] = Total(i) OBVIOUS
<1>5. Invoiced' = SumFunctionOnSet(g, S \cup {i}) BY <1>1 DEF Invoiced, Invoices
<1>6. Invoiced = SumFunctionOnSet(f, S) BY DEF Invoiced
<1>7. IsFiniteSet(S) /\ S \subseteq Invoices BY DocumentsFinite
<1> HIDE DEF f, g, S
<1>8. IsFiniteSet(S \cup {i}) /\ \A h \in S \cup {i} : f[h] = g[h] /\ f[h] \in Int
  BY <1>2, <1>3, <1>7, FS_AddElement
<1>9. SumFunctionOnSet(g, S \cup {i}) = SumFunctionOnSet(f, S \cup {i}) BY <1>8, SumSame
<1>10. SumFunctionOnSet(f, S \cup {i}) = SumFunctionOnSet(f, S) + f[i] BY <1>1, <1>7, <1>8, SumAdd
<1>11. QED BY <1>4, <1>5, <1>6, <1>9, <1>10

LEMMA NotedIssued ==
    ASSUME BillRows, NEW k \in Notes, note[k].status # "ISSUED", note'[k].status = "ISSUED",
           note'[k].type = note[k].type, note'[k].n = note[k].n,
           \A x \in Notes : x # k => note'[x] = note[x]
    PROVE  Noted' = Noted + SignedNote(k)
<1> DEFINE f == [x \in Notes |-> SignedNote(x)]
           g == [x \in Notes |-> SignedNote(x)']
           S == IssuedNotes
<1>1. IssuedNotes' = S \cup {k} /\ k \notin S BY DEF IssuedNotes
<1>2. \A x \in Notes : f[x] = g[x] BY DEF SignedNote, NoteTotal
<1>3. \A x \in Notes : f[x] \in Int BY NoteType
<1>4. f[k] = SignedNote(k) OBVIOUS
<1>5. Noted' = SumFunctionOnSet(g, S \cup {k}) BY <1>1 DEF Noted
<1>6. Noted = SumFunctionOnSet(f, S) BY DEF Noted
<1>7. IsFiniteSet(S) /\ S \subseteq Notes BY DocumentsFinite
<1> HIDE DEF f, g, S
<1>8. IsFiniteSet(S \cup {k}) /\ \A x \in S \cup {k} : f[x] = g[x] /\ f[x] \in Int
  BY <1>2, <1>3, <1>7, FS_AddElement
<1>9. SumFunctionOnSet(g, S \cup {k}) = SumFunctionOnSet(f, S \cup {k}) BY <1>8, SumSame
<1>10. SumFunctionOnSet(f, S \cup {k}) = SumFunctionOnSet(f, S) + f[k] BY <1>1, <1>7, <1>8, SumAdd
<1>11. QED BY <1>4, <1>5, <1>6, <1>9, <1>10

LEMMA BankedPaid ==
    ASSUME BillRows, NEW p, payments' = payments \cup {p}, p \notin payments, p.n \in Int
    PROVE  Banked' = Banked + p.n
<1> DEFINE S == payments
           f == [r \in S |-> r.n]
           g == [r \in S \cup {p} |-> r.n]
<1>1. Banked' = SumFunctionOnSet(g, S \cup {p}) /\ Banked = SumFunctionOnSet(f, S) BY DEF Banked
<1>2. IsFiniteSet(S) BY DEF BillRows
<1>3. (\A r \in S : f[r] = g[r]) /\ g[p] = p.n OBVIOUS
<1>4. \A r \in S \cup {p} : g[r] \in Int BY DEF BillRows
<1>5. p \notin S OBVIOUS
<1> HIDE DEF f, g, S
<1>6. SumFunctionOnSet(g, S \cup {p}) = SumFunctionOnSet(g, S) + g[p] BY <1>2, <1>4, <1>5, SumAdd
<1>7. SumFunctionOnSet(f, S) = SumFunctionOnSet(g, S) BY <1>2, <1>3, SumSame
<1>8. QED BY <1>1, <1>3, <1>6, <1>7

\* Nothing is posted, issued or banked.
LEMMA BooksQuiet ==
    ASSUME BillBooks, BillRows', NotesTyped', UNCHANGED <<journal, payments>>,
           \A i \in Invoices : Issued(i)' <=> Issued(i),
           \A i \in Invoices : Issued(i) => Total(i)' = Total(i),
           \A k \in Notes : \/ note'[k] = note[k]
                            \/ note[k].status # "ISSUED" /\ note'[k].status # "ISSUED"
    PROVE  BillBooks'
<1>1. Cardinality(payments) \in Nat BY FS_CardinalityType DEF BillBooks, BillRows
<1>2. \A k \in Notes : note[k].status = "ISSUED" => note'[k].status = "ISSUED" OBVIOUS
<1>3. BillForward BY <1>1, <1>2 DEF BillForward
<1>4. BillJournals' /\ Receivable' = Receivable BY <1>3, BillNothingPosted DEF BillBooks
<1>5. Invoiced' = Invoiced BY InvoicedSame
<1>6. Noted' = Noted BY NotedSame
<1>7. Banked' = Banked BY DEF Banked
<1>8. QED BY <1>4, <1>5, <1>6, <1>7 DEF BillBooks

LEMMA BooksIssue ==
    ASSUME BillBooks, BillInv', NEW i \in Invoices, Issue(i)
    PROVE  BillBooks'
<1>1. BillRows /\ NotesTyped /\ BillJournals /\ Receivable = (Invoiced - Banked) + Noted
  BY DEF BillBooks
<1>2. /\ BillRows'
      /\ inv[i].status = "DRAFT" /\ inv'[i].status = "ISSUED"
      /\ inv'[i].taxable = inv[i].taxable /\ inv'[i].tax = inv[i].tax
      /\ \A h \in Invoices : h # i => inv'[h] = inv[h]
  BY <1>1, RowsIssue
<1>3. UNCHANGED <<payments, note>> BY DEF Issue
<1>4. ~Issued(i) /\ Issued(i)' BY <1>2 DEF Issued, Open
<1>5. /\ \A h \in Invoices : Total(h)' = Total(h)
      /\ \A h \in Invoices : h # i => (Issued(h)' <=> Issued(h))
  BY <1>2 DEF Total, Issued
<1>6. Invoiced' = Invoiced + Total(i) BY <1>1, <1>4, <1>5, InvoicedIssued
<1>7. BillForward
  <2>1. Cardinality(payments) \in Nat BY <1>1, FS_CardinalityType DEF BillRows
  <2>2. \A h \in Invoices : Issued(h) => Issued(h)' BY <1>4, <1>5
  <2>3. QED BY <1>3, <2>1, <2>2 DEF BillForward
<1>8. \A j \in journal : j.source # <<"INVOICE", i>>
  <2>1. \A j \in journal : BillCaused(j) BY <1>1 DEF BillJournals
  <2>2. QED BY <1>4, <2>1, BillSource DEF BillCaused
<1>9. PICK r : /\ r = [source |-> <<"INVOICE", i>>, purpose |-> "ISSUE", legs |-> IssueLegs(i)]
               /\ journal' = journal \cup {r} /\ r \notin journal
  <2>1. Post(<<"INVOICE", i>>, "ISSUE", IssueLegs(i)) BY DEF Issue
  <2>2. QED BY <1>8, <2>1, PostNew
<1>10. r.source = <<"INVOICE", i>> /\ r.legs = IssueLegs(i) BY <1>9
<1>11. Charged(r) = Total(i) /\ Charged(r) \in Int BY <1>1, <1>10, IssueWorth
<1>12. BillCaused(r)' BY <1>4, <1>10 DEF BillCaused, Invoices
<1>13. BillJournals' /\ Receivable' = Receivable + Charged(r)
  BY <1>1, <1>7, <1>9, <1>11, <1>12, BillOnePosted
<1>14. Banked' = Banked BY <1>3 DEF Banked
<1>15. Noted' = Noted BY <1>3, NotedSame
<1>16. NotesTyped' BY <1>1, <1>3 DEF NotesTyped
<1>17. Invoiced \in Int /\ Banked \in Int /\ Noted \in Int /\ Total(i) \in Int
  BY <1>1, <1>11, DocumentsType
<1>18. Receivable' = (Invoiced' - Banked') + Noted'
  BY <1>1, <1>6, <1>11, <1>13, <1>14, <1>15, <1>17
<1>19. QED BY <1>2, <1>13, <1>16, <1>18 DEF BillBooks

LEMMA BooksNote ==
    ASSUME BillBooks, BillInv', NEW k \in Notes, IssueCreditNote(k)
    PROVE  BillBooks'
<1>1. BillRows /\ NotesTyped /\ BillJournals /\ Receivable = (Invoiced - Banked) + Noted
  BY DEF BillBooks
<1>2. /\ BillRows'
      /\ note[k].status = "DRAFT" /\ note'[k].status = "ISSUED"
      /\ note'[k].type = note[k].type /\ note'[k].n = note[k].n
      /\ \A x \in Notes : x # k => note'[x] = note[x]
      /\ inv' = inv \/ (note[k].inv \in Invoices /\ Recorded(note[k].inv))
  BY <1>1, RowsNote
<1>3. UNCHANGED payments BY DEF IssueCreditNote
<1>4. \A h \in Invoices : (Issued(h)' <=> Issued(h)) /\ Total(h)' = Total(h)
  <2>1. CASE inv' = inv BY <2>1 DEF Issued, Total
  <2>2. CASE note[k].inv \in Invoices /\ Recorded(note[k].inv)
    <3>1. PICK i : i = note[k].inv OBVIOUS
    <3>2. Recorded(i) BY <2>2, <3>1
    <3>3. QED BY <3>2 DEF Recorded, Issued, Total, IssuedStatuses
  <2>3. QED BY <1>2, <2>1, <2>2
<1>5. Invoiced' = Invoiced BY <1>4, InvoicedSame
<1>6. Noted' = Noted + SignedNote(k) BY <1>1, <1>2, NotedIssued
<1>7. BillForward
  <2>1. Cardinality(payments) \in Nat BY <1>1, FS_CardinalityType DEF BillRows
  <2>2. \A x \in Notes : note[x].status = "ISSUED" => note'[x].status = "ISSUED" BY <1>2
  <2>3. QED BY <1>3, <1>4, <2>1, <2>2 DEF BillForward
<1>8. \A j \in journal : j.source # <<"CREDIT_NOTE", k>>
  <2>1. \A j \in journal : BillCaused(j) BY <1>1 DEF BillJournals
  <2>2. QED BY <1>2, <2>1, BillSource DEF BillCaused
<1>9. PICK r : /\ r = [source |-> <<"CREDIT_NOTE", k>>, purpose |-> note[k].type, legs |-> NoteLegs(k)]
               /\ journal' = journal \cup {r} /\ r \notin journal
  <2>1. Post(<<"CREDIT_NOTE", k>>, note[k].type, NoteLegs(k)) BY DEF IssueCreditNote
  <2>2. QED BY <1>8, <2>1, PostNew
<1>10. r.source = <<"CREDIT_NOTE", k>> /\ r.legs = NoteLegs(k) BY <1>9
<1>11. Charged(r) = SignedNote(k) /\ Charged(r) \in Int
  <2>1. note[k].type \in {"CREDIT", "DEBIT"} BY <1>1, <1>2 DEF NotesTyped
  <2>2. QED BY <1>1, <1>10, <2>1, NoteWorth
<1>12. BillCaused(r)' BY <1>2, <1>10 DEF BillCaused
<1>13. BillJournals' /\ Receivable' = Receivable + Charged(r)
  BY <1>1, <1>7, <1>9, <1>11, <1>12, BillOnePosted
<1>14. Banked' = Banked BY <1>3 DEF Banked
<1>15. NotesTyped' BY <1>1, <1>2 DEF NotesTyped
<1>16. Invoiced \in Int /\ Banked \in Int /\ Noted \in Int /\ SignedNote(k) \in Int
  BY <1>1, <1>11, DocumentsType
<1>17. Receivable' = (Invoiced' - Banked') + Noted'
  BY <1>1, <1>5, <1>6, <1>11, <1>13, <1>14, <1>16
<1>18. QED BY <1>2, <1>13, <1>15, <1>17 DEF BillBooks

LEMMA BooksPayment ==
    ASSUME BillBooks, BillInv', NEW c \in Clerks, RecordPayment(c)
    PROVE  BillBooks'
<1>1. BillRows /\ NotesTyped /\ BillJournals /\ Receivable = (Invoiced - Banked) + Noted
  BY DEF BillBooks
<1>2. PICK i, n, m : i = asked[c].inv /\ n = asked[c].n /\ m = Cardinality(payments) + 1 OBVIOUS
<1>3. PICK p : p = [no |-> m, inv |-> i, ref |-> asked[c].ref, n |-> n] OBVIOUS
<1>4. /\ BillRows' /\ i \in Invoices /\ n \in Int /\ UNCHANGED note
      /\ \/ UNCHANGED <<journal, inv, payments>>
         \/ /\ Post(<<"PAYMENT", i>>, <<"INVOICE_PAYMENT", m>>, PaymentLegs(n))
            /\ payments' = payments \cup {p}
            /\ Recorded(i)
  BY <1>1, <1>2, <1>3, RowsPayment
<1>5. NotesTyped' BY <1>1, <1>4 DEF NotesTyped
<1>6. CASE UNCHANGED <<journal, inv, payments>>
  <2>1. \A h \in Invoices : (Issued(h)' <=> Issued(h)) /\ Total(h)' = Total(h)
    BY <1>6 DEF Issued, Total
  <2>2. QED BY <1>4, <1>5, <1>6, <2>1, BooksQuiet
<1>7. CASE /\ Post(<<"PAYMENT", i>>, <<"INVOICE_PAYMENT", m>>, PaymentLegs(n))
           /\ payments' = payments \cup {p}
           /\ Recorded(i)
  <2>1. p.no = m /\ p.n = n BY <1>3
  <2>2. IsFiniteSet(payments) /\ Cardinality(payments) \in Nat BY <1>1, FS_CardinalityType DEF BillRows
  <2>3. p \notin payments
    <3>1. \A x \in payments : x.no \in 1 .. Cardinality(payments) BY <1>1 DEF BillRows
    <3>2. QED BY <1>2, <2>1, <2>2, <3>1
  <2>4. Cardinality(payments') = m BY <1>2, <1>7, <2>2, <2>3, FS_AddElement
  <2>5. Banked' = Banked + n BY <1>1, <1>4, <1>7, <2>1, <2>3, BankedPaid
  <2>6. \A h \in Invoices : (Issued(h)' <=> Issued(h)) /\ Total(h)' = Total(h)
    BY <1>7 DEF Recorded, Issued, Total, IssuedStatuses
  <2>7. Invoiced' = Invoiced BY <2>6, InvoicedSame
  <2>8. Noted' = Noted BY <1>4, NotedSame
  <2>9. BillForward BY <1>2, <1>4, <2>2, <2>4, <2>6 DEF BillForward
  <2>10. \A j \in journal : j.source # <<"PAYMENT", i>> \/ j.purpose # <<"INVOICE_PAYMENT", m>>
    <3>1. \A j \in journal : BillCaused(j) BY <1>1 DEF BillJournals
    <3>2. m \notin 1 .. Cardinality(payments) BY <1>2, <2>2
    <3>3. QED BY <3>1, <3>2, BillSource DEF BillCaused
  <2>11. PICK r : /\ r = [source |-> <<"PAYMENT", i>>, purpose |-> <<"INVOICE_PAYMENT", m>>,
                          legs |-> PaymentLegs(n)]
                  /\ journal' = journal \cup {r} /\ r \notin journal
    BY <1>7, <2>10, PostNew
  <2>12. /\ r.source = <<"PAYMENT", i>> /\ r.purpose = <<"INVOICE_PAYMENT", m>>
         /\ r.legs = PaymentLegs(n)
    BY <2>11
  <2>13. Charged(r) = -n /\ Charged(r) \in Int BY <1>4, <2>12, PaymentWorth
  <2>14. BillCaused(r)'
    <3>1. m \in 1 .. Cardinality(payments') BY <1>2, <2>2, <2>4
    <3>2. QED BY <2>12, <3>1 DEF BillCaused
  <2>15. BillJournals' /\ Receivable' = Receivable + Charged(r)
    BY <1>1, <2>9, <2>11, <2>13, <2>14, BillOnePosted
  <2>16. Invoiced \in Int /\ Banked \in Int /\ Noted \in Int BY <1>1, DocumentsType
  <2>17. Receivable' = (Invoiced' - Banked') + Noted'
    BY <1>1, <1>4, <2>5, <2>7, <2>8, <2>13, <2>15, <2>16
  <2>18. QED BY <1>4, <1>5, <2>15, <2>17 DEF BillBooks
<1>8. QED BY <1>4, <1>6, <1>7

LEMMA BooksStep ==
    ASSUME BillBooks, [BillingNext]_billingVars
    PROVE  BillBooks'
<1>1. BillRows /\ BillInv /\ NotesTyped BY DEF BillBooks, BillRows
<1>2. BillInv' BY <1>1, BillStep
<1>3. ASSUME NEW c \in Clerks, NEW P \in BillingPeriods, DraftReads(c, P) PROVE BillBooks'
  <2>1. BillRows' BY <1>1, <1>2, <1>3, RowsDraftReads
  <2>2. UNCHANGED <<journal, inv, payments, note>> BY <1>3 DEF DraftReads
  <2>3. NotesTyped' BY <1>1, <2>2 DEF NotesTyped
  <2>4. \A h \in Invoices : (Issued(h)' <=> Issued(h)) /\ Total(h)' = Total(h)
    BY <2>2 DEF Issued, Total
  <2>5. QED BY <2>1, <2>2, <2>3, <2>4, BooksQuiet
<1>4. ASSUME NEW c \in Clerks, NEW i \in Invoices, NEW y \in Years, Draft(c, i, y) PROVE BillBooks'
  <2>1. BillRows' /\ ~Issued(i) /\ ~Issued(i)' /\ \A h \in Invoices : h # i => inv'[h] = inv[h]
    BY <1>1, <1>2, <1>4, RowsDraft
  <2>2. UNCHANGED <<journal, payments, note>> BY <1>4 DEF Draft
  <2>3. NotesTyped' BY <1>1, <2>2 DEF NotesTyped
  <2>4. \A h \in Invoices : (Issued(h)' <=> Issued(h)) /\ (Issued(h) => Total(h)' = Total(h))
    BY <2>1 DEF Issued, Total
  <2>5. QED BY <2>1, <2>2, <2>3, <2>4, BooksQuiet
<1>5. ASSUME NEW c \in Clerks, NEW i \in Invoices, NEW r \in References, NEW n \in 1 .. MaxAmount,
             PaymentProbes(c, i, r, n)
      PROVE  BillBooks'
  <2>1. BillRows' BY <1>1, <1>2, <1>5, RowsProbes
  <2>2. UNCHANGED <<journal, inv, payments, note>> BY <1>5 DEF PaymentProbes
  <2>3. NotesTyped' BY <1>1, <2>2 DEF NotesTyped
  <2>4. \A h \in Invoices : (Issued(h)' <=> Issued(h)) /\ Total(h)' = Total(h)
    BY <2>2 DEF Issued, Total
  <2>5. QED BY <2>1, <2>2, <2>3, <2>4, BooksQuiet
<1>6. ASSUME NEW k \in Notes, NEW type \in {"CREDIT", "DEBIT"}, NEW i \in Invoices,
             NEW n \in 1 .. MaxAmount, RaiseCreditNote(k, type, i, n)
      PROVE  BillBooks'
  <2>1. /\ BillRows' /\ note[k].status = "NONE" /\ note'[k].status = "DRAFT"
        /\ \A x \in Notes : x # k => note'[x] = note[x]
    BY <1>1, <1>2, <1>6, RowsRaise
  <2>2. /\ UNCHANGED <<journal, inv, payments>>
        /\ note' = [note EXCEPT ![k] = [status |-> "DRAFT", type |-> type, inv |-> i, n |-> n]]
    BY <1>6 DEF RaiseCreditNote
  <2>3. note'[k].type = type BY <1>1, <2>2 DEF BillRows
  <2>4. NotesTyped' BY <1>1, <2>1, <2>3 DEF NotesTyped
  <2>5. \A h \in Invoices : (Issued(h)' <=> Issued(h)) /\ Total(h)' = Total(h)
    BY <2>2 DEF Issued, Total
  <2>6. QED BY <2>1, <2>2, <2>4, <2>5, BooksQuiet
<1>7. CASE UNCHANGED billingVars
  <2>1. UNCHANGED <<journal, inv, seq, payments, note, asked>> BY <1>7 DEF billingVars
  <2>2. BillRows' BY <1>1, <1>2, <2>1, RowsKept DEF BillRows
  <2>3. NotesTyped' BY <1>1, <2>1 DEF NotesTyped
  <2>4. \A h \in Invoices : (Issued(h)' <=> Issued(h)) /\ Total(h)' = Total(h)
    BY <2>1 DEF Issued, Total
  <2>5. QED BY <2>1, <2>2, <2>3, <2>4, BooksQuiet
<1>8. QED BY <1>2, <1>3, <1>4, <1>5, <1>6, <1>7, BooksIssue, BooksNote, BooksPayment DEF BillingNext

LEMMA BooksInit ==
    ASSUME BillingInit
    PROVE  BillBooks
<1>1. BillInv BY BillStart
<1>2. /\ journal = {} /\ inv = [i \in Invoices |-> NoInvoice] /\ payments = {}
      /\ note = [k \in Notes |-> NoNote] /\ asked = [c \in Clerks |-> NoRequest]
  BY DEF BillingInit, LedgerInit
<1>3. \A i \in Invoices : InvoiceAmounts(inv[i])
  BY <1>2, BillingAssumption DEF NoInvoice, InvoiceAmounts, InvoiceStatuses
<1>4. note \in [Notes -> NoteRow] /\ \A k \in Notes : note[k].status = "NONE"
  <2>1. NoNote \in NoteRow /\ NoNote.status = "NONE" BY BillingAssumption DEF NoNote, NoteRow
  <2>2. QED BY <1>2, <2>1
<1>5. IsFiniteSet(payments) /\ IsFiniteSet(journal) BY <1>2, FS_EmptySet
<1>6. BillRows BY <1>1, <1>2, <1>3, <1>4, <1>5, IdleAnswers DEF BillRows
<1>7. NotesTyped /\ IssuedNotes = {} BY <1>4 DEF NotesTyped, IssuedNotes
<1>8. IssuedInvoices = {} BY <1>2 DEF IssuedInvoices, Issued, Open, NoInvoice
<1>9. Invoiced = 0 /\ Noted = 0 BY <1>7, <1>8, SumEmpty DEF Invoiced, Noted
<1>10. Banked = 0 BY <1>2, SumEmpty DEF Banked
<1>11. Receivable = 0 BY <1>2, SumEmpty DEF Receivable, Balance
<1>12. BillJournals BY <1>2, <1>5 DEF BillJournals
<1>13. QED BY <1>6, <1>7, <1>9, <1>10, <1>11, <1>12 DEF BillBooks

LEMMA BooksAgreed ==
    ASSUME BillBooks
    PROVE  BooksMatchDocuments
<1> DEFINE f == [i \in IssuedInvoices |-> Total(i)]
           g == [i \in Invoices |-> Total(i)]
           h == [k \in IssuedNotes |-> SignedNote(k)]
           m == [k \in Notes |-> SignedNote(k)]
           b == [p \in payments |-> p.n]
<1>1. (\A i \in IssuedInvoices : f[i] = g[i]) /\ \A k \in IssuedNotes : h[k] = m[k]
  BY DocumentsFinite
<1>2. /\ SumFunction(f) = SumFunctionOnSet(f, IssuedInvoices)
      /\ SumFunction(h) = SumFunctionOnSet(h, IssuedNotes)
      /\ SumFunction(b) = SumFunctionOnSet(b, payments)
  BY DEF SumFunction
<1>3. /\ Invoiced = SumFunctionOnSet(g, IssuedInvoices) /\ Noted = SumFunctionOnSet(m, IssuedNotes)
      /\ Banked = SumFunctionOnSet(b, payments)
  BY DEF Invoiced, Noted, Banked
<1> HIDE DEF f, g, h, m, b
<1>4. /\ SumFunctionOnSet(f, IssuedInvoices) = SumFunctionOnSet(g, IssuedInvoices)
      /\ SumFunctionOnSet(h, IssuedNotes) = SumFunctionOnSet(m, IssuedNotes)
  BY <1>1, DocumentsFinite, SumSame
<1>5. AccountBalance(TradeReceivable, Customer) = Receivable BY BalanceIs DEF Receivable
<1>6. Receivable = (SumFunction(f) - SumFunction(b)) + SumFunction(h)
  BY <1>2, <1>3, <1>4 DEF BillBooks
<1>7. /\ SumFunction(f) = SumFunction([i \in {x \in Invoices : Issued(x)} |-> Total(i)])
      /\ SumFunction(b) = SumFunction([p \in payments |-> p.n])
      /\ SumFunction(h) = SumFunction([k \in {x \in Notes : note[x].status = "ISSUED"} |->
                              IF note[k].type = "DEBIT" THEN NoteTotal(k) ELSE -NoteTotal(k)])
  BY DEF f, b, h, IssuedInvoices, IssuedNotes, SignedNote
<1>8. QED BY <1>5, <1>6, <1>7 DEF BooksMatchDocuments

\* In every behaviour the customer's receivable is what the documents say: the
\* invoices and debit notes issued less the credit notes issued and the payments
\* banked (Issue, RecordPayment, IssueCreditNote and what they post), for any
\* charges, any tax and any number of clerks whose requests overlap.
THEOREM BooksMatch == BillingSpec => []BooksMatchDocuments
<1>1. BillBooks /\ [BillingNext]_billingVars => BillBooks' BY BooksStep
<1>2. BillingInit => BillBooks BY BooksInit
<1>3. BillBooks => BooksMatchDocuments BY BooksAgreed
<1>4. QED BY <1>1, <1>2, <1>3, PTL DEF BillingSpec

\* Every column of invoices, notes and requests holds a value of its type, and no
\* invoice is settled by more than invoices_settled_within_total lets pass,
\* although a credit note is checked when it is raised and applied when it is
\* issued.
THEOREM BillingTypeCorrect == BillingSpec => []BillingTypeOK
<1>1. BillBooks /\ [BillingNext]_billingVars => BillBooks' BY BooksStep
<1>2. BillingInit => BillBooks BY BooksInit
<1>3. BillBooks => BillingTypeOK
  <2> SUFFICES ASSUME BillBooks PROVE BillingTypeOK OBVIOUS
  <2>1. BillRows BY DEF BillBooks
  <2>2. \A i \in Invoices : InvoiceAmounts(inv[i]) BY <2>1 DEF BillRows
  <2>3. \A k \in Notes : note[k].status \in {"NONE", "DRAFT", "ISSUED"} BY <2>1 DEF BillRows, NoteRow
  <2>4. \A c \in Clerks : asked[c].op \in {"idle", "draft", "pay"} BY <2>1 DEF BillRows, Answerable
  <2>5. seq \in [Years -> Nat] BY <2>1 DEF BillRows, BillInv
  <2>6. QED BY <2>2, <2>3, <2>4, <2>5 DEF BillingTypeOK, InvoiceAmounts, Total
<1>4. QED BY <1>1, <1>2, <1>3, PTL DEF BillingSpec

-----------------------------------------------------------------------------
(***************************************************************************)
(* Cash on delivery.  The journal plays no part: no operation reads it to  *)
(* decide what to do.                                                      *)
(***************************************************************************)

\* The statements the operations are made of.
USE DEF CreateCODObligation, MarkObligationCollected, LockObligationsByIDs,
        CreateCustodyTransfer, AddTransferItem, MoveObligationCustody, LockTransfer,
        AcceptCustodyTransfer, ListObligationsForParty, CreateCODReconciliation,
        LockCODReconciliation, CompleteCODReconciliation, CreateCODRemittance,
        LockRemittance, ConfirmCODRemittance

-----------------------------------------------------------------------------
(***************************************************************************)
(* The helpers of the operations.                                          *)
(***************************************************************************)

\* The status of cash in custody names the kind of its holder.
LEMMA CodStatusLemma ==
    ASSUME NEW p \in Parties
    PROVE  /\ statusForCustodian(p) \in InCustody
           /\ statusForCustodian(p) = "AGENT_COLLECTED" <=> p \in Agents
           /\ statusForCustodian(p) = "BRANCH_RECEIVED" <=> p \in Branches
           /\ statusForCustodian(p) = "FRANCHISE_CONFIRMED" <=> p \in Franchises
  BY CodAssumption DEF statusForCustodian, InCustody, Parties

\* A count marks cash in custody and nothing else of the row but the adjustment.
LEMMA ReconciledLemma ==
    ASSUME NEW o \in Obligations, ob[o] \in ObRow, NEW i \in ReconItem
    PROVE  LET r == MarkObligationReconciled(o, i)
           IN  /\ r \in ObRow
               /\ r.custodian = ob[o].custodian
               /\ r.collected = ob[o].collected /\ r.remitted = ob[o].remitted
               /\ ob[o].status \in InCustody => r.status = "RECONCILED"
               /\ ob[o].status \notin InCustody => r.status = ob[o].status
<1>1. CASE ob[o].status \in InCustody
  <2> DEFINE n == ob[o].adjusted + i.counted - i.expected
  <2>1. n \in Int
    BY DEF ObRow, ReconItem
  <2>2. MarkObligationReconciled(o, i) =
          [ob[o] EXCEPT !.status = "RECONCILED", !.adjusted = n]
    BY <1>1 DEF MarkObligationReconciled, ObRow
  <2> HIDE DEF n
  <2>3. QED BY <1>1, <2>1, <2>2 DEF ObRow, ObStatuses
<1>2. CASE ob[o].status \notin InCustody
  BY <1>2 DEF MarkObligationReconciled
<1>3. QED BY <1>1, <1>2

\* A remittance takes what may be remitted from its holder, and no other row.
LEMMA RemittedLemma ==
    ASSUME NEW o \in Obligations, ob[o] \in ObRow, NEW n \in Int
    PROVE  LET r == MarkObligationRemitted(o, n)
           IN  /\ r \in ObRow
               /\ r.collected = ob[o].collected
               /\ ob[o].status \in {"BRANCH_RECEIVED", "FRANCHISE_CONFIRMED", "RECONCILED"} =>
                    /\ r.status = "REMITTED" /\ r.custodian = Nil
                    /\ r.remitted = ob[o].remitted + n
               /\ ob[o].status \notin {"BRANCH_RECEIVED", "FRANCHISE_CONFIRMED", "RECONCILED"} =>
                    r = ob[o]
<1>1. CASE ob[o].status \in {"BRANCH_RECEIVED", "FRANCHISE_CONFIRMED", "RECONCILED"}
  <2>1. /\ ob[o].remitted + n \in Int
        /\ MarkObligationRemitted(o, n) =
             [ob[o] EXCEPT !.status = "REMITTED", !.custodian = Nil,
                           !.remitted = ob[o].remitted + n]
    BY <1>1 DEF MarkObligationRemitted, ObRow
  <2>2. QED BY <1>1, <2>1 DEF ObRow, ObStatuses
<1>2. CASE ob[o].status \notin {"BRANCH_RECEIVED", "FRANCHISE_CONFIRMED", "RECONCILED"}
  BY <1>2 DEF MarkObligationRemitted
<1>3. QED BY <1>1, <1>2

\* The amounts written with a new transfer or remittance.
LEMMA AmountsLemma ==
    ASSUME ob \in [Obligations -> ObRow], NEW S \in SUBSET Obligations
    PROVE  /\ AmountsOf(S) \in [Obligations -> Int]
           /\ \A o \in S : AmountsOf(S)[o] = ob[o].collected - ob[o].remitted
  BY DEF AmountsOf, Held, ObRow

-----------------------------------------------------------------------------
(***************************************************************************)
(* Types.                                                                  *)
(***************************************************************************)

LEMMA TypeInit ==
    ASSUME CodInit
    PROVE  CodTypeOK
<1>1. ob \in [Obligations -> ObRow]
  BY DEF CodInit, ObRow, ObStatuses
<1>2. transfer \in [Transfers -> TransferRow]
  BY DEF CodInit, TransferRow, NoAmount
<1>3. recon \in [Reconciliations -> ReconRow]
  <2>1. [o \in Obligations |-> NoItem] \in [Obligations -> ReconItem]
    BY DEF NoItem, ReconItem, Outcomes
  <2>2. QED BY <2>1 DEF CodInit, ReconRow
<1>4. remit \in [Remittances -> RemitRow]
  BY DEF CodInit, RemitRow, NoAmount, Beneficiaries
<1>5. counting \subseteq [recon : Reconciliations, ob : Obligations, expected : Int]
  BY DEF CodInit
<1>6. QED BY <1>1, <1>2, <1>3, <1>4, <1>5 DEF CodTypeOK

\* What a collection does to the rows.
LEMMA CollectLemma ==
    ASSUME CodTypeOK, NEW o \in Obligations, NEW a \in Agents, NEW n \in Amounts,
           RecordCollection(o, a, n)
    PROVE  /\ ob' \in [Obligations -> ObRow]
           /\ ob[o].status = "EXPECTED" /\ a \in Parties
           /\ ob'[o].status = "AGENT_COLLECTED" /\ ob'[o].custodian = a
           /\ ob'[o].remitted = ob[o].remitted
           /\ \A x \in Obligations : x # o => ob'[x] = ob[x]
<1>1. n \in Int /\ a \in Parties
  BY CodAssumption DEF Parties
<1>2. ob[o] \in ObRow
  BY DEF CodTypeOK
<1> DEFINE row == [ob[o] EXCEPT !.status = "AGENT_COLLECTED", !.custodian = a,
                                !.collected = ob[o].collected + n]
<1>3. ob' = [ob EXCEPT ![o] = row]
  BY DEF CodTypeOK, RecordCollection, ObRow
<1>4. /\ row \in ObRow /\ row.status = "AGENT_COLLECTED" /\ row.custodian = a
      /\ row.remitted = ob[o].remitted
  <2>1. ob[o].collected + n \in Int BY <1>1, <1>2 DEF ObRow
  <2>2. QED BY <1>1, <1>2, <2>1 DEF ObRow, ObStatuses, InCustody
<1> HIDE DEF row
<1>5. QED BY <1>1, <1>3, <1>4, ZenonT(60) DEF CodTypeOK, RecordCollection

LEMMA TypeObligation ==
    ASSUME CodTypeOK, NEW o \in Obligations,
           OpenObligation(o) \/ \E a \in Agents, n \in Amounts : RecordCollection(o, a, n)
    PROVE  CodTypeOK'
<1>1. ob' \in [Obligations -> ObRow]
  <2>1. CASE OpenObligation(o)
    BY <2>1 DEF CodTypeOK, OpenObligation, ObRow, ObStatuses
  <2>2. ASSUME NEW a \in Agents, NEW n \in Amounts, RecordCollection(o, a, n)
        PROVE  ob' \in [Obligations -> ObRow]
    BY <2>2, CollectLemma
  <2>3. QED BY <2>1, <2>2
<1>2. QED BY <1>1 DEF CodTypeOK, OpenObligation, RecordCollection

LEMMA TypeDeclare ==
    ASSUME CodTypeOK, NEW t \in Transfers, NEW from \in Parties,
           NEW to \in Parties \cup {HeadOffice}, NEW S \in SUBSET Obligations,
           DeclareTransfer(t, from, to, S)
    PROVE  CodTypeOK'
<1>1. AmountsOf(S) \in [Obligations -> Int]
  BY AmountsLemma DEF CodTypeOK
<1>2. transfer' \in [Transfers -> TransferRow]
  BY <1>1 DEF CodTypeOK, DeclareTransfer, TransferRow
<1>3. QED BY <1>2 DEF CodTypeOK, DeclareTransfer

\* What an acceptance does to the rows.
LEMMA AcceptLemma ==
    ASSUME CodTypeOK, NEW t \in Transfers, NEW n \in Counts, AcceptTransfer(t, n)
    PROVE  /\ ob' \in [Obligations -> ObRow]
           /\ transfer[t].to \in Parties
           /\ \A o \in Obligations :
                /\ ob'[o].collected = ob[o].collected /\ ob'[o].remitted = ob[o].remitted
                /\ o \in transfer[t].items =>
                     /\ ob[o].status = statusForCustodian(transfer[t].from)
                     /\ ob'[o].status = statusForCustodian(transfer[t].to)
                     /\ ob'[o].custodian = transfer[t].to
                /\ o \notin transfer[t].items => ob'[o] = ob[o]
<1>1. transfer[t].to \in Parties BY DEF AcceptTransfer
<1>2. statusForCustodian(transfer[t].to) \in ObStatuses
  BY <1>1, CodStatusLemma DEF ObStatuses
<1>3. QED BY <1>1, <1>2 DEF CodTypeOK, AcceptTransfer, StillHeld, ObRow

LEMMA TypeAccept ==
    ASSUME CodTypeOK, NEW t \in Transfers, NEW n \in Counts, AcceptTransfer(t, n)
    PROVE  CodTypeOK'
<1>1. ob' \in [Obligations -> ObRow] BY AcceptLemma
<1>2. transfer' \in [Transfers -> TransferRow]
  BY ZenonT(60) DEF CodTypeOK, AcceptTransfer, TransferRow
<1>3. QED BY <1>1, <1>2 DEF CodTypeOK, AcceptTransfer

LEMMA TypeOpenReconciliation ==
    ASSUME CodTypeOK, NEW r \in Reconciliations, NEW p \in Parties, OpenReconciliation(r, p)
    PROVE  CodTypeOK'
<1> DEFINE lines == [o \in Obligations |->
                       IF ob[o].custodian = p /\ ob[o].status \in InCustody
                       THEN [expected |-> Held(o), counted |-> 0, outcome |-> "MISSING"]
                       ELSE NoItem]
<1>1. lines \in [Obligations -> ReconItem]
  BY DEF CodTypeOK, ObRow, Held, ReconItem, NoItem, Outcomes
<1> HIDE DEF lines
<1>2. [status |-> "OPEN", party |-> p, items |-> lines] \in ReconRow
  BY <1>1 DEF ReconRow
<1>3. recon' = [recon EXCEPT ![r] = [status |-> "OPEN", party |-> p, items |-> lines]]
  BY DEF OpenReconciliation, lines
<1>4. recon' \in [Reconciliations -> ReconRow]
  BY <1>2, <1>3 DEF CodTypeOK
<1>5. QED BY <1>4 DEF CodTypeOK, OpenReconciliation

LEMMA TypeCount ==
    ASSUME CodTypeOK,
           \/ \E r \in Reconciliations, o \in Obligations : ReadForCount(r, o)
           \/ \E c \in counting, n \in Counts : RecordCount(c, n)
    PROVE  CodTypeOK'
<1>1. ASSUME NEW r \in Reconciliations, NEW o \in Obligations, ReadForCount(r, o)
      PROVE  CodTypeOK'
  <2>1. Held(o) \in Int BY DEF CodTypeOK, ObRow, Held
  <2>2. QED BY <1>1, <2>1 DEF CodTypeOK, ReadForCount
<1>2. ASSUME NEW c \in counting, NEW n \in Counts, RecordCount(c, n)
      PROVE  CodTypeOK'
  <2>1. c.recon \in Reconciliations /\ c.ob \in Obligations /\ c.expected \in Int
    BY DEF CodTypeOK
  <2>2. PICK line : line \in ReconItem /\
          recon' = [recon EXCEPT ![c.recon].items[c.ob] = line]
    <3> DEFINE old == recon[c.recon].items[c.ob]
               line == [expected |-> IF old.outcome = "NONE" THEN c.expected ELSE old.expected,
                        counted |-> n, outcome |-> OutcomeOf(n, c.expected)]
    <3>1. old \in ReconItem BY <2>1 DEF CodTypeOK, ReconRow
    <3>2. OutcomeOf(n, c.expected) \in Outcomes BY DEF OutcomeOf, Outcomes
    <3>3. line \in ReconItem BY <2>1, <3>1, <3>2, CodAssumption DEF ReconItem
    <3>4. recon' = [recon EXCEPT ![c.recon].items[c.ob] = line]
      BY <1>2, <2>1 DEF CodTypeOK, RecordCount, ReconRow
    <3>5. QED BY <3>3, <3>4
  <2>3. recon' \in [Reconciliations -> ReconRow]
    BY <2>1, <2>2 DEF CodTypeOK, ReconRow
  <2>4. QED BY <1>2, <2>3 DEF CodTypeOK, RecordCount
<1>3. QED BY <1>1, <1>2

\* What a completed count does to the rows.
LEMMA CompleteLemma ==
    ASSUME CodTypeOK, NEW r \in Reconciliations, CompleteReconciliation(r)
    PROVE  /\ ob' \in [Obligations -> ObRow]
           /\ \A o \in Obligations :
                /\ ob'[o].custodian = ob[o].custodian
                /\ ob'[o].collected = ob[o].collected /\ ob'[o].remitted = ob[o].remitted
                /\ \/ ob'[o].status = ob[o].status
                   \/ ob[o].status \in InCustody /\ ob'[o].status = "RECONCILED"
<1>1. ASSUME NEW o \in Obligations
      PROVE  recon[r].items[o] \in ReconItem /\ ob[o] \in ObRow
  BY DEF CodTypeOK, ReconRow
<1>2. ob' = [o \in Obligations |->
               IF recon[r].items[o].outcome \in {"NONE", "MISSING"}
               THEN ob[o] ELSE MarkObligationReconciled(o, recon[r].items[o])]
  BY DEF CompleteReconciliation
<1>3. QED BY <1>1, <1>2, ReconciledLemma

LEMMA TypeComplete ==
    ASSUME CodTypeOK, NEW r \in Reconciliations, CompleteReconciliation(r)
    PROVE  CodTypeOK'
<1>1. ob' \in [Obligations -> ObRow] BY CompleteLemma
<1>2. recon' \in [Reconciliations -> ReconRow]
  <2>1. PICK s \in {"COMPLETED_WITH_VARIANCE", "COMPLETED"} :
          recon' = [recon EXCEPT ![r].status = s]
    BY DEF CompleteReconciliation
  <2>2. QED BY <2>1 DEF CodTypeOK, ReconRow
<1>3. QED BY <1>1, <1>2 DEF CodTypeOK, CompleteReconciliation

LEMMA TypeCreate ==
    ASSUME CodTypeOK, NEW m \in Remittances, NEW from \in Branches \cup Franchises,
           NEW b \in Beneficiaries, NEW S \in SUBSET Obligations,
           CreateRemittance(m, from, b, S)
    PROVE  CodTypeOK'
<1>1. AmountsOf(S) \in [Obligations -> Int]
  BY AmountsLemma DEF CodTypeOK
<1>2. remit' \in [Remittances -> RemitRow]
  BY <1>1 DEF CodTypeOK, CreateRemittance, RemitRow, Parties
<1>3. QED BY <1>2 DEF CodTypeOK, CreateRemittance

\* What a confirmation does to the rows.
LEMMA ConfirmLemma ==
    ASSUME CodTypeOK, NEW m \in Remittances, ConfirmRemittance(m)
    PROVE  /\ ob' \in [Obligations -> ObRow]
           /\ \A o \in Obligations :
                /\ ob'[o].collected = ob[o].collected
                /\ o \in remit[m].items
                   /\ ob[o].status \in {"BRANCH_RECEIVED", "FRANCHISE_CONFIRMED", "RECONCILED"} =>
                     /\ ob'[o].status = "REMITTED" /\ ob'[o].custodian = Nil
                     /\ ob'[o].remitted = ob[o].remitted + remit[m].amount[o]
                /\ ~(o \in remit[m].items
                     /\ ob[o].status \in {"BRANCH_RECEIVED", "FRANCHISE_CONFIRMED", "RECONCILED"}) =>
                     ob'[o] = ob[o]
<1>1. ASSUME NEW o \in Obligations
      PROVE  remit[m].amount[o] \in Int /\ ob[o] \in ObRow
  BY DEF CodTypeOK, RemitRow
<1>2. ob' = [o \in Obligations |->
               IF o \in remit[m].items
               THEN MarkObligationRemitted(o, remit[m].amount[o]) ELSE ob[o]]
  BY DEF ConfirmRemittance
<1>3. QED BY <1>1, <1>2, RemittedLemma

LEMMA TypeConfirm ==
    ASSUME CodTypeOK, NEW m \in Remittances, ConfirmRemittance(m)
    PROVE  CodTypeOK'
<1>1. ob' \in [Obligations -> ObRow] BY ConfirmLemma
<1>2. remit' \in [Remittances -> RemitRow]
  BY SMTT(30) DEF CodTypeOK, ConfirmRemittance, RemitRow
<1>3. QED BY <1>1, <1>2 DEF CodTypeOK, ConfirmRemittance

LEMMA TypeStep ==
    ASSUME CodTypeOK, [CodNext]_codVars
    PROVE  CodTypeOK'
<1>1. CASE UNCHANGED codVars
  BY <1>1 DEF CodTypeOK, codVars
<1>2. CASE CodNext
  BY <1>2, TypeObligation, TypeDeclare, TypeAccept, TypeOpenReconciliation, TypeCount,
     TypeComplete, TypeCreate, TypeConfirm DEF CodNext, TransferNext, ReconNext, RemitNext
<1>3. QED BY <1>1, <1>2

\* Every row of the cod tables has a status, a custodian and amounts of the kind
\* the schema allows.
THEOREM CodTypeCorrect == CodSpec => []CodTypeOK
<1>1. CodInit => CodTypeOK BY TypeInit
<1>2. CodTypeOK /\ [CodNext]_codVars => CodTypeOK' BY TypeStep
<1>3. QED BY <1>1, <1>2, PTL DEF CodSpec

-----------------------------------------------------------------------------
(***************************************************************************)
(* The inductive invariant.                                                *)
(***************************************************************************)

LEMMA CodInvInit ==
    ASSUME CodInit
    PROVE  CodInv
<1>1. CustodyMatchesStatus BY DEF CodInit, CustodyMatchesStatus, InCustody
<1>2. TransferInv BY DEF CodInit, TransferInv
<1>3. RemitInv BY DEF CodInit, RemitInv
<1>4. RemittedInFull BY DEF CodInit, RemittedInFull
<1>5. ConfirmedMeansRemitted BY DEF CodInit, ConfirmedMeansRemitted
<1>6. QED BY <1>1, <1>2, <1>3, <1>4, <1>5 DEF CodInv

LEMMA InvOpen ==
    ASSUME CodTypeOK, CodInv, NEW o \in Obligations, OpenObligation(o)
    PROVE  CodInv'
<1>1. /\ ob[o].status = "NONE"
      /\ ob'[o].status = "EXPECTED" /\ ob'[o].custodian = ob[o].custodian
      /\ ob'[o].remitted = ob[o].remitted
      /\ \A x \in Obligations : x # o => ob'[x] = ob[x]
      /\ UNCHANGED <<transfer, remit>>
  BY DEF CodTypeOK, OpenObligation, ObRow
<1>2. CustodyMatchesStatus'
  BY <1>1 DEF CodInv, CustodyMatchesStatus, InCustody, statusForCustodian
<1>3. TransferInv'
  BY <1>1 DEF CodTypeOK, TransferRow, CodInv, TransferInv, InCustody
<1>4. RemitInv'
  BY <1>1 DEF CodTypeOK, RemitRow, CodInv, RemitInv
<1>5. RemittedInFull'
  BY <1>1 DEF CodInv, RemittedInFull
<1>6. ConfirmedMeansRemitted'
  BY <1>1 DEF CodTypeOK, RemitRow, CodInv, ConfirmedMeansRemitted
<1>7. QED BY <1>2, <1>3, <1>4, <1>5, <1>6 DEF CodInv

LEMMA InvCollect ==
    ASSUME CodTypeOK, CodInv, NEW o \in Obligations, NEW a \in Agents, NEW n \in Amounts,
           RecordCollection(o, a, n)
    PROVE  CodInv'
<1>1. /\ ob[o].status = "EXPECTED" /\ a \in Parties
      /\ ob'[o].status = "AGENT_COLLECTED" /\ ob'[o].custodian = a
      /\ ob'[o].remitted = ob[o].remitted
      /\ \A x \in Obligations : x # o => ob'[x] = ob[x]
  BY CollectLemma
<1>2. UNCHANGED <<transfer, remit>>
  BY DEF RecordCollection
<1>3. CustodyMatchesStatus'
  BY <1>1 DEF CodInv, CustodyMatchesStatus, InCustody, statusForCustodian
<1>4. TransferInv'
  BY <1>1, <1>2 DEF CodTypeOK, TransferRow, CodInv, TransferInv, InCustody
<1>5. RemitInv'
  BY <1>1, <1>2 DEF CodTypeOK, RemitRow, CodInv, RemitInv
<1>6. RemittedInFull'
  BY <1>1 DEF CodInv, RemittedInFull
<1>7. ConfirmedMeansRemitted'
  BY <1>1, <1>2 DEF CodTypeOK, RemitRow, CodInv, ConfirmedMeansRemitted
<1>8. QED BY <1>3, <1>4, <1>5, <1>6, <1>7 DEF CodInv

\* Cash that a branch or a franchise holds is the item of an accepted transfer
\* for ever, so the index lets only agents declare.
LEMMA InvDeclare ==
    ASSUME CodTypeOK, CodInv, NEW t \in Transfers, NEW from \in Parties,
           NEW to \in Parties \cup {HeadOffice}, NEW S \in SUBSET Obligations,
           DeclareTransfer(t, from, to, S)
    PROVE  CodInv'
<1>1. UNCHANGED <<ob, remit>>
  BY DEF DeclareTransfer
<1>2. CustodyMatchesStatus' /\ RemitInv' /\ RemittedInFull' /\ ConfirmedMeansRemitted'
  BY <1>1 DEF CodInv, CustodyMatchesStatus, RemitInv, RemittedInFull, ConfirmedMeansRemitted
<1>3. /\ transfer'[t].status = "DECLARED" /\ transfer'[t].from = from
      /\ transfer'[t].to = to /\ from # to
      /\ transfer'[t].items = S /\ transfer[t].items = {}
      /\ \A u \in Transfers : u # t => transfer'[u] = transfer[u]
  BY DEF CodTypeOK, DeclareTransfer, CodInv, TransferInv
<1>4. \A o \in S : /\ ob[o].status = statusForCustodian(from) /\ ob[o].custodian = from
                   /\ \A u \in Transfers : o \notin transfer[u].items
  BY DEF DeclareTransfer, InATransfer
<1>5. from \in Agents
  <2>1. PICK o \in S : TRUE BY DEF DeclareTransfer
  <2>2. ob[o].status \notin {"BRANCH_RECEIVED", "FRANCHISE_CONFIRMED"}
    BY <1>4, <2>1 DEF CodInv, TransferInv
  <2>3. QED BY <1>4, <2>1, <2>2, CodStatusLemma DEF InCustody
<1>6. TransferInv'
  <2>1. \A u, v \in Transfers : u # v => transfer'[u].items \cap transfer'[v].items = {}
    BY <1>3, <1>4 DEF CodInv, TransferInv
  <2>2. ASSUME NEW u \in Transfers
        PROVE  /\ transfer'[u].status = "NONE" => transfer'[u].items = {}
               /\ transfer'[u].status = "DECLARED" =>
                    transfer'[u].from \in Agents /\ transfer'[u].from # transfer'[u].to
               /\ \A o \in transfer'[u].items :
                    /\ ob[o].status \notin {"NONE", "EXPECTED"}
                    /\ transfer'[u].status = "DECLARED" /\ ob[o].status \in InCustody =>
                          ob[o].custodian = transfer'[u].from
    <3>1. CASE u = t
      BY <1>3, <1>4, <1>5, <3>1, CodStatusLemma DEF InCustody
    <3>2. CASE u # t
      BY <1>3, <3>2 DEF CodInv, TransferInv
    <3>3. QED BY <3>1, <3>2
  <2>3. \A o \in Obligations : ob[o].status \in {"BRANCH_RECEIVED", "FRANCHISE_CONFIRMED"} =>
          \E u \in Transfers : o \in transfer'[u].items
    BY <1>3 DEF CodInv, TransferInv
  <2>4. QED BY <1>1, <2>1, <2>2, <2>3 DEF TransferInv
<1>7. QED BY <1>2, <1>6 DEF CodInv

\* The items of a declared transfer that can be accepted are still with the agent
\* who declared it: no remittance and no other transfer has them.
LEMMA InvAccept ==
    ASSUME CodTypeOK, CodInv, NEW t \in Transfers, NEW n \in Counts, AcceptTransfer(t, n)
    PROVE  CodInv'
<1>1. /\ transfer[t].to \in Parties
      /\ \A o \in Obligations :
           /\ ob'[o].collected = ob[o].collected /\ ob'[o].remitted = ob[o].remitted
           /\ o \in transfer[t].items =>
                /\ ob[o].status = statusForCustodian(transfer[t].from)
                /\ ob'[o].status = statusForCustodian(transfer[t].to)
                /\ ob'[o].custodian = transfer[t].to
           /\ o \notin transfer[t].items => ob'[o] = ob[o]
  BY AcceptLemma
<1>2. /\ transfer[t].status = "DECLARED"
      /\ transfer'[t].status = "ACCEPTED" /\ transfer'[t].items = transfer[t].items
      /\ \A u \in Transfers : u # t => transfer'[u] = transfer[u]
      /\ remit' = remit
  BY DEF CodTypeOK, AcceptTransfer, TransferRow
<1>3. transfer[t].from \in Agents
  BY <1>2 DEF CodInv, TransferInv
<1>4. \A o \in transfer[t].items : ob[o].status = "AGENT_COLLECTED"
  BY <1>1, <1>3, CodStatusLemma DEF CodTypeOK, TransferRow, Parties
<1>5. \A o \in transfer[t].items : ob'[o].status \in InCustody
  BY <1>1, CodStatusLemma DEF CodTypeOK, TransferRow
<1>6. CustodyMatchesStatus'
  BY <1>1, <1>5 DEF CodInv, CustodyMatchesStatus, InCustody, statusForCustodian
<1>7. TransferInv'
  <2>1. \A u, v \in Transfers : u # v => transfer'[u].items \cap transfer'[v].items = {}
    BY <1>2 DEF CodInv, TransferInv
  <2>2. ASSUME NEW u \in Transfers
        PROVE  /\ transfer'[u].status = "NONE" => transfer'[u].items = {}
               /\ transfer'[u].status = "DECLARED" =>
                    transfer'[u].from \in Agents /\ transfer'[u].from # transfer'[u].to
               /\ \A o \in transfer'[u].items :
                    /\ ob'[o].status \notin {"NONE", "EXPECTED"}
                    /\ transfer'[u].status = "DECLARED" /\ ob'[o].status \in InCustody =>
                          ob'[o].custodian = transfer'[u].from
    <3>1. CASE u = t
      BY <1>2, <1>5, <3>1 DEF InCustody
    <3>2. CASE u # t
      <4>1. \A o \in transfer[u].items : o \in Obligations /\ o \notin transfer[t].items
        BY <3>2 DEF CodTypeOK, TransferRow, CodInv, TransferInv
      <4>2. QED BY <1>1, <1>2, <3>2, <4>1 DEF CodInv, TransferInv
    <3>3. QED BY <3>1, <3>2
  <2>3. \A o \in Obligations : ob'[o].status \in {"BRANCH_RECEIVED", "FRANCHISE_CONFIRMED"} =>
          \E u \in Transfers : o \in transfer'[u].items
    BY <1>1, <1>2 DEF CodInv, TransferInv
  <2>4. QED BY <2>1, <2>2, <2>3 DEF TransferInv
<1>8. RemitInv'
  BY <1>1, <1>2, <1>4 DEF CodTypeOK, RemitRow, CodInv, RemitInv
<1>9. RemittedInFull'
  BY <1>1, <1>4, <1>5 DEF CodInv, RemittedInFull, InCustody
<1>10. ConfirmedMeansRemitted'
  BY <1>1, <1>2, <1>4 DEF CodTypeOK, RemitRow, CodInv, ConfirmedMeansRemitted
<1>11. QED BY <1>6, <1>7, <1>8, <1>9, <1>10 DEF CodInv

LEMMA InvComplete ==
    ASSUME CodTypeOK, CodInv, NEW r \in Reconciliations, CompleteReconciliation(r)
    PROVE  CodInv'
<1>1. \A o \in Obligations :
        /\ ob'[o].custodian = ob[o].custodian
        /\ ob'[o].collected = ob[o].collected /\ ob'[o].remitted = ob[o].remitted
        /\ \/ ob'[o].status = ob[o].status
           \/ ob[o].status \in InCustody /\ ob'[o].status = "RECONCILED"
  BY CompleteLemma
<1>2. UNCHANGED <<transfer, remit>>
  BY DEF CompleteReconciliation
<1>3. CustodyMatchesStatus'
  BY <1>1 DEF CodInv, CustodyMatchesStatus, InCustody, statusForCustodian
<1>4. TransferInv'
  BY <1>1, <1>2 DEF CodTypeOK, TransferRow, CodInv, TransferInv, InCustody
<1>5. RemitInv'
  BY <1>1, <1>2 DEF CodTypeOK, RemitRow, CodInv, RemitInv, InCustody
<1>6. RemittedInFull'
  BY <1>1 DEF CodInv, RemittedInFull, InCustody
<1>7. ConfirmedMeansRemitted'
  BY <1>1, <1>2 DEF CodTypeOK, RemitRow, CodInv, ConfirmedMeansRemitted, InCustody
<1>8. QED BY <1>3, <1>4, <1>5, <1>6, <1>7 DEF CodInv

\* Opening and filling in a count change only the count sheet.
LEMMA InvCount ==
    ASSUME CodInv, UNCHANGED <<ob, transfer, remit>>
    PROVE  CodInv'
<1>1. CustodyMatchesStatus' /\ TransferInv'
  BY DEF CodInv, CustodyMatchesStatus, TransferInv
<1>2. RemitInv' /\ RemittedInFull' /\ ConfirmedMeansRemitted'
  BY DEF CodInv, RemitInv, RemittedInFull, ConfirmedMeansRemitted
<1>3. QED BY <1>1, <1>2 DEF CodInv

\* Nothing of what may be remitted has been: the amount is all that was collected.
LEMMA InvCreate ==
    ASSUME CodTypeOK, CodInv, NEW m \in Remittances, NEW from \in Branches \cup Franchises,
           NEW b \in Beneficiaries, NEW S \in SUBSET Obligations,
           CreateRemittance(m, from, b, S)
    PROVE  CodInv'
<1>1. UNCHANGED <<ob, transfer>>
  BY DEF CreateRemittance
<1>2. CustodyMatchesStatus' /\ TransferInv' /\ RemittedInFull'
  BY <1>1 DEF CodInv, CustodyMatchesStatus, TransferInv, RemittedInFull
<1>3. /\ remit'[m].status = "INITIATED" /\ remit'[m].items = S
      /\ remit'[m].amount = AmountsOf(S)
      /\ \A k \in Remittances : k # m => remit'[k] = remit[k]
  BY DEF CodTypeOK, CreateRemittance
<1>4. \A o \in S : ob[o].status \in {"BRANCH_RECEIVED", "FRANCHISE_CONFIRMED", "RECONCILED"}
  BY CodAssumption DEF CreateRemittance, statusForCustodian
<1>5. \A o \in S : AmountsOf(S)[o] = ob[o].collected
  <2>1. ASSUME NEW o \in S
        PROVE  AmountsOf(S)[o] = ob[o].collected
    <3>1. AmountsOf(S)[o] = ob[o].collected - ob[o].remitted
      BY AmountsLemma DEF CodTypeOK
    <3>2. ob[o].remitted = 0
      BY <1>4 DEF CodInv, RemittedInFull
    <3>3. ob[o].collected \in Int
      BY DEF CodTypeOK, ObRow
    <3>4. QED BY <3>1, <3>2, <3>3
  <2>2. QED BY <2>1
<1>6. RemitInv'
  BY <1>1, <1>3, <1>4, <1>5 DEF CodInv, RemitInv
<1>7. ConfirmedMeansRemitted'
  BY <1>1, <1>3 DEF CodInv, ConfirmedMeansRemitted
<1>8. QED BY <1>2, <1>6, <1>7 DEF CodInv

LEMMA InvConfirm ==
    ASSUME CodTypeOK, CodInv, NEW m \in Remittances, ConfirmRemittance(m)
    PROVE  CodInv'
<1> DEFINE Remittable == {"BRANCH_RECEIVED", "FRANCHISE_CONFIRMED", "RECONCILED"}
<1>1. \A o \in Obligations :
        /\ ob'[o].collected = ob[o].collected
        /\ o \in remit[m].items /\ ob[o].status \in Remittable =>
             /\ ob'[o].status = "REMITTED" /\ ob'[o].custodian = Nil
             /\ ob'[o].remitted = ob[o].remitted + remit[m].amount[o]
        /\ ~(o \in remit[m].items /\ ob[o].status \in Remittable) => ob'[o] = ob[o]
  BY ConfirmLemma
<1>2. /\ remit[m].status = "INITIATED" /\ transfer' = transfer
      /\ remit'[m].status = "CONFIRMED" /\ remit'[m].items = remit[m].items
      /\ \A k \in Remittances : k # m => remit'[k] = remit[k]
  BY DEF CodTypeOK, ConfirmRemittance, RemitRow
<1>3. \A o \in remit[m].items : /\ o \in Obligations
                                /\ ob[o].status \in Remittable \cup {"REMITTED"}
                                /\ remit[m].amount[o] = ob[o].collected
  BY <1>2 DEF CodTypeOK, RemitRow, CodInv, RemitInv
<1>4. CustodyMatchesStatus'
  BY <1>1 DEF CodInv, CustodyMatchesStatus, InCustody, statusForCustodian
<1>5. TransferInv'
  BY <1>1, <1>2 DEF CodTypeOK, TransferRow, CodInv, TransferInv, InCustody
<1>6. RemitInv'
  BY <1>1, <1>2 DEF CodTypeOK, RemitRow, CodInv, RemitInv
<1>7. RemittedInFull'
  <2>1. ASSUME NEW o \in Obligations
        PROVE  /\ ob'[o].status = "REMITTED" => ob'[o].remitted = ob'[o].collected
               /\ ob'[o].status # "REMITTED" => ob'[o].remitted = 0
    <3>1. CASE o \in remit[m].items /\ ob[o].status \in Remittable
      <4>1. ob[o].remitted = 0 /\ ob[o].collected \in Int
        BY <3>1 DEF CodTypeOK, ObRow, CodInv, RemittedInFull
      <4>2. QED BY <1>1, <1>3, <3>1, <4>1
    <3>2. CASE ~(o \in remit[m].items /\ ob[o].status \in Remittable)
      BY <1>1, <3>2 DEF CodInv, RemittedInFull
    <3>3. QED BY <3>1, <3>2
  <2>2. QED BY <2>1 DEF RemittedInFull
<1>8. ConfirmedMeansRemitted'
  BY <1>1, <1>2, <1>3 DEF CodTypeOK, RemitRow, CodInv, ConfirmedMeansRemitted
<1>9. QED BY <1>4, <1>5, <1>6, <1>7, <1>8 DEF CodInv

LEMMA CodInvStep ==
    ASSUME CodTypeOK, CodInv, [CodNext]_codVars
    PROVE  CodInv'
<1>1. CASE UNCHANGED codVars
  BY <1>1, InvCount DEF codVars
<1>2. CASE CodNext
  <2>1. CASE ReconNext
    BY <2>1, InvCount, InvComplete DEF ReconNext, OpenReconciliation, ReadForCount, RecordCount
  <2>2. CASE CodNext /\ ~ReconNext
    BY <2>2, InvOpen, InvCollect, InvDeclare, InvAccept, InvCreate, InvConfirm
       DEF CodNext, TransferNext, RemitNext
  <2>3. QED BY <1>2, <2>1, <2>2
<1>3. QED BY <1>1, <1>2

\* The rows of the cod tables are well formed and the inductive invariant holds
\* whatever operations run, in whatever order.
THEOREM CodInvariant == CodSpec => [](CodTypeOK /\ CodInv)
<1>1. CodInit => CodTypeOK /\ CodInv BY TypeInit, CodInvInit
<1>2. CodTypeOK /\ CodInv /\ [CodNext]_codVars => (CodTypeOK /\ CodInv)' BY TypeStep, CodInvStep
<1>3. QED BY <1>1, <1>2, PTL DEF CodSpec

\* The custody pointer and the status of an obligation never contradict each other.
THEOREM CustodyCorrect == CodSpec => []CustodyMatchesStatus
<1>1. CodInv => CustodyMatchesStatus BY DEF CodInv
<1>2. QED BY <1>1, CodInvariant, PTL

\* Of an obligation nothing is remitted, or all that was collected, once.
THEOREM RemittedCorrect == CodSpec => []RemittedInFull
<1>1. CodInv => RemittedInFull BY DEF CodInv
<1>2. QED BY <1>1, CodInvariant, PTL

\* The rows that ConfirmRemittance skips had been remitted before.
THEOREM ConfirmedCorrect == CodSpec => []ConfirmedMeansRemitted
<1>1. CodInv => ConfirmedMeansRemitted BY DEF CodInv
<1>2. QED BY <1>1, CodInvariant, PTL

\* An accepted transfer takes cash only from the agent who declared it.
THEOREM HandInFromHolder == CodSpec => TransferFromHolder
<1> DEFINE Taken == \A t \in Transfers :
             transfer[t].status = "DECLARED" /\ transfer'[t].status = "ACCEPTED" =>
                 \A o \in transfer[t].items : ob[o].custodian = transfer[t].from
<1>1. ASSUME CodTypeOK, CodInv, NEW u \in Transfers, NEW n \in Counts, AcceptTransfer(u, n)
      PROVE  Taken
  <2>1. SUFFICES ASSUME NEW t \in Transfers, transfer[t].status = "DECLARED",
                        transfer'[t].status = "ACCEPTED", NEW o \in transfer[t].items
                 PROVE  ob[o].custodian = transfer[t].from
    OBVIOUS
  <2>2. t = u
    BY <1>1, <2>1 DEF CodTypeOK, AcceptTransfer
  <2>3. transfer[t].from \in Agents
    BY <1>1, <2>1 DEF CodInv, TransferInv
  <2>4. ob[o].status \in InCustody
    BY <1>1, <2>2, <2>3, CodStatusLemma DEF AcceptTransfer, StillHeld, Parties
  <2>5. QED BY <1>1, <2>1, <2>4 DEF CodInv, TransferInv
<1>2. ASSUME CodTypeOK, CodInv, NEW u \in Transfers, NEW from \in Parties,
             NEW to \in Parties \cup {HeadOffice}, NEW S \in SUBSET Obligations,
             DeclareTransfer(u, from, to, S)
      PROVE  Taken
  BY <1>2 DEF CodTypeOK, DeclareTransfer
<1>3. ASSUME UNCHANGED transfer
      PROVE  Taken
  BY <1>3
<1>4. ASSUME CodTypeOK, CodInv, [CodNext]_codVars
      PROVE  [Taken]_codVars
  <2>1. CASE TransferNext
    BY <1>1, <1>2, <1>4, <2>1 DEF TransferNext
  <2>2. CASE ~TransferNext
    <3>1. UNCHANGED transfer
      BY <1>4, <2>2 DEF codVars, CodNext, OpenObligation, RecordCollection, ReconNext,
         OpenReconciliation, ReadForCount, RecordCount, CompleteReconciliation, RemitNext,
         CreateRemittance, ConfirmRemittance
    <3>2. QED BY <1>3, <3>1
  <2>3. QED BY <2>1, <2>2
<1>5. QED BY <1>4, CodInvariant, PTL DEF CodSpec, TransferFromHolder

-----------------------------------------------------------------------------
(***************************************************************************)
(* Refinement.  The cash is where the custody pointer says.                *)
(***************************************************************************)

Where == [o \in Obligations |-> WhereOf(ob[o])]
Counted == {o \in Obligations : ob[o].status = "RECONCILED"}

\* A step that keeps status and custodian is not seen by CashChain.
LEMMA StutterLemma ==
    ASSUME \A o \in Obligations : WhereOf(ob'[o]) = WhereOf(ob[o]),
           \A o \in Obligations : ob'[o].status = "RECONCILED" <=> ob[o].status = "RECONCILED"
    PROVE  UNCHANGED <<Where, Counted>>
  BY DEF Where, Counted

LEMMA ChainCollect ==
    ASSUME CodTypeOK, NEW o \in Obligations, NEW a \in Agents, NEW n \in Amounts,
           RecordCollection(o, a, n)
    PROVE  Chain!Collect(o)
<1>1. /\ ob[o].status = "EXPECTED"
      /\ ob'[o].status = "AGENT_COLLECTED" /\ ob'[o].custodian = a
      /\ \A x \in Obligations : x # o => ob'[x] = ob[x]
  BY CollectLemma
<1>2. Where[o] = "consignee" BY <1>1 DEF Where, WhereOf
<1>3. Where' = [Where EXCEPT ![o] = a] BY <1>1 DEF Where, WhereOf
<1>4. Counted' = Counted BY <1>1 DEF Counted
<1>5. QED BY <1>2, <1>3, <1>4 DEF Chain!Collect, Where, Counted

LEMMA ChainAccept ==
    ASSUME CodTypeOK, CodInv, NEW t \in Transfers, NEW n \in Counts, AcceptTransfer(t, n)
    PROVE  Chain!HandOver
<1> DEFINE S == transfer[t].items  giver == transfer[t].from  taker == transfer[t].to
<1>1. /\ taker \in Parties
      /\ \A o \in Obligations :
           /\ o \in S => /\ ob[o].status = statusForCustodian(giver)
                         /\ ob'[o].status = statusForCustodian(taker)
                         /\ ob'[o].custodian = taker
           /\ o \notin S => ob'[o] = ob[o]
  BY AcceptLemma
<1>2. giver \in Agents /\ giver # taker /\ S \in SUBSET Obligations
  BY DEF CodTypeOK, TransferRow, AcceptTransfer, CodInv, TransferInv
<1>3. \A o \in S : ob[o].status \in InCustody /\ ob'[o].status \in InCustody
  BY <1>1, <1>2, CodStatusLemma DEF Parties
<1>4. \A o \in S : ob[o].custodian = giver
  BY <1>2, <1>3 DEF AcceptTransfer, CodInv, TransferInv
<1>5. \A o \in S : Where[o] = giver /\ o \notin Counted
  BY <1>2, <1>3, <1>4 DEF Where, WhereOf, Counted, InCustody
<1>6. Where' = [o \in Obligations |-> IF o \in S THEN taker ELSE Where[o]]
  BY <1>1, <1>3 DEF Where, WhereOf, InCustody
<1>7. Counted' = Counted
  BY <1>1, <1>3 DEF Counted, InCustody
<1> HIDE DEF S, giver, taker
<1>8. giver \in Chain!Parties /\ taker \in Chain!Parties
  BY <1>1, <1>2 DEF Chain!Parties, Parties
<1>9. QED
  BY <1>2, <1>5, <1>6, <1>7, <1>8, ZenonT(60) DEF Chain!HandOver, Where, Counted

LEMMA ChainComplete ==
    ASSUME CodTypeOK, CodInv, NEW r \in Reconciliations, CompleteReconciliation(r)
    PROVE  Chain!Count
<1> DEFINE S == {o \in Obligations : ob[o].status \in InCustody /\ ob'[o].status = "RECONCILED"}
<1>1. \A o \in Obligations :
        /\ ob'[o].custodian = ob[o].custodian
        /\ \/ ob'[o].status = ob[o].status
           \/ ob[o].status \in InCustody /\ ob'[o].status = "RECONCILED"
  BY CompleteLemma
<1>2. \A o \in S : Where[o] \in Chain!Parties
  BY DEF Where, WhereOf, InCustody, CodInv, CustodyMatchesStatus, Parties, Chain!Parties
<1>3. Where' = Where
  BY <1>1 DEF Where, WhereOf, InCustody
<1>4. Counted' = Counted \cup S
  BY <1>1 DEF Counted, InCustody
<1>5. S \in SUBSET Obligations
  OBVIOUS
<1> HIDE DEF S
<1>6. QED BY <1>2, <1>3, <1>4, <1>5 DEF Chain!Count, Where, Counted

LEMMA ChainConfirm ==
    ASSUME CodTypeOK, CodInv, NEW m \in Remittances, ConfirmRemittance(m)
    PROVE  Chain!Bank
<1> DEFINE Remittable == {"BRANCH_RECEIVED", "FRANCHISE_CONFIRMED", "RECONCILED"}
           S == {o \in Obligations : o \in remit[m].items /\ ob[o].status \in Remittable}
<1>1. \A o \in Obligations :
        /\ o \in S => ob'[o].status = "REMITTED"
        /\ o \notin S => ob'[o] = ob[o]
  BY ConfirmLemma
<1>2. \A o \in S : \/ Where[o] \in Branches \cup Franchises
                   \/ Where[o] \in Agents /\ o \in Counted
  <2>1. ASSUME NEW o \in S
        PROVE  \/ Where[o] \in Branches \cup Franchises
               \/ Where[o] \in Agents /\ o \in Counted
    <3>1. Where[o] = ob[o].custodian /\ ob[o].custodian \in Parties
      BY DEF Where, WhereOf, CodInv, CustodyMatchesStatus, InCustody
    <3>2. CASE ob[o].status = "RECONCILED"
      BY <3>1, <3>2 DEF Counted, Parties
    <3>3. CASE ob[o].status \in {"BRANCH_RECEIVED", "FRANCHISE_CONFIRMED"}
      <4>1. ob[o].status = statusForCustodian(ob[o].custodian)
        BY <3>3 DEF CodInv, CustodyMatchesStatus, InCustody
      <4>2. QED BY <3>1, <3>3, <4>1, CodStatusLemma DEF InCustody
    <3>4. QED BY <3>2, <3>3
  <2>2. QED BY <2>1
<1>3. Where' = [o \in Obligations |-> IF o \in S THEN "banked" ELSE Where[o]]
  BY <1>1 DEF Where, WhereOf
<1>4. Counted' = Counted \ S
  BY <1>1 DEF Counted
<1>5. S \in SUBSET Obligations
  OBVIOUS
<1> HIDE DEF S
<1>6. QED BY <1>2, <1>3, <1>4, <1>5 DEF Chain!Bank, Where, Counted

LEMMA ChainStep ==
    ASSUME CodTypeOK, CodInv, [CodNext]_codVars
    PROVE  [Chain!Next]_<<Where, Counted>>
<1>1. CASE \E o \in Obligations : OpenObligation(o)
  <2>1. PICK o \in Obligations : OpenObligation(o) BY <1>1
  <2>2. /\ ob[o].status = "NONE" /\ ob'[o].status = "EXPECTED"
        /\ \A x \in Obligations : x # o => ob'[x] = ob[x]
    BY <2>1 DEF CodTypeOK, OpenObligation, ObRow
  <2>3. QED BY <2>2, StutterLemma DEF WhereOf
<1>2. CASE UNCHANGED ob
  BY <1>2, StutterLemma
<1>3. CASE \E o \in Obligations, a \in Agents, n \in Amounts : RecordCollection(o, a, n)
  BY <1>3, ChainCollect DEF Chain!Next
<1>4. CASE \E t \in Transfers, n \in Counts : AcceptTransfer(t, n)
  BY <1>4, ChainAccept DEF Chain!Next
<1>5. CASE \E r \in Reconciliations : CompleteReconciliation(r)
  BY <1>5, ChainComplete DEF Chain!Next
<1>6. CASE \E m \in Remittances : ConfirmRemittance(m)
  BY <1>6, ChainConfirm DEF Chain!Next
<1>7. QED
  BY <1>1, <1>2, <1>3, <1>4, <1>5, <1>6 DEF codVars, CodNext, TransferNext, ReconNext, RemitNext,
     DeclareTransfer, OpenReconciliation, ReadForCount, RecordCount, CreateRemittance

\* Every behaviour of the cod operations is a behaviour of CashChain: the cash of
\* a parcel is in one place and is banked once.
THEOREM CodImplementsCashChain == CodSpec => CashSpec
<1>1. CodInit => Chain!Init
  <2>1. ASSUME CodInit
        PROVE  Where = [o \in Obligations |-> "consignee"] /\ Counted = {}
    BY <2>1 DEF CodInit, Where, Counted, WhereOf
  <2>2. QED BY <2>1 DEF Chain!Init, Where, Counted
<1>2. CodTypeOK /\ CodInv /\ [CodNext]_codVars => [Chain!Next]_<<Where, Counted>>
  BY ChainStep
<1>3. QED
  BY <1>1, <1>2, CodInvariant, PTL DEF CodSpec, CashSpec, Chain!Spec, Where, Counted

=============================================================================
