----------------------------- MODULE MCAccounts -----------------------------
(***************************************************************************)
(* What the organization settles with a franchise (Settlement) and bills a *)
(* customer (Billing).  They share the journal, in which each reads its    *)
(* own accounts: a behaviour works on one of them.                         *)
(*                                                                         *)
(* Settlement: a commission of 2 on day 1, a counter collection of 1 on    *)
(* day 2, cash of 1 held since day 1, and statements for day 1, for day 2  *)
(* and for both days.                                                      *)
(*                                                                         *)
(* Billing: two shipments of 2 with a tax of one half, so that one invoice *)
(* comes to 3 or 6; two clerks, one payer reference, two notes.            *)
(***************************************************************************)
EXTENDS Settlement, Billing, TLC

CONSTANTS e1, x1, o1, a1, s1, s2, c1, c2, k1, k2

VARIABLE part

Pays2 == [e \in Earnings |-> 2]
Day1 == [e \in Earnings |-> 1]
Took1 == [x \in Collections |-> 1]
Day2 == [x \in Collections |-> 2]
Holds1 == [o \in Holdings |-> 1]
OnDay1 == [o \in Holdings |-> 1]
DailyOrBoth == {[start |-> 1, end |-> 1], [start |-> 2, end |-> 2], [start |-> 1, end |-> 2]}
Credits == {1}

\* At most one cancellation is under way; the cash held changes while the first
\* statement is being drawn up, in behaviours without a correction, which are
\* raised against the first statement.
SettlementOnly ==
    /\ SettlementNext /\ UNCHANGED <<inv, seq, payments, note, asked>>
    /\ Cardinality({t \in Statements : cancel'[t].on}) <= 1
    /\ cash' # cash =>
          /\ \A a \in Adjustments : adj[a].status = "NONE"
          /\ stl[1].status \in {"NONE", "CALCULATED"} /\ stl[2].status = "NONE"
    /\ adj' # adj => cash = {} /\ \A a \in Adjustments : adj'[a].stl \in {1, Nil}

-----------------------------------------------------------------------------
Two == [s \in Shipments |-> 2]
FirstOrBoth == {{s1}, {s1, s2}}

\* Only the numbering reads a year: a second one is used where nothing is paid
\* or credited.
BillingOnly ==
    /\ BillingNext /\ UNCHANGED <<calc, stl, coll, cash, adj, cancel>>
    /\ (\E i \in Invoices : inv'[i].year = 2027) =>
          /\ payments' = {} /\ \A c \in Clerks : asked'[c].op # "pay"
          /\ \A k \in Notes : note'[k] = NoNote

\* No operation tells two clerks or two notes apart.
Symmetric == Permutations(Clerks) \cup Permutations(Notes)

-----------------------------------------------------------------------------
MCInit == SettlementInit /\ BillingInit /\ part \in {"settlement", "billing"}

MCNext ==
    /\ UNCHANGED part
    /\ \/ part = "settlement" /\ SettlementOnly
       \/ part = "billing" /\ BillingOnly

MCSpec == MCInit /\ [][MCNext]_<<settlementVars, billingVars, part>>

=============================================================================
