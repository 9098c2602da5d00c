---------------------------- MODULE MCFrontDoor -----------------------------
(***************************************************************************)
(* Two parcels of one shipper.  The first is insured and on the credit of  *)
(* another account, the second is prepaid (or on the same credit) with a   *)
(* paper waybill whose number looks like the first one's, taken in at a    *)
(* desk that is not the origin branch.                                     *)
(***************************************************************************)
EXTENDS FrontDoor, TLC

CONSTANTS s1, s2, c1, c2, Branch, Desk

FromBranch == [s \in Shipments |-> [originBranch |-> Branch, originHub |-> Nil,
                                    destHub |-> Nil, destBranch |-> Nil]]

Order(mode, payer, insured, manual, customs, unit) ==
    [cust |-> c1, unit |-> unit, payer |-> payer, mode |-> mode, total |-> 2, ref |-> Nil,
     manual |-> manual, insured |-> insured, customs |-> customs]

\* Two lines of goods; with a unit value of 2 they exceed a limit of 5.
Goods(unit) == [lines |-> <<[qty |-> 2, unit |-> 1], [qty |-> 2, unit |-> unit]>>,
                discount |-> 0, freight |-> 1, other |-> 0]

TwoOrders ==
    [s \in Shipments |->
        IF s = s1 THEN {Order("CREDIT", c2, TRUE, Nil, Nil, Nil)}
                  ELSE {Order("CREDIT", c2, FALSE, Nil, Goods(2), Nil),
                        Order("CREDIT", c2, FALSE, Nil, Goods(1), Nil),
                        Order("PREPAID", "SHIPPER", FALSE, 1, Nil, Desk)}]

NoLanes == {}

\* No operation tells two requests, assignments or editors apart.
Symmetric == Permutations(Requests) \cup Permutations(Assignments) \cup Permutations(Editors)

\* Collections read of the office's work only that a parcel is booked, and the
\* office reads of the collections only that it has left BOOKED: a behaviour with
\* collections has both parcels booked first, the second one prepaid, no gap in
\* the numbers, no change by the office but cancellation of the first parcel, and
\* its run planned.  The second parcel goes with the first.  The desk collects
\* nothing, and only what was booked there is handed in there.  A device reports the
\* first visit, and again; the visits after it come without a device.
Collecting == \E r \in Requests : preq[r].status # "NONE" \/ seen[r] # NotRead

Untouched ==
    /\ admin = 0 /\ tariff = 1 /\ cust[c1].kind = "RETAIL" /\ book[s2].mode # "CREDIT"
    /\ form = [u \in Editors |-> Nil]
    /\ awbSeq = Cardinality(Shipments) /\ \A k \in Runs : prun[k].agent # Nil
    /\ \A s \in Shipments : Booked(s) /\ book[s].corrections = << >>
    /\ ship[s2].status # "CANCELLED"
    /\ \A r \in Requests : s2 \in DOMAIN seen[r] => s1 \in DOMAIN seen[r]
    /\ Cardinality(visit) <= MaxVisits
    /\ visit # {} => \E v \in visit : v.event # Nil

\* Nor do corrections, the accounts and the tariff read each other: forms are
\* open only where no account or tariff has been changed and one booking made.
MCNext ==
    /\ Next
    /\ (\E u \in Editors : form'[u] # Nil) => /\ admin' = 0 /\ tariff' = 1 /\ awbSeq' = 1
                                             /\ prep' = [s \in Shipments |-> Nil]
    /\ Collecting' => Untouched'
    /\ \A r \in Requests : preq'[r].branch # Desk
    /\ \A s \in Shipments : ship'[s].unit = Desk => ship'[s].status = "BOOKED" \/ book'[s].unit = Desk
    /\ prun' # prun => \A s \in Shipments : Booked(s) /\ book[s].corrections = << >>

MCSpec == Init /\ [][MCNext]_vars

=============================================================================
