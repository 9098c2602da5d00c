----------------------------- MODULE FrontDoor ------------------------------
(***************************************************************************)
(* Where a shipment begins: the customer's account and credit, the booking *)
(* and its corrections, the collection from the customer's premises, and   *)
(* the counter that may receive the parcel before the agent comes.  All of *)
(* them write the same shipment row.                                       *)
(***************************************************************************)
EXTENDS Pickup, Booking, Functions

CONSTANTS
    MaxAdmin,       \* bound: changes an administrator makes to accounts
    CreditChanges,  \* bound: the credit standings an administrator may set
    StatusChanges   \* bound: the account statuses an administrator may set

ASSUME CreditChangesAssumption == CreditChanges \subseteq CreditStatuses

VARIABLE admin         \* counts them

bookVars == <<cust, credit, entries, awbSeq, tariff, offer, prep, book, form>>
pickupVars == <<preq, seen, link, asg, prun, visit>>
vars == <<ship, bookVars, pickupVars, admin>>

Init == BookingInit /\ PickupInit /\ admin = 0

\* Accounts.
Account(c) ==
    /\ \/ \E kind \in {"RETAIL", "BUSINESS"}, limit \in Limits : create(c, kind, limit)
       \/ /\ admin < MaxAdmin
          /\ \/ \E to \in StatusChanges : setStatus(c, to)
             \/ \E limit \in Limits, status \in CreditChanges : setCredit(c, limit, status)
             \/ \E expected \in 1 .. cust[c].version : update(c, expected)
    /\ admin' = IF cust[c].status = "NONE" THEN admin ELSE admin + 1
    /\ UNCHANGED <<ship, awbSeq, tariff, offer, prep, book, form, pickupVars>>

\* Bookings.
Book(s) ==
    /\ \/ \E o \in Orders[s] : Preview(s, o) \/ Prepare(s, o) \/ PrepareExhausted(s, o)
       \/ Commit(s) \/ Abandon(s) \/ Cancelled(s)
    /\ UNCHANGED <<pickupVars, admin>>

Edit(u) ==
    /\ \/ \E s \in Shipments : Open(u, s)
       \/ \E ref \in {o.ref : o \in UNION {Orders[s] : s \in Shipments}} : Correct(u, ref)
       \/ Close(u)
    /\ UNCHANGED <<pickupVars, admin>>

Price == NewTariff /\ UNCHANGED <<pickupVars, admin>>

\* Collections, from the parcels that are booked.
Collect ==
    /\ \/ \E r \in Requests :
             \/ \E S \in SUBSET {s \in Shipments : Booked(s)} : loadLinkableShipments(r, S)
             \/ \E type \in PickupTypes, at \in Units : Create(r, type, at)
             \/ CreateRefused(r)
             \/ \E a \in Assignments, u \in Users, k \in Runs \cup {Nil} :
                   Assign(r, a, u, k, IF k = Nil THEN 0 ELSE 1)
             \/ \E outcome \in Outcomes, C \in SUBSET Pending(r), u \in Users,
                   e \in Events \cup {Nil} :
                   (outcome \notin {"COMPLETED", "PARTIAL"} => C = {})
                   /\ Complete(r, outcome, C, u, e)
             \/ Cancel(r)
       \/ \E a \in Assignments :
             \/ \E accept \in BOOLEAN : Respond(a, accept)
             \/ Arrive(a)
       \/ \E k \in Runs, u \in Users : CreateRun(k, u)
    /\ UNCHANGED <<bookVars, admin>>

\* The counter receives a parcel the customer brought.
Counter(s, at) ==
    /\ Booked(s) /\ ship[s].status \in {"BOOKED", "PICKUP_SCHEDULED", "PICKUP_ASSIGNED",
                                        "PICKED_UP"}
    /\ Receive(s, at, FALSE)
    /\ UNCHANGED <<bookVars, pickupVars, admin>>

Next ==
    \/ \E c \in Customers : Account(c)
    \/ \E s \in Shipments : Book(s) \/ \E at \in Units : Counter(s, at)
    \/ \E u \in Editors : Edit(u)
    \/ Price
    \/ Collect

Spec == Init /\ [][Next]_vars

-----------------------------------------------------------------------------
\* Every variable has its type.
TypeOK ==
    /\ ship \in [Shipments -> Row]
    /\ cust \in [Customers -> CustomerRow] /\ credit \in [Customers -> CreditRow]
    /\ awbSeq \in 0 .. (MaxAWB + 1) /\ tariff \in 1 .. MaxTariffs
    /\ offer \in [Shipments -> {Nil} \cup (1 .. MaxTariffs)]
    /\ \A s \in Shipments : Len(book[s].corrections) <= MaxEdits
    /\ preq \in [Requests -> RequestRow] /\ asg \in [Assignments -> AssignmentRow]
    /\ link \in [Requests -> [Shipments -> LinkStatuses]]
    /\ prun \in [Runs -> RunRow] /\ visit \subseteq AttemptRow

\* What a customer has used of the credit is what the live credit bookings it
\* pays for cost, and the history adds up to it: ReserveCredit and ReleaseCredit
\* meet the same payer, and an administrator's change of the limit keeps it.
CreditBacked ==
    \A c \in Customers :
        LET live == {s \in Shipments : /\ Booked(s) /\ ship[s].status # "CANCELLED"
                                       /\ book[s].mode = "CREDIT" /\ book[s].commercial.payer = c}
            mine == {e \in entries : e.cust = c}
        IN  /\ credit[c].used = SumFunction([s \in live |-> book[s].total])
            /\ credit[c].used = SumFunction([e \in mine |-> e.amount])

\* A correction is saved only by an editor who had seen every earlier one.
NoLostCorrection ==
    [][\A s \in Shipments :
          Len(book'[s].corrections) > Len(book[s].corrections) =>
              \E u \in Editors : /\ form[u] # Nil /\ form[u].ship = s
                                 /\ form[u].text = book[s].corrections
                                 /\ form'[u] = Nil]_vars

\* A parcel is collected on one request, and a collected parcel has left the
\* customer's hands: it is not waiting, and it was not cancelled.
CollectedOnce ==
    \A s \in Shipments :
        LET on == {r \in Requests : link[r][s] = "PICKED_UP"}
        IN  /\ Cardinality(on) <= 1
            /\ on # {} => ship[s].status \notin {"BOOKED", "PICKUP_SCHEDULED",
                                                 "PICKUP_ASSIGNED", "CANCELLED"}

\* "Database uniqueness keeps public lookup unambiguous" (awb.go).
LookupUnambiguous ==
    \A s \in Shipments : Booked(s) =>
        Cardinality(GetPublicTrackingShipment(book[s].awb)) = 1

=============================================================================
