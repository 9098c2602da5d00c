------------------------------- MODULE Bagging ------------------------------
(***************************************************************************)
(* Bags (internal/bagging): opened at a facility, filled parcel by parcel, *)
(* closed with a frozen declaration of the contents, dispatched, received  *)
(* and opened at the destination.  Each operation is one transaction that  *)
(* locks the bag row and then the shipment rows.                           *)
(*                                                                         *)
(* Left out: seals, weights, the courier-service restriction, bag events.  *)
(***************************************************************************)
EXTENDS Shipment

CONSTANT MaxShipments   \* bags.max_shipments, the capacity of a bag

ASSUME MaxShipmentsAssumption == MaxShipments \in Nat

VARIABLES bag,     \* bag[b]: status, ends, direction, declared contents
          item     \* item[b][s]: the bag_items row, "NONE" when there is none

BagStatuses == {"NONE", "OPEN", "CLOSED", "DISPATCHED", "RECEIVED", "OPENED",
                "RECONCILED"}

BagRow == [status : BagStatuses, from : Leg, to : Leg, dir : Directions,
           declared : SUBSET Shipments]

ItemStatuses == {"NONE", "IN_BAG", "REMOVED"}

\* What ListBagItemShipmentIDs returns: the rows still IN_BAG.
InBag(b) == {s \in Shipments : item[b][s] = "IN_BAG"}

BagInit ==
    /\ bag = [b \in Bags |-> [status |-> "NONE", from |-> Nil, to |-> Nil,
                              dir |-> "FORWARD", declared |-> {}]]
    /\ item = [b \in Bags |-> [s \in Shipments |-> "NONE"]]

-----------------------------------------------------------------------------
(***************************************************************************)
(* The statements.  A status is changed by compare-and-swap.               *)
(***************************************************************************)
InsertBag(b, from, to, dir) ==
    /\ bag[b].status = "NONE"
    /\ bag' = [bag EXCEPT ![b] = [@ EXCEPT !.status = "OPEN", !.from = from,
                                           !.to = to, !.dir = dir]]

LockBagForUpdate(b) == bag[b]

UpdateBagStatus(b, expected, to) ==
    /\ bag[b].status = expected
    /\ bag' = [bag EXCEPT ![b].status = to]

\* Declared is the content snapshot.
CloseBagRow(b, declared) ==
    /\ bag[b].status = "OPEN"
    /\ bag' = [bag EXCEPT ![b] = [@ EXCEPT !.status = "CLOSED", !.declared = declared]]

GetActiveBagItemForShipment(s) == {c \in Bags : item[c][s] = "IN_BAG"}

AddBagItem(b, s) == item' = [item EXCEPT ![b][s] = "IN_BAG"]

RemoveBagItem(b, s) ==
    /\ item[b][s] = "IN_BAG"
    /\ item' = [item EXCEPT ![b][s] = "REMOVED"]

\* shipment_count, once one more is in.
RecalculateBagCounters(b) == Cardinality(InBag(b)) + 1

-----------------------------------------------------------------------------
CreateBag(b, from, to, dir) ==
    /\ from # to
    /\ InsertBag(b, from, to, dir)
    /\ UNCHANGED <<ship, item>>

\* The bag's destination must be a point of the parcel's route.
destinationOnPath(s, unit) ==
    IF ship[s].dir = "REVERSE"
    THEN unit \in {Route[s].originBranch, Route[s].originHub, Route[s].destHub}
    ELSE unit \in {Route[s].originHub, Route[s].destHub, Route[s].destBranch}

checkCompatibility(b, s) ==
    /\ LockShipmentByIDForUpdate(s).status \in {"ORIGIN_BRANCH_RECEIVED", "TRANSIT_HUB_RECEIVED",
             "DESTINATION_HUB_RECEIVED", "RTO_IN_TRANSIT", "RTO_INITIATED"}
    /\ ship[s].unit = bag[b].from
    /\ ~ship[s].held
    /\ ship[s].dir = bag[b].dir
    /\ destinationOnPath(s, bag[b].to)

\* bag_items_active_membership_idx, and bag_items_unique: a parcel taken out
\* of a bag cannot go back into it.
MembershipFree(b, s) ==
    /\ item[b][s] = "NONE"
    /\ GetActiveBagItemForShipment(s) = {}

\* A forward parcel becomes ORIGIN_BAGGED; a returning one keeps its status.
addOne(b, s) ==
    LET q == Request("ORIGIN_BAGGED", bag[b].from) IN
    /\ LockBagForUpdate(b).status = "OPEN"
    /\ checkCompatibility(b, s)
    /\ MembershipFree(b, s)
    /\ RecalculateBagCounters(b) <= MaxShipments
    /\ IF ship[s].dir = "FORWARD"
       THEN /\ CanApply(s, ship[s], q)
            /\ ship' = [ship EXCEPT ![s] = [Moved(ship[s], q) EXCEPT !.bag = b]]
       ELSE ship' = [ship EXCEPT ![s] = SetShipmentCustody(@, @.unit, @.user, b, @.trip)]
    /\ AddBagItem(b, s)
    /\ UNCHANGED bag

\* Back onto the floor, while the bag is open.
RemoveItem(b, s) ==
    LET q == [Request("ORIGIN_BRANCH_RECEIVED", bag[b].from) EXCEPT !.reason = TRUE] IN
    /\ LockBagForUpdate(b).status = "OPEN"
    /\ IF ship[s].status = "ORIGIN_BAGGED"
       THEN /\ CanApply(s, ship[s], q)
            /\ ship' = [ship EXCEPT ![s] = [Moved(ship[s], q) EXCEPT !.bag = Nil]]
       ELSE ship' = [ship EXCEPT ![s] = SetShipmentCustody(@, @.unit, @.user, Nil, @.trip)]
    /\ RemoveBagItem(b, s)
    /\ UNCHANGED bag

\* Mutant: closed without the snapshot.
CloseUndeclared(b) ==
    /\ bag[b].status = "OPEN"
    /\ InBag(b) # {}
    /\ bag' = [bag EXCEPT ![b].status = "CLOSED"]
    /\ UNCHANGED <<ship, item>>

\* Freeze the contents: the declaration is what is in the bag now.
CloseBag(b) ==
    /\ InBag(b) # {}
    /\ CloseBagRow(b, InBag(b))
    /\ UNCHANGED <<ship, item>>

\* moveContents: parcels that cannot be dispatched from where they are in the
\* lifecycle are passed over; any other refusal undoes the whole dispatch.
DispatchBag(b) ==
    LET q == Request("ORIGIN_DISPATCHED", bag[b].from)
        moving == {s \in InBag(b) : Find(ship[s].status, q.to)}
    IN  /\ UpdateBagStatus(b, "CLOSED", "DISPATCHED")
        /\ \A s \in moving : CanApply(s, ship[s], q)
        /\ ship' = [s \in Shipments |-> IF s \in moving THEN Moved(ship[s], q) ELSE ship[s]]
        /\ UNCHANGED item

\* Receipt and opening, at the bag's destination only; no parcel moves.
ReceiveBag(b, at) ==
    /\ at = bag[b].to
    /\ UpdateBagStatus(b, "DISPATCHED", "RECEIVED")
    /\ UNCHANGED <<ship, item>>

OpenAtDestination(b, at) ==
    /\ at = bag[b].to
    /\ UpdateBagStatus(b, "RECEIVED", "OPENED")
    /\ UNCHANGED <<ship, item>>

\* The post-closure exception: the row goes, the declaration and the parcel's
\* own row do not change.
Correct(b, s) ==
    /\ LockBagForUpdate(b).status \notin {"NONE", "OPEN"}
    /\ RemoveBagItem(b, s)
    /\ UNCHANGED <<ship, bag>>

BagNext ==
    \E b \in Bags :
        \/ \E l \in Lanes, dir \in Directions : CreateBag(b, l[1], l[2], dir)
        \/ \E s \in Shipments :
              \/ addOne(b, s)
              \/ RemoveItem(b, s)
              \/ Correct(b, s)
        \/ CloseBag(b)
        \/ DispatchBag(b)
        \/ \E at \in Units : ReceiveBag(b, at) \/ OpenAtDestination(b, at)

=============================================================================
