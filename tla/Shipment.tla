------------------------------ MODULE Shipment ------------------------------
(***************************************************************************)
(* The shipment row and the transition engine (internal/shipment).         *)
(*                                                                         *)
(* Every operational module changes a parcel through one function,         *)
(* Transitioner.Apply: it looks the change up in a fixed table, checks the *)
(* reason, the hold and the custody rule, and writes the row with a        *)
(* compare-and-swap under a row lock, so one Apply is one atomic step.     *)
(* This module has the table, the checks and the row; the modules that     *)
(* extend it (Scanning, Bagging, Manifest, Linehaul) have the operations.  *)
(*                                                                         *)
(* Left out: the permission a change needs (who may ask does not change    *)
(* what happens), the append-only event and audit rows.                    *)
(***************************************************************************)
EXTENDS Naturals, FiniteSets

CONSTANTS
    Shipments,     \* parcels
    Units,         \* operating units: branches and hubs
    Users,         \* delivery agents
    Bags,          \* bags that may be opened
    Manifests,     \* manifests that may be created
    Trips,         \* trips that may be planned
    Nil,           \* the null of a nullable column
    Route,         \* Route[s]: the facilities routing resolved for s at booking
    BookingUnits,  \* where a parcel may be booked: a counter, or Nil
    Lanes,         \* bound: the <<from, to>> pairs bags, manifests and trips run
    Overrides      \* bound: whether scans ask for the privileged custody override

Leg == Units \cup {Nil}

ASSUME RouteAssumption ==
    Route \in [Shipments -> [originBranch : Leg, originHub : Leg,
                             destHub : Leg, destBranch : Leg]]

ASSUME BookingAssumption == BookingUnits \subseteq Leg

ASSUME LanesAssumption == Lanes \subseteq Units \X Units /\ Overrides \subseteq BOOLEAN

VARIABLE ship      \* ship[s]: the columns of the shipments row that move

Statuses ==
    {"BOOKED", "PICKUP_SCHEDULED", "PICKUP_ASSIGNED", "PICKED_UP",
     "ORIGIN_BRANCH_RECEIVED", "ORIGIN_BAGGED", "ORIGIN_DISPATCHED",
     "IN_TRANSIT", "TRANSIT_HUB_RECEIVED", "TRANSIT_HUB_DISPATCHED",
     "DESTINATION_HUB_RECEIVED", "DESTINATION_BRANCH_RECEIVED",
     "OUT_FOR_DELIVERY", "DELIVERED", "DELIVERY_FAILED", "NDR",
     "RTO_INITIATED", "RTO_IN_TRANSIT", "RTO_DELIVERED", "CANCELLED",
     "LOST", "DAMAGED"}

Directions == {"FORWARD", "REVERSE"}

\* Null is no identifier, no status and no direction.
ASSUME NilAssumption ==
    Nil \notin Units \cup Users \cup Bags \cup Manifests \cup Trips \cup Statuses
             \cup Directions

terminalStatuses == {"DELIVERED", "RTO_DELIVERED", "CANCELLED", "LOST"}

\* status, direction, hold flag, and who or what has the parcel.
Row == [status : Statuses, dir : Directions, held : BOOLEAN, unit : Leg,
        user : Users \cup {Nil}, bag : Bags \cup {Nil}, trip : Trips \cup {Nil}]

-----------------------------------------------------------------------------
(***************************************************************************)
(* The transition table, one set of <<from, to>> pairs per custody rule.   *)
(***************************************************************************)

\* The actor's facility does not matter.
CustodyNone ==
    ({"BOOKED", "PICKUP_SCHEDULED", "PICKUP_ASSIGNED"} \X {"CANCELLED"})
    \cup {<<"BOOKED", "PICKUP_SCHEDULED">>,
          <<"PICKUP_SCHEDULED", "PICKUP_ASSIGNED">>,
          <<"PICKUP_ASSIGNED", "PICKUP_SCHEDULED">>,
          <<"PICKUP_ASSIGNED", "PICKED_UP">>,
          <<"PICKUP_ASSIGNED", "BOOKED">>}
    \cup ({"ORIGIN_DISPATCHED", "TRANSIT_HUB_DISPATCHED"} \X {"IN_TRANSIT"})
    \cup {<<"DELIVERY_FAILED", "NDR">>, <<"NDR", "DESTINATION_BRANCH_RECEIVED">>}
    \cup ({"NDR", "DELIVERY_FAILED", "DESTINATION_BRANCH_RECEIVED", "DAMAGED"}
          \X {"RTO_INITIATED"})
    \cup {<<"RTO_INITIATED", "RTO_IN_TRANSIT">>}
    \cup ({"PICKED_UP", "ORIGIN_BRANCH_RECEIVED", "ORIGIN_BAGGED",
           "ORIGIN_DISPATCHED", "IN_TRANSIT", "TRANSIT_HUB_RECEIVED",
           "TRANSIT_HUB_DISPATCHED", "DESTINATION_HUB_RECEIVED",
           "DESTINATION_BRANCH_RECEIVED", "OUT_FOR_DELIVERY",
           "RTO_IN_TRANSIT"} \X {"LOST"})
    \cup ({"IN_TRANSIT", "OUT_FOR_DELIVERY"} \X {"DAMAGED"})

\* The actor's facility holds the parcel.
CustodyHolder ==
    {<<"ORIGIN_BRANCH_RECEIVED", "ORIGIN_BAGGED">>,
     <<"ORIGIN_BAGGED", "ORIGIN_BRANCH_RECEIVED">>,
     <<"ORIGIN_BAGGED", "ORIGIN_DISPATCHED">>,
     <<"ORIGIN_BRANCH_RECEIVED", "ORIGIN_DISPATCHED">>,
     <<"ORIGIN_BRANCH_RECEIVED", "DESTINATION_BRANCH_RECEIVED">>}
    \cup ({"TRANSIT_HUB_RECEIVED", "DESTINATION_HUB_RECEIVED",
           "DESTINATION_BRANCH_RECEIVED"} \X {"TRANSIT_HUB_DISPATCHED"})
    \cup ({"ORIGIN_BRANCH_RECEIVED", "ORIGIN_BAGGED", "TRANSIT_HUB_RECEIVED",
           "DESTINATION_HUB_RECEIVED", "DESTINATION_BRANCH_RECEIVED"}
          \X {"DAMAGED"})

\* The actor is at the routed destination branch, and so is the parcel.
CustodyDestinationBranch ==
    {<<"DESTINATION_BRANCH_RECEIVED", "OUT_FOR_DELIVERY">>,
     <<"DESTINATION_BRANCH_RECEIVED", "NDR">>,
     <<"DESTINATION_BRANCH_RECEIVED", "DELIVERED">>,
     <<"NDR", "OUT_FOR_DELIVERY">>,
     <<"NDR", "DELIVERED">>}

\* The acting user is the agent who has the parcel.
CustodyAgent ==
    {<<"OUT_FOR_DELIVERY", "DELIVERED">>,
     <<"OUT_FOR_DELIVERY", "DELIVERY_FAILED">>,
     <<"DAMAGED", "DELIVERED">>}

\* Mutant: a parcel about to go back can be received where it turns up, too.
CustodyAnyFacilityReturning ==
    ({"PICKED_UP", "BOOKED", "PICKUP_SCHEDULED", "PICKUP_ASSIGNED"}
     \X {"ORIGIN_BRANCH_RECEIVED"})
    \cup ({"IN_TRANSIT"} \X {"TRANSIT_HUB_RECEIVED", "DESTINATION_HUB_RECEIVED",
                             "DESTINATION_BRANCH_RECEIVED"})
    \cup ({"DESTINATION_HUB_RECEIVED", "DELIVERY_FAILED", "OUT_FOR_DELIVERY",
           "DAMAGED", "RTO_INITIATED"} \X {"DESTINATION_BRANCH_RECEIVED"})
    \cup {<<"RTO_IN_TRANSIT", "RTO_DELIVERED">>}

\* Any facility at all: a misrouted parcel can be received where it turns up.
CustodyAnyFacility ==
    ({"PICKED_UP", "BOOKED", "PICKUP_SCHEDULED", "PICKUP_ASSIGNED"}
     \X {"ORIGIN_BRANCH_RECEIVED"})
    \cup ({"IN_TRANSIT"} \X {"TRANSIT_HUB_RECEIVED", "DESTINATION_HUB_RECEIVED",
                             "DESTINATION_BRANCH_RECEIVED"})
    \cup ({"DESTINATION_HUB_RECEIVED", "DELIVERY_FAILED", "OUT_FOR_DELIVERY",
           "DAMAGED"} \X {"DESTINATION_BRANCH_RECEIVED"})
    \cup {<<"RTO_IN_TRANSIT", "RTO_DELIVERED">>}

transitions == CustodyNone \cup CustodyHolder \cup CustodyDestinationBranch
               \cup CustodyAgent \cup CustodyAnyFacility

\* Transitions that ask for a written reason.
RequiresReason ==
    {e \in transitions :
        \/ e[2] \in {"CANCELLED", "LOST", "RTO_INITIATED", "DELIVERY_FAILED", "DAMAGED"}
        \/ e \in {<<"PICKUP_ASSIGNED", "BOOKED">>,
                  <<"DESTINATION_HUB_RECEIVED", "TRANSIT_HUB_DISPATCHED">>,
                  <<"DESTINATION_BRANCH_RECEIVED", "TRANSIT_HUB_DISPATCHED">>,
                  <<"OUT_FOR_DELIVERY", "DESTINATION_BRANCH_RECEIVED">>,
                  <<"DESTINATION_BRANCH_RECEIVED", "NDR">>,
                  <<"DAMAGED", "DELIVERED">>}}

\* Mutant: the row of a loose dispatch from the origin forgets the hold.
BlockedByHoldButLoose ==
    {<<"ORIGIN_BRANCH_RECEIVED", "ORIGIN_BAGGED">>,
     <<"ORIGIN_BAGGED", "ORIGIN_DISPATCHED">>,
     <<"TRANSIT_HUB_RECEIVED", "TRANSIT_HUB_DISPATCHED">>}

\* Transitions a hold stops.
BlockedByHold ==
    {<<"ORIGIN_BRANCH_RECEIVED", "ORIGIN_BAGGED">>,
     <<"ORIGIN_BAGGED", "ORIGIN_DISPATCHED">>,
     <<"ORIGIN_BRANCH_RECEIVED", "ORIGIN_DISPATCHED">>,
     <<"TRANSIT_HUB_RECEIVED", "TRANSIT_HUB_DISPATCHED">>,
     <<"DESTINATION_BRANCH_RECEIVED", "OUT_FOR_DELIVERY">>,
     <<"NDR", "OUT_FOR_DELIVERY">>,
     <<"DESTINATION_BRANCH_RECEIVED", "DELIVERED">>}

ForwardOnly ==
    {<<"ORIGIN_BRANCH_RECEIVED", "ORIGIN_BAGGED">>,
     <<"ORIGIN_BAGGED", "ORIGIN_DISPATCHED">>,
     <<"ORIGIN_BRANCH_RECEIVED", "ORIGIN_DISPATCHED">>,
     <<"ORIGIN_BRANCH_RECEIVED", "DESTINATION_BRANCH_RECEIVED">>,
     <<"OUT_FOR_DELIVERY", "DELIVERED">>,
     <<"DESTINATION_BRANCH_RECEIVED", "DELIVERED">>}

ReverseOnly == {<<"RTO_INITIATED", "RTO_IN_TRANSIT">>,
                <<"RTO_IN_TRANSIT", "RTO_DELIVERED">>}

\* Find, and Validate: every transition is of the current release.
Find(from, to) == <<from, to>> \in transitions

\* A transition restricted to one direction refuses the other one.
ValidateDirection(from, to, dir) ==
    /\ Find(from, to)
    /\ <<from, to>> \in ForwardOnly => dir = "FORWARD"
    /\ <<from, to>> \in ReverseOnly => dir = "REVERSE"

-----------------------------------------------------------------------------
(***************************************************************************)
(* One transition request: the target, the actor's facility and user, and  *)
(* whether a reason was given, the custody override asked for, and the     *)
(* platform itself decided it.                                             *)
(***************************************************************************)
Request(to, at) == [to |-> to, at |-> at, by |-> Nil, reason |-> FALSE,
                    override |-> FALSE, system |-> FALSE, dir |-> Nil]

checkCustody(s, r, q) ==
    LET edge == <<r.status, q.to>> IN
    /\ edge \in CustodyHolder => r.unit # Nil /\ q.at = r.unit
    /\ edge \in CustodyDestinationBranch =>
           Route[s].destBranch # Nil /\ q.at = Route[s].destBranch
           /\ r.unit = Route[s].destBranch
    /\ edge \in CustodyAgent => r.user # Nil /\ q.by = r.user
    /\ edge \in CustodyAnyFacility => q.at # Nil

\* The checks of Apply, in order; row r of parcel s is locked by the caller.
CanApply(s, r, q) ==
    LET edge == <<r.status, q.to>> IN
    /\ ValidateDirection(r.status, q.to, IF q.dir = Nil THEN r.dir ELSE q.dir)
    /\ edge \in RequiresReason => q.reason
    /\ edge \in BlockedByHold => ~r.held
    /\ IF q.override THEN q.reason ELSE q.system \/ checkCustody(s, r, q)

\* The row Apply writes when it touches neither custody, bag nor trip.
Moved(r, q) == [r EXCEPT !.status = q.to,
                         !.dir = IF q.dir = Nil THEN @ ELSE q.dir]

\* Mutant: the vehicle keeps a parcel that has been unloaded.
ReceivedStillAboard(r, at) == [r EXCEPT !.unit = at]

\* The custody columns a receipt writes.
ReceivedAt(r, at) == [r EXCEPT !.unit = at, !.trip = Nil]

\* The custody columns alone.
SetShipmentCustody(r, unit, user, bag, trip) ==
    [r EXCEPT !.unit = unit, !.user = user, !.bag = bag, !.trip = trip]

LockShipmentByIDForUpdate(s) == ship[s]

-----------------------------------------------------------------------------
\* A booking creates the row; the counter that booked it is its first holder.
ShipInit ==
    \E at \in [Shipments -> BookingUnits] :
        ship = [s \in Shipments |->
                   [status |-> "BOOKED", dir |-> "FORWARD", held |-> FALSE,
                    unit |-> at[s], user |-> Nil, bag |-> Nil, trip |-> Nil]]

\* Cancel a shipment nobody has collected. It predates the engine: only the
\* table is consulted, the custody columns stay.
CancelShipment(s) ==
    /\ Find(ship[s].status, "CANCELLED")
    /\ ship' = [ship EXCEPT ![s].status = "CANCELLED"]

=============================================================================
