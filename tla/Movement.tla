------------------------------ MODULE Movement ------------------------------
(***************************************************************************)
(* The physical network: scans, bags, manifests, trips and returns acting  *)
(* on the same parcels.  Each operation is one database transaction that   *)
(* locks the rows it changes, so one operation is one step and the steps   *)
(* of different operators interleave freely.  The exception is a manifest  *)
(* created for a trip, which is two steps (see Manifest).                  *)
(***************************************************************************)
EXTENDS Linehaul, Scanning, Rto

vars == <<ship, bag, item, manifest, mbag, loose, trip, rto>>

Init == ShipInit /\ BagInit /\ ManifestInit /\ TripInit /\ RtoInit

\* Operations on one parcel.
ParcelNext ==
    /\ \E s \in Shipments : CancelShipment(s) \/ Scan(s)
    /\ UNCHANGED <<bag, item, manifest, mbag, loose, trip, rto>>

Next ==
    \/ ParcelNext
    \/ BagNext /\ UNCHANGED <<manifest, mbag, loose, trip, rto>>
    \/ ManifestNext /\ UNCHANGED rto
    \/ LinehaulNext /\ UNCHANGED rto
    \/ RtoNext /\ UNCHANGED <<bag, item, manifest, mbag, loose, trip>>

Spec == Init /\ [][Next]_vars

\* Every column holds a value of its type.
TypeOK ==
    /\ ship \in [Shipments -> Row]
    /\ bag \in [Bags -> BagRow]
    /\ item \in [Bags -> [Shipments -> ItemStatuses]]
    /\ manifest \in [Manifests -> ManifestRow]
    /\ mbag \in [Manifests -> [Bags -> ContentStatuses]]
    /\ loose \in [Manifests -> [Shipments -> ContentStatuses]]
    /\ trip \in [Trips -> TripRow]
    /\ rto \in [Shipments -> CaseStatuses]

-----------------------------------------------------------------------------
(***************************************************************************)
(* Custody.                                                                *)
(***************************************************************************)

\* Before the network has the parcel, whatever counter booked it.
Uncollected == {"BOOKED", "PICKUP_SCHEDULED", "PICKUP_ASSIGNED", "PICKED_UP"}

\* A trip that has left, whether or not it has arrived.
Gone == {"DEPARTED", "IN_TRANSIT", "ARRIVED", "CLOSED"}

\* A parcel the network has is with exactly one of a facility and a vehicle,
\* and the vehicle is one that has left: no operation of scanning, bagging,
\* manifest, linehaul or rto leaves current_custody_unit_id and
\* current_trip_id both set, or both null.
OneHolder ==
    \A s \in Shipments :
        ship[s].status \notin Uncollected \cup terminalStatuses =>
            /\ (ship[s].unit = Nil) # (ship[s].trip = Nil)
            /\ ship[s].trip # Nil => trip[ship[s].trip].status \in Gone

\* The inductive form of OneHolder. Which of the two has the parcel depends on
\* its status; a vehicle recorded on a parcel has left; and only a parcel on
\* its way back has an open return, because a return may be received anywhere.
Standing == {"ORIGIN_BRANCH_RECEIVED", "ORIGIN_BAGGED", "ORIGIN_DISPATCHED",
             "TRANSIT_HUB_RECEIVED", "TRANSIT_HUB_DISPATCHED",
             "DESTINATION_HUB_RECEIVED", "DESTINATION_BRANCH_RECEIVED"}

Anywhere == {"DAMAGED", "RTO_INITIATED", "RTO_IN_TRANSIT"}

RowInv(r) ==
    /\ r.status \in {"BOOKED", "CANCELLED", "IN_TRANSIT", "RTO_DELIVERED"}
                   \cup Standing \cup Anywhere
    /\ r.status \in Standing => r.unit # Nil /\ r.trip = Nil
    /\ r.status = "IN_TRANSIT" => r.unit = Nil /\ r.trip # Nil
    /\ r.status \in Anywhere => (r.unit = Nil) # (r.trip = Nil)

CustodyInv ==
    \A s \in Shipments :
        /\ RowInv(ship[s])
        /\ ship[s].status \in {"IN_TRANSIT"} \cup Anywhere /\ ship[s].trip # Nil =>
              trip[ship[s].trip].status \in Gone
        /\ rto[s] \in ActiveCases => ship[s].status \in {"RTO_INITIATED", "RTO_IN_TRANSIT"}

\* Who has a parcel and where, as Custody sees it, from its row.
PhaseOf(r) ==
    IF r.status \in terminalStatuses THEN "settled"
    ELSE IF r.status \in Uncollected THEN "sender"
    ELSE IF r.trip = Nil THEN "facility" ELSE "vehicle"

PlaceOf(r) ==
    IF r.status \in terminalStatuses \cup Uncollected THEN Nil
    ELSE IF r.trip = Nil THEN r.unit ELSE r.trip

C == INSTANCE Custody
     WITH phase <- [s \in Shipments |-> PhaseOf(ship[s])],
          place <- [s \in Shipments |-> PlaceOf(ship[s])],
          gone  <- {t \in Trips : trip[t].status \in Gone}

\* The movement operations implement Custody: whatever the operators of the
\* scanning, bagging, manifest, linehaul and rto services do in whatever order,
\* every parcel moves only as Custody allows.
CustodySpec == C!Spec

-----------------------------------------------------------------------------
(***************************************************************************)
(* Bags and manifests against parcels.                                     *)
(***************************************************************************)

\* A parcel that says it is bagged names a bag, and is in it, unless an
\* exception took it out after the bag was closed (bagging Correct).
BaggedInABag ==
    \A s \in Shipments : ship[s].status = "ORIGIN_BAGGED" =>
        /\ ship[s].bag # Nil
        /\ \/ item[ship[s].bag][s] = "IN_BAG"
           \/ item[ship[s].bag][s] = "REMOVED" /\ bag[ship[s].bag].status # "OPEN"

\* What a closed bag or manifest holds was declared when it was closed
\* (closed_contents): nothing slips in between closure and the count at the
\* destination. A manifest declares its bags and its loose parcels.
NothingUndeclared ==
    /\ \A b \in Bags : bag[b].status \notin {"NONE", "OPEN"} =>
          InBag(b) \subseteq bag[b].declared
    /\ \A m \in Manifests : manifest[m].status \notin {"NONE", "CHECKED", "DRAFT"} =>
          /\ LoadedBags(m) \subseteq manifest[m].bags
          /\ LoadedLoose(m) \subseteq manifest[m].loose

\* A parcel, the bag it names and the declaration made when bag or manifest was
\* closed tell one story, although addition, removal, closure, correction, scans
\* and receipt each write only some of the three.
BagsTruthful == BaggedInABag /\ NothingUndeclared

\* The bags on a manifest go where it goes: none is left standing at the
\* origin when it is dispatched, by manifest Dispatch or by trip Depart, and
\* none is left on the road when it is received.
BagsTravelWithManifest ==
    \A m \in Manifests : \A b \in LoadedBags(m) :
        /\ manifest[m].status = "DISPATCHED" =>
              bag[b].status \in {"DISPATCHED", "RECEIVED", "OPENED", "RECONCILED"}
        /\ manifest[m].status \in {"RECEIVED", "RECONCILED"} =>
              bag[b].status \in {"RECEIVED", "OPENED", "RECONCILED"}

\* A parcel put on hold before it was dispatched is not dispatched while the
\* hold lasts, by a scan, with its bag, with its manifest or by a departing
\* trip (BlockedByHold in the transition table).
HeldNotDispatched ==
    [][\A s \in Shipments :
          ship[s].held /\ ship[s].status \in Undispatched =>
              ship'[s].status \notin {"ORIGIN_DISPATCHED", "TRANSIT_HUB_DISPATCHED",
                                      "IN_TRANSIT"}]_vars

-----------------------------------------------------------------------------
(***************************************************************************)
(* What the comments of the code say and the code does not do.             *)
(***************************************************************************)

\* linehaul/movement.go:31, "no draft manifests may travel": a trip that has
\* left carries no draft manifest.
NoDraftTravels ==
    \A t \in Trips : trip[t].status \in Gone =>
        \A m \in OnTrip(t) : manifest[m].status # "DRAFT"

\* manifest/manifest.go:345, a parcel is loaded once: never both loose on a
\* manifest and inside a bag that is on one.
LoadedOnce ==
    \A s \in Shipments :
        (\E m \in Manifests : s \in LoadedLoose(m)) =>
            \A n \in Manifests, b \in Bags : b \in LoadedBags(n) => s \notin InBag(b)

=============================================================================
