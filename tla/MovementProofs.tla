--------------------------- MODULE MovementProofs ---------------------------
(***************************************************************************)
(* Proofs about the physical network, for any number of parcels, units,    *)
(* bags, manifests and trips and for any routes.                           *)
(***************************************************************************)
EXTENDS Movement, TLAPS

\* The statements of the data layer are always expanded.
USE DEF SetShipmentCustody, LockShipmentByIDForUpdate, InsertBag, LockBagForUpdate,
        UpdateBagStatus, CloseBagRow, GetActiveBagItemForShipment, AddBagItem,
        RemoveBagItem, RecalculateBagCounters, GetTripByPublicID, LockManifestForUpdate,
        InsertManifest, CloseManifestRow, UpdateManifestStatus, AddManifestBag,
        RemoveManifestBag, MarkManifestBagReceived, AddManifestLooseShipment,
        RemoveManifestLooseShipment, LockTripForUpdate, InsertTrip, UpdateTripStatus,
        UpdateTripAssets, GetTripLegBySequence, AttachManifestToTrip,
        CountOpenTripManifests, CreateRTOCase, LockRTOCaseForUpdate,
        UpdateRTOCaseStatus, CreateShipmentHold, ReleaseShipmentHold, SetShipmentHoldFlag

-----------------------------------------------------------------------------
(***************************************************************************)
(* The transition table: from which statuses a status can be entered.      *)
(***************************************************************************)

\* The rows of the table that lead to a status the movement operations set.
LEMMA TableLemma ==
    ASSUME NEW f
    PROVE  /\ Find(f, "ORIGIN_BAGGED") => f = "ORIGIN_BRANCH_RECEIVED"
           /\ Find(f, "ORIGIN_DISPATCHED") =>
                 f \in {"ORIGIN_BAGGED", "ORIGIN_BRANCH_RECEIVED"}
           /\ Find(f, "TRANSIT_HUB_DISPATCHED") =>
                 f \in {"TRANSIT_HUB_RECEIVED", "DESTINATION_HUB_RECEIVED",
                        "DESTINATION_BRANCH_RECEIVED"}
           /\ Find(f, "IN_TRANSIT") => f \in {"ORIGIN_DISPATCHED", "TRANSIT_HUB_DISPATCHED"}
           /\ Find(f, "DAMAGED") =>
                 f \in {"IN_TRANSIT", "OUT_FOR_DELIVERY", "ORIGIN_BRANCH_RECEIVED",
                        "ORIGIN_BAGGED", "TRANSIT_HUB_RECEIVED",
                        "DESTINATION_HUB_RECEIVED", "DESTINATION_BRANCH_RECEIVED"}
           /\ Find(f, "CANCELLED") => f \in {"BOOKED", "PICKUP_SCHEDULED", "PICKUP_ASSIGNED"}
           /\ Find(f, "RTO_INITIATED") =>
                 f \in {"NDR", "DELIVERY_FAILED", "DESTINATION_BRANCH_RECEIVED", "DAMAGED"}
           /\ Find(f, "RTO_IN_TRANSIT") => f = "RTO_INITIATED"
           /\ Find(f, "RTO_DELIVERED") => f = "RTO_IN_TRANSIT"
  BY DEF Find, transitions, CustodyNone, CustodyHolder, CustodyDestinationBranch,
         CustodyAgent, CustodyAnyFacility

\* Nothing on its way back, and nothing settled, is received by a scan or with
\* a manifest.
LEMMA ReceiptLemma ==
    ASSUME NEW f,
           NEW to \in {"ORIGIN_BRANCH_RECEIVED", "TRANSIT_HUB_RECEIVED",
                       "DESTINATION_HUB_RECEIVED", "DESTINATION_BRANCH_RECEIVED"},
           Find(f, to)
    PROVE  f \notin {"RTO_INITIATED", "RTO_IN_TRANSIT", "RTO_DELIVERED", "CANCELLED",
                     "DELIVERED", "LOST"}
  BY DEF Find, transitions, CustodyNone, CustodyHolder, CustodyDestinationBranch,
         CustodyAgent, CustodyAnyFacility

-----------------------------------------------------------------------------
(***************************************************************************)
(* Types.                                                                  *)
(***************************************************************************)

\* r2 is r moved to another status, everything else but the direction kept.
Onward(r2, r, to) ==
    r2 \in Row /\ r2.status = to /\ r2.unit = r.unit /\ r2.trip = r.trip

\* Moving a row through the engine changes its status and perhaps its direction,
\* for each form of request the operations make.
LEMMA MovedLemma ==
    ASSUME NEW r \in Row, NEW to \in Statuses, NEW at
    PROVE  /\ Onward(Moved(r, Request(to, at)), r, to)
           /\ Onward(Moved(r, [Request(to, at) EXCEPT !.reason = TRUE]), r, to)
           /\ Onward(Moved(r, [Request(to, at) EXCEPT !.dir = "REVERSE"]), r, to)
           /\ \A o : Onward(Moved(r, [Request(to, at) EXCEPT !.reason = TRUE, !.override = o]),
                            r, to)
<1>1. Onward(Moved(r, Request(to, at)), r, to)
  BY DEF Onward, Moved, Request, Row
<1>2. Onward(Moved(r, [Request(to, at) EXCEPT !.reason = TRUE]), r, to)
  BY DEF Onward, Moved, Request, Row
<1>3. Onward(Moved(r, [Request(to, at) EXCEPT !.dir = "REVERSE"]), r, to)
  BY DEF Onward, Moved, Request, Row, Directions
<1>4. ASSUME NEW o
      PROVE  Onward(Moved(r, [Request(to, at) EXCEPT !.reason = TRUE, !.override = o]), r, to)
  BY DEF Onward, Moved, Request, Row
<1>5. QED BY <1>1, <1>2, <1>3, <1>4

\* The engine applies only what the table has.
LEMMA ApplyLemma ==
    ASSUME NEW s, NEW r, NEW q, CanApply(s, r, q)
    PROVE  Find(r.status, q.to)
  BY DEF CanApply, ValidateDirection

\* A parcel the table lets a manifest receive gets one of three statuses.
LEMMA TargetLemma ==
    ASSUME NEW s, NEW at, Find(ship[s].status, receiveTargetAt(s, at))
    PROVE  receiveTargetAt(s, at) \in {"DESTINATION_BRANCH_RECEIVED",
                                       "DESTINATION_HUB_RECEIVED", "TRANSIT_HUB_RECEIVED"}
<1>1. ~Find(ship[s].status, Nil)
  <2>1. \A e \in transitions : e[2] \in Statuses
    BY DEF transitions, CustodyNone, CustodyHolder, CustodyDestinationBranch, CustodyAgent,
           CustodyAnyFacility, Statuses
  <2>2. Nil \notin Statuses BY NilAssumption
  <2>3. QED BY <2>1, <2>2 DEF Find
<1>2. QED BY <1>1 DEF receiveTargetAt

\* A receipt writes a facility and takes the parcel off the vehicle.
LEMMA ReceivedLemma ==
    ASSUME NEW r \in Row, NEW at \in Units
    PROVE  /\ ReceivedAt(r, at) \in Row
           /\ [ReceivedAt(r, at) EXCEPT !.user = Nil, !.bag = Nil] \in Row
           /\ ReceivedAt(r, at).status = r.status
           /\ ReceivedAt(r, at).unit = at /\ ReceivedAt(r, at).trip = Nil
           /\ [ReceivedAt(r, at) EXCEPT !.user = Nil, !.bag = Nil].status = r.status
           /\ [ReceivedAt(r, at) EXCEPT !.user = Nil, !.bag = Nil].unit = at
           /\ [ReceivedAt(r, at) EXCEPT !.user = Nil, !.bag = Nil].trip = Nil
  BY DEF ReceivedAt, Row, Leg

\* Custody changes hands: only the custody columns change.
LEMMA CustodyLemma ==
    ASSUME NEW r \in Row, NEW at \in Units
    PROVE  /\ SetShipmentCustody(r, at, Nil, Nil, Nil) \in Row
           /\ SetShipmentCustody(r, at, Nil, Nil, Nil).status = r.status
           /\ SetShipmentCustody(r, at, Nil, Nil, Nil).unit = at
           /\ SetShipmentCustody(r, at, Nil, Nil, Nil).trip = Nil
  BY DEF Row, Leg

\* Boarding takes the parcel from the facility and puts it on the vehicle.
LEMMA BoardedLemma ==
    ASSUME NEW r \in Row, NEW t \in Trips
    PROVE  LET b == [r EXCEPT !.status = "IN_TRANSIT", !.trip = t, !.unit = Nil]
           IN  b \in Row /\ b.status = "IN_TRANSIT" /\ b.trip = t /\ b.unit = Nil
  BY DEF Row, Statuses, Leg

\* A scan leaves a shipment row.
LEMMA TypeScan ==
    ASSUME ship \in [Shipments -> Row], NEW s \in Shipments, CancelShipment(s) \/ Scan(s)
    PROVE  ship' \in [Shipments -> Row]
<1>1. CASE CancelShipment(s)
  BY <1>1 DEF CancelShipment, Row, Statuses
<1>2. ASSUME NEW at \in Units, NEW o \in Overrides, Receive(s, at, o)
      PROVE  ship' \in [Shipments -> Row]
  <2>1. PICK to \in Statuses :
          ship' = [ship EXCEPT ![s] =
             [ReceivedAt(Moved(ship[s], [Request(to, at) EXCEPT !.reason = TRUE, !.override = o]), at)
                EXCEPT !.user = Nil, !.bag = Nil]]
    BY <1>2 DEF Receive
  <2> DEFINE r == Moved(ship[s], [Request(to, at) EXCEPT !.reason = TRUE, !.override = o])
  <2>2. r \in Row
    BY MovedLemma DEF Onward
  <2> HIDE DEF r
  <2>3. [ReceivedAt(r, at) EXCEPT !.user = Nil, !.bag = Nil] \in Row
    BY <2>2, ReceivedLemma
  <2>4. QED
    BY <2>1, <2>3 DEF r
<1>3. ASSUME NEW at \in Units, NEW o \in Overrides, Departure(s, at, o)
      PROVE  ship' \in [Shipments -> Row]
  <2> DEFINE to == IF ship[s].status \in {"TRANSIT_HUB_RECEIVED", "DESTINATION_HUB_RECEIVED"}
                   THEN "TRANSIT_HUB_DISPATCHED" ELSE "ORIGIN_DISPATCHED"
             r == Moved(ship[s], [Request(to, at) EXCEPT !.reason = TRUE, !.override = o])
  <2>1. to \in Statuses BY DEF Statuses
  <2>2. ship' = [ship EXCEPT ![s] = r] BY <1>3 DEF Departure
  <2> HIDE DEF to
  <2>3. r \in Row BY <2>1, MovedLemma DEF Onward
  <2>4. QED BY <2>2, <2>3
<1>4. ASSUME NEW at \in Leg, NEW o \in Overrides, Damage(s, at, o)
      PROVE  ship' \in [Shipments -> Row]
  <2> DEFINE r == Moved(ship[s], [Request("DAMAGED", at) EXCEPT !.reason = TRUE, !.override = o])
  <2>1. ship' = [ship EXCEPT ![s] = r] BY <1>4 DEF Damage
  <2>2. "DAMAGED" \in Statuses BY DEF Statuses
  <2>3. r \in Row BY <2>2, MovedLemma DEF Onward
  <2>4. QED BY <2>1, <2>3
<1>5. ASSUME NEW at \in Units, Hold(s, at) PROVE ship' \in [Shipments -> Row]
  BY <1>5 DEF Hold, Row
<1>6. CASE Release(s) BY <1>6 DEF Release, Row
<1>7. QED BY <1>1, <1>2, <1>3, <1>4, <1>5, <1>6 DEF Scan

\* Writing the bag column leaves a row.
LEMMA BagColumn ==
    ASSUME NEW r \in Row, NEW b \in Bags \cup {Nil}
    PROVE  [r EXCEPT !.bag = b] \in Row
  BY DEF Row

\* The operations on bags keep every column in its type.
LEMMA TypeBag ==
    ASSUME ship \in [Shipments -> Row], bag \in [Bags -> BagRow],
           item \in [Bags -> [Shipments -> ItemStatuses]], BagNext
    PROVE  /\ ship' \in [Shipments -> Row] /\ bag' \in [Bags -> BagRow]
           /\ item' \in [Bags -> [Shipments -> ItemStatuses]]
<1> DEFINE Goal == /\ ship' \in [Shipments -> Row] /\ bag' \in [Bags -> BagRow]
                   /\ item' \in [Bags -> [Shipments -> ItemStatuses]]
<1>1. ASSUME NEW b \in Bags, NEW l \in Lanes, NEW dir \in Directions,
             CreateBag(b, l[1], l[2], dir)
      PROVE  Goal
  <2>1. l[1] \in Leg /\ l[2] \in Leg BY LanesAssumption DEF Leg
  <2>2. QED BY <1>1, <2>1 DEF CreateBag, BagRow, BagStatuses
<1>2. ASSUME NEW b \in Bags, NEW s \in Shipments, addOne(b, s) PROVE Goal
  <2>1. item' \in [Bags -> [Shipments -> ItemStatuses]] /\ bag' = bag
    BY <1>2 DEF addOne, ItemStatuses
  <2> DEFINE r == Moved(ship[s], Request("ORIGIN_BAGGED", bag[b].from))
  <2>s. "ORIGIN_BAGGED" \in Statuses BY DEF Statuses
  <2>2. r \in Row BY <2>s, MovedLemma DEF Onward
  <2>3. \/ ship' = [ship EXCEPT ![s] = [r EXCEPT !.bag = b]]
        \/ ship' = [ship EXCEPT ![s] = [ship[s] EXCEPT !.bag = b]]
    BY <1>2 DEF addOne
  <2> HIDE DEF r
  <2>4. [r EXCEPT !.bag = b] \in Row /\ [ship[s] EXCEPT !.bag = b] \in Row
    BY <2>2, BagColumn
  <2>5. QED BY <2>1, <2>3, <2>4
<1>3. ASSUME NEW b \in Bags, NEW s \in Shipments, RemoveItem(b, s) PROVE Goal
  <2>1. item' \in [Bags -> [Shipments -> ItemStatuses]] /\ bag' = bag
    BY <1>3 DEF RemoveItem, ItemStatuses
  <2> DEFINE r == Moved(ship[s], [Request("ORIGIN_BRANCH_RECEIVED", bag[b].from)
                                     EXCEPT !.reason = TRUE])
  <2>s. "ORIGIN_BRANCH_RECEIVED" \in Statuses BY DEF Statuses
  <2>2. r \in Row BY <2>s, MovedLemma DEF Onward
  <2>3. \/ ship' = [ship EXCEPT ![s] = [r EXCEPT !.bag = Nil]]
        \/ ship' = [ship EXCEPT ![s] = [ship[s] EXCEPT !.bag = Nil]]
    BY <1>3 DEF RemoveItem
  <2> HIDE DEF r
  <2>4. [r EXCEPT !.bag = Nil] \in Row /\ [ship[s] EXCEPT !.bag = Nil] \in Row
    BY <2>2, BagColumn
  <2>5. QED BY <2>1, <2>3, <2>4
<1>4. ASSUME NEW b \in Bags, NEW s \in Shipments, Correct(b, s) PROVE Goal
  BY <1>4 DEF Correct, ItemStatuses
<1>5. ASSUME NEW b \in Bags, CloseBag(b) PROVE Goal
  BY <1>5 DEF CloseBag, BagRow, BagStatuses, InBag
<1>6. ASSUME NEW b \in Bags, DispatchBag(b) PROVE Goal
  <2>1. bag' \in [Bags -> BagRow] /\ item' = item
    BY <1>6 DEF DispatchBag, BagRow, BagStatuses
  <2> DEFINE r(s) == Moved(ship[s], Request("ORIGIN_DISPATCHED", bag[b].from))
             moving == {s \in InBag(b) : Find(ship[s].status, "ORIGIN_DISPATCHED")}
  <2>s. "ORIGIN_DISPATCHED" \in Statuses BY DEF Statuses
  <2>2. \A s \in Shipments : r(s) \in Row BY <2>s, MovedLemma DEF Onward
  <2>3. Request("ORIGIN_DISPATCHED", bag[b].from).to = "ORIGIN_DISPATCHED" BY DEF Request
  <2>4. ship' = [s \in Shipments |-> IF s \in moving THEN r(s) ELSE ship[s]]
    BY <1>6, <2>3 DEF DispatchBag
  <2> HIDE DEF r, moving
  <2>5. QED BY <2>1, <2>2, <2>4
<1>7. ASSUME NEW b \in Bags, NEW at \in Units, ReceiveBag(b, at) \/ OpenAtDestination(b, at)
      PROVE  Goal
  <2>1. CASE ReceiveBag(b, at) BY <2>1 DEF ReceiveBag, BagRow, BagStatuses
  <2>2. CASE OpenAtDestination(b, at) BY <2>2 DEF OpenAtDestination, BagRow, BagStatuses
  <2>3. QED BY <1>7, <2>1, <2>2
<1>8. QED
  BY <1>1, <1>2, <1>3, <1>4, <1>5, <1>6, <1>7 DEF BagNext

\* The operations on manifests keep every column in its type.
LEMMA TypeManifest ==
    ASSUME TypeOK, ManifestNext, UNCHANGED rto
    PROVE  TypeOK'
<1>a. ship \in [Shipments -> Row] /\ bag \in [Bags -> BagRow] BY DEF TypeOK
<1>b. manifest \in [Manifests -> ManifestRow] BY DEF TypeOK
<1>c. mbag \in [Manifests -> [Bags -> ContentStatuses]] BY DEF TypeOK
<1>d. loose \in [Manifests -> [Shipments -> ContentStatuses]] BY DEF TypeOK
<1>1. ASSUME NEW m \in Manifests, NEW l \in Lanes, NEW dir \in Directions,
             \/ CreateManifest(m, l[1], l[2], dir)
             \/ \E t \in Trips : CheckTrip(m, t, l[1], l[2], dir)
      PROVE  TypeOK'
  <2>1. l[1] \in Leg /\ l[2] \in Leg BY LanesAssumption DEF Leg
  <2>2. CASE CreateManifest(m, l[1], l[2], dir)
    <3>1. manifest' \in [Manifests -> ManifestRow]
      BY <2>2, <1>b, <2>1 DEF CreateManifest, ManifestRow, ManifestStatuses
    <3>2. QED BY <2>2, <3>1 DEF TypeOK, CreateManifest
  <2>3. ASSUME NEW t \in Trips, CheckTrip(m, t, l[1], l[2], dir) PROVE TypeOK'
    <3>1. manifest' \in [Manifests -> ManifestRow]
      BY <2>3, <1>b, <2>1 DEF CheckTrip, ManifestRow, ManifestStatuses
    <3>2. QED BY <2>3, <3>1 DEF TypeOK, CheckTrip
  <2>4. QED BY <1>1, <2>2, <2>3
<1>2. ASSUME NEW m \in Manifests, CreateChecked(m) PROVE TypeOK'
  <2>1. manifest' \in [Manifests -> ManifestRow]
    BY <1>2, <1>b DEF CreateChecked, ManifestRow, ManifestStatuses
  <2>2. QED BY <1>2, <2>1 DEF TypeOK, CreateChecked
<1>3. ASSUME NEW m \in Manifests, NEW b \in Bags, addBag(m, b) \/ RemoveBag(m, b) PROVE TypeOK'
  <2>1. mbag' \in [Manifests -> [Bags -> ContentStatuses]]
    BY <1>3, <1>c DEF addBag, RemoveBag, ContentStatuses
  <2>2. QED BY <1>3, <2>1 DEF TypeOK, addBag, RemoveBag
<1>4. ASSUME NEW m \in Manifests, NEW s \in Shipments,
             addLooseShipment(m, s) \/ RemoveLoose(m, s)
      PROVE  TypeOK'
  <2>1. loose' \in [Manifests -> [Shipments -> ContentStatuses]]
    BY <1>4, <1>d DEF addLooseShipment, RemoveLoose, ContentStatuses
  <2>2. QED BY <1>4, <2>1 DEF TypeOK, addLooseShipment, RemoveLoose
<1>5. ASSUME NEW m \in Manifests, CloseManifest(m) PROVE TypeOK'
  <2>1. LoadedBags(m) \in SUBSET Bags /\ LoadedLoose(m) \in SUBSET Shipments
    BY DEF LoadedBags, LoadedLoose
  <2>2. manifest' \in [Manifests -> ManifestRow]
    BY <1>5, <1>b, <2>1 DEF CloseManifest, ManifestRow, ManifestStatuses
  <2>3. QED BY <1>5, <2>2 DEF TypeOK, CloseManifest
<1>6. ASSUME NEW m \in Manifests, DispatchManifest(m) PROVE TypeOK'
  <2> DEFINE r(s) == Moved(ship[s], Request(dispatchTarget(ship[s].status), manifest[m].from))
             moving == {s \in OnManifest(m) : dispatchTarget(ship[s].status) # Nil}
  <2>1. ship' = [s \in Shipments |-> IF s \in moving THEN r(s) ELSE ship[s]]
    BY <1>6 DEF DispatchManifest
  <2>2. ASSUME NEW s \in Shipments, s \in moving PROVE r(s) \in Row
    <3>1. dispatchTarget(ship[s].status) \in Statuses BY <2>2 DEF dispatchTarget, Statuses
    <3>2. QED BY <3>1, <1>a, MovedLemma DEF Onward
  <2> HIDE DEF r, moving
  <2>3. ship' \in [Shipments -> Row] BY <2>1, <2>2, <1>a
  <2>4. manifest' \in [Manifests -> ManifestRow] BY <1>6, <1>b DEF DispatchManifest, ManifestRow, ManifestStatuses
  <2>5. bag' \in [Bags -> BagRow]
    BY <1>6, <1>a DEF DispatchManifest, BagRow, BagStatuses
  <2>6. QED BY <1>6, <2>3, <2>4, <2>5 DEF TypeOK, DispatchManifest
<1>7. ASSUME NEW m \in Manifests, NEW at \in Units, ReceiveManifest(m, at) PROVE TypeOK'
  <2> DEFINE to(s) == receiveTargetAt(s, at)
             r(s) == ReceivedAt(Moved(ship[s], Request(to(s), at)), at)
             moving == {s \in OnManifest(m) : Find(ship[s].status, to(s))}
  <2>1. ship' = [s \in Shipments |-> IF s \in moving THEN r(s) ELSE ship[s]]
    BY <1>7 DEF ReceiveManifest
  <2>2. ASSUME NEW s \in Shipments, s \in moving PROVE r(s) \in Row
    <3>1. to(s) \in Statuses BY <2>2, TargetLemma DEF Statuses
    <3>2. Moved(ship[s], Request(to(s), at)) \in Row BY <3>1, <1>a, MovedLemma DEF Onward
    <3>3. QED BY <3>2, ReceivedLemma
  <2> HIDE DEF r, moving
  <2>3. ship' \in [Shipments -> Row] BY <2>1, <2>2, <1>a
  <2>4. manifest' \in [Manifests -> ManifestRow] BY <1>7, <1>b DEF ReceiveManifest, ManifestRow, ManifestStatuses
  <2>5. bag' \in [Bags -> BagRow]
    BY <1>7, <1>a DEF ReceiveManifest, BagRow, BagStatuses
  <2>6. mbag' \in [Manifests -> [Bags -> ContentStatuses]]
    BY <1>7, <1>c DEF ReceiveManifest, ContentStatuses
  <2>7. QED BY <1>7, <2>3, <2>4, <2>5, <2>6 DEF TypeOK, ReceiveManifest
<1>8. QED
  BY <1>1, <1>2, <1>3, <1>4, <1>5, <1>6, <1>7 DEF ManifestNext

\* The operations on trips keep every column in its type.
LEMMA TypeLinehaul ==
    ASSUME TypeOK, LinehaulNext, UNCHANGED rto
    PROVE  TypeOK'
<1>a. ship \in [Shipments -> Row] /\ bag \in [Bags -> BagRow] BY DEF TypeOK
<1>b. manifest \in [Manifests -> ManifestRow] BY DEF TypeOK
<1>c. trip \in [Trips -> TripRow] BY DEF TypeOK
<1>1. ASSUME NEW t \in Trips, NEW l \in Lanes, NEW stops \in SUBSET Units, NEW c \in BOOLEAN,
             CreateTrip(t, l[1], l[2], stops, c)
      PROVE  TypeOK'
  <2>1. l[1] \in Leg /\ l[2] \in Leg BY LanesAssumption DEF Leg
  <2>2. trip' \in [Trips -> TripRow]
    BY <1>1, <1>c, <2>1 DEF CreateTrip, TripRow, TripStatuses
  <2>3. QED BY <1>1, <2>2 DEF TypeOK, CreateTrip
<1>2. ASSUME NEW t \in Trips, Assign(t) PROVE TypeOK'
  <2>1. trip' \in [Trips -> TripRow] BY <1>2, <1>c DEF Assign, TripRow
  <2>2. QED BY <1>2, <2>1 DEF TypeOK, Assign
<1>3. ASSUME NEW t \in Trips, NEW m \in Manifests, AttachManifest(t, m) PROVE TypeOK'
  <2>1. manifest' \in [Manifests -> ManifestRow]
    BY <1>3, <1>b DEF AttachManifest, ManifestRow
  <2>2. QED BY <1>3, <2>1 DEF TypeOK, AttachManifest
<1>4. ASSUME NEW t \in Trips, Depart(t) PROVE TypeOK'
  <2>1. trip' \in [Trips -> TripRow]
    BY <1>4, <1>c DEF Depart, TripRow, TripStatuses
  <2>2. manifest' \in [Manifests -> ManifestRow]
    BY <1>4, <1>b DEF Depart, ManifestRow, ManifestStatuses
  <2>3. bag' \in [Bags -> BagRow]
    BY <1>4, <1>a DEF Depart, BagRow, BagStatuses
  <2>4. ship' = [s \in Shipments |->
                   IF s \in Boarding(t)
                   THEN [ship[s] EXCEPT !.status = "IN_TRANSIT", !.trip = t, !.unit = Nil]
                   ELSE ship[s]]
    BY <1>4 DEF Depart
  <2> DEFINE r(s) == [ship[s] EXCEPT !.status = "IN_TRANSIT", !.trip = t, !.unit = Nil]
  <2>a. ASSUME NEW s \in Shipments PROVE r(s) \in Row BY <1>a, BoardedLemma
  <2> HIDE DEF r
  <2>b. ship' = [s \in Shipments |-> IF s \in Boarding(t) THEN r(s) ELSE ship[s]] BY <2>4 DEF r
  <2>5. ship' \in [Shipments -> Row] BY <2>a, <2>b, <1>a
  <2>6. QED BY <1>4, <2>1, <2>2, <2>3, <2>5 DEF TypeOK, Depart
<1>5. ASSUME NEW t \in Trips, NEW st \in TripStatuses, trip' = [trip EXCEPT ![t].status = st],
             UNCHANGED <<ship, bag, item, manifest, mbag, loose>>
      PROVE  TypeOK'
  <2>1. trip' \in [Trips -> TripRow] BY <1>5, <1>c DEF TripRow
  <2>2. QED BY <1>5, <2>1 DEF TypeOK
<1>6. ASSUME NEW t \in Trips, NEW at \in Units, arriveAtLeg(t, at) PROVE TypeOK'
  <2> DEFINE st == IF trip[t].status \in {"DEPARTED", "ARRIVED"} THEN "IN_TRANSIT"
                                                                ELSE trip[t].status
  <2>1. st \in TripStatuses BY <1>c DEF TripRow, TripStatuses
  <2>2. trip' = [trip EXCEPT ![t].status = st] BY <1>6, <1>c DEF arriveAtLeg
  <2> HIDE DEF st
  <2>3. QED BY <1>5, <1>6, <2>1, <2>2 DEF arriveAtLeg
<1>7. ASSUME NEW t \in Trips, NEW at \in Units, Arrive(t, at) PROVE TypeOK'
  BY <1>5, <1>7 DEF Arrive, TripStatuses
<1>8. ASSUME NEW t \in Trips, CloseTrip(t) PROVE TypeOK'
  BY <1>5, <1>8 DEF CloseTrip, TripStatuses
<1>9. ASSUME NEW t \in Trips, CancelTrip(t) PROVE TypeOK'
  BY <1>5, <1>9 DEF CancelTrip, TripStatuses
<1>10. QED BY <1>1, <1>2, <1>3, <1>4, <1>6, <1>7, <1>8, <1>9 DEF LinehaulNext

\* The operations on returns keep every column in its type.
LEMMA TypeRto ==
    ASSUME ship \in [Shipments -> Row], rto \in [Shipments -> CaseStatuses], RtoNext
    PROVE  ship' \in [Shipments -> Row] /\ rto' \in [Shipments -> CaseStatuses]
<1> DEFINE Goal == ship' \in [Shipments -> Row] /\ rto' \in [Shipments -> CaseStatuses]
<1>s. {"RTO_INITIATED", "RTO_IN_TRANSIT", "RTO_DELIVERED"} \subseteq Statuses BY DEF Statuses
<1>1. ASSUME NEW s \in Shipments, Initiate(s) PROVE Goal
  <2> DEFINE r == Moved(ship[s], [Request("RTO_INITIATED", Nil) EXCEPT !.reason = TRUE])
  <2>1. r \in Row BY <1>s, MovedLemma DEF Onward
  <2>2. ship' = [ship EXCEPT ![s] = r] BY <1>1 DEF Initiate
  <2>3. QED BY <1>1, <2>1, <2>2 DEF Initiate, CaseStatuses
<1>2. ASSUME NEW s \in Shipments, NEW at \in Leg, DispatchReturn(s, at) PROVE Goal
  <2> DEFINE r == Moved(ship[s], [Request("RTO_IN_TRANSIT", at) EXCEPT !.dir = "REVERSE"])
  <2>1. r \in Row BY <1>s, MovedLemma DEF Onward
  <2>2. ship' = [ship EXCEPT ![s] = r] BY <1>2 DEF DispatchReturn
  <2>3. QED BY <1>2, <2>1, <2>2 DEF DispatchReturn, CaseStatuses
<1>3. ASSUME NEW s \in Shipments, NEW at \in Units, ReceiveAtFacility(s, at) PROVE Goal
  <2>1. SetShipmentCustody(ship[s], at, Nil, Nil, Nil) \in Row BY CustodyLemma
  <2>2. ship' = [ship EXCEPT ![s] = SetShipmentCustody(ship[s], at, Nil, Nil, Nil)]
    BY <1>3 DEF ReceiveAtFacility
  <2>3. rto' \in [Shipments -> CaseStatuses] BY <1>3 DEF ReceiveAtFacility, CaseStatuses
  <2>4. QED BY <2>1, <2>2, <2>3
<1>4. ASSUME NEW s \in Shipments, NEW at \in Leg, CompleteReturn(s, at) PROVE Goal
  <2> DEFINE r == Moved(ship[s], [Request("RTO_DELIVERED", at) EXCEPT !.dir = "REVERSE"])
  <2>1. r \in Row BY <1>s, MovedLemma DEF Onward
  <2>2. ship' = [ship EXCEPT ![s] = [r EXCEPT !.unit = Nil, !.user = Nil]]
    BY <1>4 DEF CompleteReturn
  <2>3. [r EXCEPT !.unit = Nil, !.user = Nil] \in Row BY <2>1 DEF Row, Leg
  <2>4. QED BY <1>4, <2>2, <2>3 DEF CompleteReturn, CaseStatuses
<1>5. ASSUME NEW s \in Shipments, FailReturn(s) PROVE Goal
  BY <1>5 DEF FailReturn, CaseStatuses
<1>6. QED BY <1>1, <1>2, <1>3, <1>4, <1>5 DEF RtoNext

\* A fresh network is well typed.
LEMMA TypeInit == ASSUME Init PROVE TypeOK
<1>1. ship \in [Shipments -> Row]
  BY BookingAssumption DEF Init, ShipInit, Row, Statuses, Directions
<1>2. bag \in [Bags -> BagRow] /\ item \in [Bags -> [Shipments -> ItemStatuses]]
  BY DEF Init, BagInit, BagRow, BagStatuses, ItemStatuses, Leg, Directions
<1>3. manifest \in [Manifests -> ManifestRow]
  BY DEF Init, ManifestInit, ManifestRow, ManifestStatuses, Leg, Directions
<1>4. /\ mbag \in [Manifests -> [Bags -> ContentStatuses]]
      /\ loose \in [Manifests -> [Shipments -> ContentStatuses]]
  BY DEF Init, ManifestInit, ContentStatuses
<1>5. trip \in [Trips -> TripRow]
  BY DEF Init, TripInit, TripRow, TripStatuses, Leg
<1>6. rto \in [Shipments -> CaseStatuses] BY DEF Init, RtoInit, CaseStatuses
<1>7. QED BY <1>1, <1>2, <1>3, <1>4, <1>5, <1>6 DEF TypeOK

\* Each operation leaves a well-typed state.
LEMMA TypeStep == ASSUME TypeOK, [Next]_vars PROVE TypeOK'
<1>1. CASE ParcelNext BY <1>1, TypeScan DEF ParcelNext, TypeOK
<1>2. CASE BagNext /\ UNCHANGED <<manifest, mbag, loose, trip, rto>>
  BY <1>2, TypeBag DEF TypeOK
<1>3. CASE ManifestNext /\ UNCHANGED rto BY <1>3, TypeManifest
<1>4. CASE LinehaulNext /\ UNCHANGED rto BY <1>4, TypeLinehaul
<1>5. CASE RtoNext /\ UNCHANGED <<bag, item, manifest, mbag, loose, trip>>
  BY <1>5, TypeRto DEF TypeOK
<1>6. CASE UNCHANGED vars BY <1>6 DEF vars, TypeOK
<1>7. QED BY <1>1, <1>2, <1>3, <1>4, <1>5, <1>6 DEF Next

\* Every operation of scanning, bagging, manifest, linehaul and rto writes into
\* every column a value of its type.
THEOREM TypeCorrect == Spec => []TypeOK
<1>1. Init => TypeOK BY TypeInit
<1>2. TypeOK /\ [Next]_vars => TypeOK' BY TypeStep
<1>3. QED BY <1>1, <1>2, PTL DEF Spec

-----------------------------------------------------------------------------
(***************************************************************************)
(* What one operation may do to one parcel, whichever operation it is: the *)
(* five ways a row changes its status and its holder.  Everything below    *)
(* about custody follows from these.                                       *)
(***************************************************************************)
Kept(s) ==
    /\ ship'[s].status = ship[s].status
    /\ ship'[s].unit = ship[s].unit /\ ship'[s].trip = ship[s].trip

Advanced(s) ==
    /\ Find(ship[s].status, ship'[s].status)
    /\ ship'[s].unit = ship[s].unit /\ ship'[s].trip = ship[s].trip
    /\ \/ ship'[s].status \in {"ORIGIN_BAGGED", "ORIGIN_DISPATCHED", "TRANSIT_HUB_DISPATCHED",
                               "DAMAGED", "CANCELLED", "RTO_INITIATED", "RTO_IN_TRANSIT"}
       \/ ship[s].status = "ORIGIN_BAGGED" /\ ship'[s].status = "ORIGIN_BRANCH_RECEIVED"
    /\ <<ship[s].status, ship'[s].status>> \in BlockedByHold => ~ship[s].held

Taken(s) ==
    /\ Find(ship[s].status, ship'[s].status)
    /\ ship'[s].status \in {"ORIGIN_BRANCH_RECEIVED", "TRANSIT_HUB_RECEIVED",
                            "DESTINATION_HUB_RECEIVED", "DESTINATION_BRANCH_RECEIVED"}
    /\ ship'[s].unit \in Units /\ ship'[s].trip = Nil

TakenBack(s) ==
    /\ rto[s] \in ActiveCases
    /\ ship'[s].status = ship[s].status
    /\ ship'[s].unit \in Units /\ ship'[s].trip = Nil

Boarded(s, t) ==
    /\ ship[s].status \in {"ORIGIN_DISPATCHED", "TRANSIT_HUB_DISPATCHED"} \cup Undispatched
    /\ ship[s].status \in Undispatched => ~ship[s].held
    /\ ship'[s].status = "IN_TRANSIT" /\ ship'[s].unit = Nil /\ ship'[s].trip = t
    /\ trip[t].status \notin Gone /\ trip'[t].status \in Gone

Returned(s) ==
    /\ ship[s].status = "RTO_IN_TRANSIT" /\ ship'[s].status = "RTO_DELIVERED"
    /\ rto'[s] = "RETURNED"

Change(s) == Kept(s) \/ Advanced(s) \/ Taken(s) \/ TakenBack(s)
             \/ (\E t \in Trips : Boarded(s, t)) \/ Returned(s)

\* A request the engine accepts and that touches no custody column advances the
\* parcel.
LEMMA AdvancedLemma ==
    ASSUME NEW s \in Shipments, NEW q, CanApply(s, ship[s], q),
           ship' \in [Shipments -> Row],
           ship'[s].status = q.to, ship'[s].unit = ship[s].unit, ship'[s].trip = ship[s].trip,
           \/ q.to \in {"ORIGIN_BAGGED", "ORIGIN_DISPATCHED", "TRANSIT_HUB_DISPATCHED",
                        "DAMAGED", "CANCELLED", "RTO_INITIATED", "RTO_IN_TRANSIT"}
           \/ ship[s].status = "ORIGIN_BAGGED" /\ q.to = "ORIGIN_BRANCH_RECEIVED"
    PROVE  Advanced(s)
  BY ApplyLemma DEF Advanced, CanApply

\* An operation on one parcel leaves the others where they are.
LEMMA OneParcel ==
    ASSUME ship \in [Shipments -> Row], NEW s \in Shipments, NEW r,
           ship' = [ship EXCEPT ![s] = r],
           ship'[s] = r => Change(s)
    PROVE  \A x \in Shipments : Change(x)
<1>1. ship'[s] = r OBVIOUS
<1>2. ASSUME NEW x \in Shipments, x # s PROVE Kept(x) BY <1>2 DEF Kept
<1>3. QED BY <1>1, <1>2 DEF Change

\* Cancelling and scanning.
LEMMA ChangeScan ==
    ASSUME ship \in [Shipments -> Row], NEW s \in Shipments, CancelShipment(s) \/ Scan(s)
    PROVE  \A x \in Shipments : Change(x)
<1>t. ship' \in [Shipments -> Row] BY TypeScan
<1>1. CASE CancelShipment(s)
  <2>1. ship' = [ship EXCEPT ![s] = [ship[s] EXCEPT !.status = "CANCELLED"]]
    BY <1>1 DEF CancelShipment
  <2>2. ASSUME ship'[s] = [ship[s] EXCEPT !.status = "CANCELLED"] PROVE Advanced(s)
    BY <1>1, <2>2 DEF CancelShipment, Advanced, BlockedByHold, Row
  <2>3. QED BY <2>1, <2>2, OneParcel DEF Change
<1>2. ASSUME NEW at \in Units, NEW o \in Overrides, Receive(s, at, o)
      PROVE  \A x \in Shipments : Change(x)
  <2> DEFINE q(to) == [Request(to, at) EXCEPT !.reason = TRUE, !.override = o]
  <2>1. PICK to \in Statuses :
          /\ receiveTarget(s, at, to)
          /\ ship' = [ship EXCEPT ![s] =
                [ReceivedAt(Moved(ship[s], q(to)), at) EXCEPT !.user = Nil, !.bag = Nil]]
    BY <1>2 DEF Receive
  <2> DEFINE r == Moved(ship[s], q(to))
  <2>a. Onward(r, ship[s], to) BY MovedLemma
  <2>2. r \in Row /\ r.status = to BY <2>a DEF Onward
  <2>3. to \in {"ORIGIN_BRANCH_RECEIVED", "TRANSIT_HUB_RECEIVED",
                "DESTINATION_HUB_RECEIVED", "DESTINATION_BRANCH_RECEIVED"}
        /\ Find(ship[s].status, to)
    BY <2>1 DEF receiveTarget, receiveCandidates
  <2> HIDE DEF r
  <2> DEFINE r2 == [ReceivedAt(r, at) EXCEPT !.user = Nil, !.bag = Nil]
  <2>4. r2.status = to /\ r2.unit = at /\ r2.trip = Nil BY <2>2, ReceivedLemma
  <2>5. ship' = [ship EXCEPT ![s] = r2] BY <2>1 DEF r
  <2> HIDE DEF r2
  <2>6. ASSUME ship'[s] = r2 PROVE Taken(s) BY <2>3, <2>4, <2>6 DEF Taken
  <2>7. QED BY <2>5, <2>6, OneParcel DEF Change
<1>3. ASSUME NEW at \in Leg, NEW o \in Overrides,
             NEW to \in {"ORIGIN_DISPATCHED", "TRANSIT_HUB_DISPATCHED", "DAMAGED"},
             CanApply(s, ship[s], [Request(to, at) EXCEPT !.reason = TRUE, !.override = o]),
             ship' = [ship EXCEPT ![s] =
                Moved(ship[s], [Request(to, at) EXCEPT !.reason = TRUE, !.override = o])]
      PROVE  \A x \in Shipments : Change(x)
  <2> DEFINE q == [Request(to, at) EXCEPT !.reason = TRUE, !.override = o]
             r == Moved(ship[s], q)
  <2>1. to \in Statuses BY DEF Statuses
  <2>2. Onward(r, ship[s], to) BY <2>1, MovedLemma
  <2>3. q.to = to BY DEF Request
  <2>4. CanApply(s, ship[s], q) /\ ship' = [ship EXCEPT ![s] = r] BY <1>3
  <2> HIDE DEF q, r
  <2>5. ASSUME ship'[s] = r PROVE Advanced(s)
    BY <1>t, <2>2, <2>3, <2>4, <2>5, AdvancedLemma DEF Onward
  <2>6. QED BY <2>4, <2>5, OneParcel DEF Change
<1>4. ASSUME NEW at \in Units, NEW o \in Overrides, Departure(s, at, o)
      PROVE  \A x \in Shipments : Change(x)
  <2>1. PICK to \in {"ORIGIN_DISPATCHED", "TRANSIT_HUB_DISPATCHED"} :
          /\ CanApply(s, ship[s], [Request(to, at) EXCEPT !.reason = TRUE, !.override = o])
          /\ ship' = [ship EXCEPT ![s] =
                Moved(ship[s], [Request(to, at) EXCEPT !.reason = TRUE, !.override = o])]
    <3> DEFINE to == IF ship[s].status \in {"TRANSIT_HUB_RECEIVED", "DESTINATION_HUB_RECEIVED"}
                     THEN "TRANSIT_HUB_DISPATCHED" ELSE "ORIGIN_DISPATCHED"
    <3>1. to \in {"ORIGIN_DISPATCHED", "TRANSIT_HUB_DISPATCHED"} OBVIOUS
    <3>2. /\ CanApply(s, ship[s], [Request(to, at) EXCEPT !.reason = TRUE, !.override = o])
          /\ ship' = [ship EXCEPT ![s] =
                Moved(ship[s], [Request(to, at) EXCEPT !.reason = TRUE, !.override = o])]
      BY <1>4 DEF Departure
    <3> HIDE DEF to
    <3>3. QED BY <3>1, <3>2
  <2>2. at \in Leg BY DEF Leg
  <2>3. QED BY <1>3, <2>1, <2>2
<1>5. ASSUME NEW at \in Leg, NEW o \in Overrides, Damage(s, at, o)
      PROVE  \A x \in Shipments : Change(x)
  BY <1>3, <1>5 DEF Damage
<1>6. CASE (\E at \in Units : Hold(s, at)) \/ Release(s)
  <2>1. PICK h \in BOOLEAN : ship' = [ship EXCEPT ![s] = [ship[s] EXCEPT !.held = h]]
    BY <1>6 DEF Hold, Release
  <2>2. ASSUME ship'[s] = [ship[s] EXCEPT !.held = h] PROVE Kept(s) BY <2>2 DEF Kept, Row
  <2>3. QED BY <2>1, <2>2, OneParcel DEF Change
<1>7. QED BY <1>1, <1>2, <1>4, <1>5, <1>6 DEF Scan

\* Bagging.
LEMMA ChangeBag ==
    ASSUME TypeOK, BagNext
    PROVE  \A x \in Shipments : Change(x)
<1>a. ship \in [Shipments -> Row] BY DEF TypeOK
<1>b. {"ORIGIN_BAGGED", "ORIGIN_BRANCH_RECEIVED", "ORIGIN_DISPATCHED"} \subseteq Statuses
  BY DEF Statuses
<1>1. CASE UNCHANGED ship BY <1>1 DEF Change, Kept
<1>2. ASSUME NEW s \in Shipments, NEW v,
             ship' = [ship EXCEPT ![s] = SetShipmentCustody(@, @.unit, @.user, v, @.trip)]
      PROVE  \A x \in Shipments : Change(x)
  <2> DEFINE r == SetShipmentCustody(ship[s], ship[s].unit, ship[s].user, v, ship[s].trip)
  <2>1. ship' = [ship EXCEPT ![s] = r] BY <1>2
  <2>2. ASSUME ship'[s] = r PROVE Kept(s) BY <1>a, <2>2 DEF Kept, Row
  <2> HIDE DEF r
  <2>3. QED BY <1>a, <2>1, <2>2, OneParcel DEF Change
<1>3. ASSUME NEW b \in Bags, NEW s \in Shipments, addOne(b, s) PROVE \A x \in Shipments : Change(x)
  <2> DEFINE q == Request("ORIGIN_BAGGED", bag[b].from)
             r == Moved(ship[s], q)
  <2>1. CASE ship[s].dir = "FORWARD"
    <3>1. CanApply(s, ship[s], q) /\ ship' = [ship EXCEPT ![s] = [r EXCEPT !.bag = b]]
      BY <1>3, <2>1 DEF addOne
    <3>2. Onward(r, ship[s], "ORIGIN_BAGGED") BY <1>a, <1>b, MovedLemma
    <3>3. q.to = "ORIGIN_BAGGED" BY DEF Request
    <3> HIDE DEF q, r
    <3> DEFINE r2 == [r EXCEPT !.bag = b]
    <3>4. Onward(r2, ship[s], "ORIGIN_BAGGED") BY <3>2 DEF Onward, Row
    <3>5. ship' = [ship EXCEPT ![s] = r2] BY <3>1
    <3> HIDE DEF r2
    <3>6. ship' \in [Shipments -> Row] BY <1>a, <3>4, <3>5 DEF Onward
    <3>7. ASSUME ship'[s] = r2 PROVE Advanced(s)
      BY <3>1, <3>3, <3>4, <3>6, <3>7, AdvancedLemma DEF Onward
    <3>8. QED BY <1>a, <3>5, <3>7, OneParcel DEF Change
  <2>2. CASE ship[s].dir # "FORWARD" BY <1>2, <1>3, <2>2 DEF addOne
  <2>3. QED BY <2>1, <2>2
<1>4. ASSUME NEW b \in Bags, NEW s \in Shipments, RemoveItem(b, s)
      PROVE  \A x \in Shipments : Change(x)
  <2> DEFINE q == [Request("ORIGIN_BRANCH_RECEIVED", bag[b].from) EXCEPT !.reason = TRUE]
             r == Moved(ship[s], q)
  <2>1. CASE ship[s].status = "ORIGIN_BAGGED"
    <3>1. CanApply(s, ship[s], q) /\ ship' = [ship EXCEPT ![s] = [r EXCEPT !.bag = Nil]]
      BY <1>4, <2>1 DEF RemoveItem
    <3>2. Onward(r, ship[s], "ORIGIN_BRANCH_RECEIVED") BY <1>a, <1>b, MovedLemma
    <3>3. q.to = "ORIGIN_BRANCH_RECEIVED" BY DEF Request
    <3> HIDE DEF q, r
    <3> DEFINE r2 == [r EXCEPT !.bag = Nil]
    <3>4. Onward(r2, ship[s], "ORIGIN_BRANCH_RECEIVED") BY <3>2 DEF Onward, Row
    <3>5. ship' = [ship EXCEPT ![s] = r2] BY <3>1
    <3> HIDE DEF r2
    <3>6. ship' \in [Shipments -> Row] BY <1>a, <3>4, <3>5 DEF Onward
    <3>7. ASSUME ship'[s] = r2 PROVE Advanced(s)
      BY <2>1, <3>1, <3>3, <3>4, <3>6, <3>7, AdvancedLemma DEF Onward
    <3>8. QED BY <1>a, <3>5, <3>7, OneParcel DEF Change
  <2>2. CASE ship[s].status # "ORIGIN_BAGGED" BY <1>2, <1>4, <2>2 DEF RemoveItem
  <2>3. QED BY <2>1, <2>2
<1>5. ASSUME NEW b \in Bags, DispatchBag(b) PROVE \A x \in Shipments : Change(x)
  <2> DEFINE q == Request("ORIGIN_DISPATCHED", bag[b].from)
             r(s) == Moved(ship[s], q)
             moving == {s \in InBag(b) : Find(ship[s].status, q.to)}
  <2>1. /\ \A s \in moving : CanApply(s, ship[s], q)
        /\ ship' = [s \in Shipments |-> IF s \in moving THEN r(s) ELSE ship[s]]
    BY <1>5 DEF DispatchBag
  <2>2. ASSUME NEW s \in Shipments PROVE Onward(r(s), ship[s], "ORIGIN_DISPATCHED")
    BY <1>a, <1>b, MovedLemma
  <2>3. q.to = "ORIGIN_DISPATCHED" BY DEF Request
  <2> HIDE DEF q, r, moving
  <2>4. ship' \in [Shipments -> Row] BY <1>a, <2>1, <2>2 DEF Onward
  <2>5. ASSUME NEW s \in Shipments PROVE Change(s)
    <3>1. CASE s \in moving
      <4>1. ship'[s] = r(s) /\ CanApply(s, ship[s], q) BY <2>1, <3>1
      <4>2. Advanced(s) BY <4>1, <2>2, <2>3, <2>4, AdvancedLemma DEF Onward
      <4>3. QED BY <4>2 DEF Change
    <3>2. CASE s \notin moving BY <2>1, <3>2 DEF Change, Kept
    <3>3. QED BY <3>1, <3>2
  <2>6. QED BY <2>5
<1>6. QED
  <2>1. PICK b \in Bags :
          \/ UNCHANGED ship
          \/ \E s \in Shipments : addOne(b, s) \/ RemoveItem(b, s)
          \/ DispatchBag(b)
    BY DEF BagNext, CreateBag, Correct, CloseBag, ReceiveBag, OpenAtDestination
  <2>2. QED BY <1>1, <1>3, <1>4, <1>5, <2>1

\* Manifests.
LEMMA ChangeManifest ==
    ASSUME TypeOK, ManifestNext
    PROVE  \A x \in Shipments : Change(x)
<1>a. ship \in [Shipments -> Row] BY DEF TypeOK
<1>1. CASE UNCHANGED ship BY <1>1 DEF Change, Kept
<1>2. ASSUME NEW m \in Manifests, DispatchManifest(m) PROVE \A x \in Shipments : Change(x)
  <2> DEFINE to(s) == dispatchTarget(ship[s].status)
             q(s) == Request(to(s), manifest[m].from)
             r(s) == Moved(ship[s], q(s))
             moving == {s \in OnManifest(m) : to(s) # Nil}
  <2>1. /\ \A s \in moving : CanApply(s, ship[s], q(s))
        /\ ship' = [s \in Shipments |-> IF s \in moving THEN r(s) ELSE ship[s]]
    BY <1>2 DEF DispatchManifest
  <2>2. ASSUME NEW s \in Shipments, s \in moving
        PROVE  to(s) \in {"ORIGIN_DISPATCHED", "TRANSIT_HUB_DISPATCHED"}
    BY <2>2 DEF dispatchTarget
  <2>3. ASSUME NEW s \in Shipments, s \in moving PROVE Onward(r(s), ship[s], to(s))
    <3>1. to(s) \in Statuses BY <2>2, <2>3 DEF Statuses
    <3>2. QED BY <3>1, <1>a, MovedLemma
  <2>4. ASSUME NEW s PROVE q(s).to = to(s) BY DEF Request
  <2> HIDE DEF to, q, r, moving
  <2>5. ship' \in [Shipments -> Row] BY <1>a, <2>1, <2>3 DEF Onward
  <2>6. ASSUME NEW s \in Shipments PROVE Change(s)
    <3>1. CASE s \in moving
      <4>1. ship'[s] = r(s) /\ CanApply(s, ship[s], q(s)) BY <2>1, <3>1
      <4>2. Advanced(s) BY <3>1, <4>1, <2>2, <2>3, <2>4, <2>5, AdvancedLemma DEF Onward
      <4>3. QED BY <4>2 DEF Change
    <3>2. CASE s \notin moving BY <2>1, <3>2 DEF Change, Kept
    <3>3. QED BY <3>1, <3>2
  <2>7. QED BY <2>6
<1>3. ASSUME NEW m \in Manifests, NEW at \in Units, ReceiveManifest(m, at)
      PROVE  \A x \in Shipments : Change(x)
  <2> DEFINE to(s) == receiveTargetAt(s, at)
             r(s) == Moved(ship[s], Request(to(s), at))
             moving == {s \in OnManifest(m) : Find(ship[s].status, to(s))}
  <2>1. ship' = [s \in Shipments |-> IF s \in moving THEN ReceivedAt(r(s), at) ELSE ship[s]]
    BY <1>3 DEF ReceiveManifest
  <2>2. ASSUME NEW s \in Shipments, s \in moving
        PROVE  to(s) \in {"DESTINATION_BRANCH_RECEIVED", "DESTINATION_HUB_RECEIVED",
                          "TRANSIT_HUB_RECEIVED"} /\ Find(ship[s].status, to(s))
    BY <2>2, TargetLemma
  <2>3. ASSUME NEW s \in Shipments, s \in moving PROVE Onward(r(s), ship[s], to(s))
    <3>1. to(s) \in Statuses BY <2>2, <2>3 DEF Statuses
    <3>2. QED BY <3>1, <1>a, MovedLemma
  <2> HIDE DEF to, r, moving
  <2>4. ASSUME NEW s \in Shipments PROVE Change(s)
    <3>1. CASE s \in moving
      <4>1. ship'[s] = ReceivedAt(r(s), at) BY <2>1, <3>1
      <4>2. r(s) \in Row /\ r(s).status = to(s) BY <2>3, <3>1 DEF Onward
      <4>a. \A x \in Row : /\ ReceivedAt(x, at).status = x.status
                           /\ ReceivedAt(x, at).unit = at /\ ReceivedAt(x, at).trip = Nil
        BY ReceivedLemma
      <4>3. ship'[s].status = to(s) /\ ship'[s].unit = at /\ ship'[s].trip = Nil
        BY <4>1, <4>2, <4>a
      <4>4. Taken(s) BY <4>3, <2>2, <3>1 DEF Taken
      <4>5. QED BY <4>4 DEF Change
    <3>2. CASE s \notin moving BY <2>1, <3>2 DEF Change, Kept
    <3>3. QED BY <3>1, <3>2
  <2>5. QED BY <2>4
<1>4. QED
  <2>1. PICK m \in Manifests :
          \/ UNCHANGED ship
          \/ DispatchManifest(m)
          \/ \E at \in Units : ReceiveManifest(m, at)
    BY DEF ManifestNext, CheckTrip, CreateChecked, CreateManifest, addBag, addLooseShipment,
           RemoveBag, RemoveLoose, CloseManifest
  <2>2. QED BY <1>1, <1>2, <1>3, <2>1

\* Trips: a parcel changes only by boarding a trip that leaves in the same step.
LEMMA ChangeLinehaul ==
    ASSUME TypeOK, LinehaulNext
    PROVE  \A x \in Shipments : Change(x)
<1>a. ship \in [Shipments -> Row] /\ trip \in [Trips -> TripRow] BY DEF TypeOK
<1>1. CASE UNCHANGED ship BY <1>1 DEF Change, Kept
<1>2. ASSUME NEW t \in Trips, Depart(t) PROVE \A x \in Shipments : Change(x)
  <2> DEFINE r(s) == [ship[s] EXCEPT !.status = "IN_TRANSIT", !.trip = t, !.unit = Nil]
  <2>1. ship' = [s \in Shipments |-> IF s \in Boarding(t) THEN r(s) ELSE ship[s]]
    BY <1>2 DEF Depart
  <2>2. ASSUME NEW s \in Shipments PROVE r(s).status = "IN_TRANSIT" /\ r(s).trip = t /\ r(s).unit = Nil
    BY <1>a, BoardedLemma
  <2> HIDE DEF r
  <2>3. trip[t].status \notin Gone /\ trip'[t].status \in Gone
    BY <1>2, <1>a DEF Depart, MayDepart, Gone, TripRow
  <2>4. ASSUME NEW s \in Shipments, s \in Boarding(t) PROVE Boarded(s, t)
    <3>1. ship'[s] = r(s) BY <2>1, <2>4
    <3>2. ship[s].status \in {"ORIGIN_DISPATCHED", "TRANSIT_HUB_DISPATCHED"} \cup Undispatched
      BY <2>4, TableLemma DEF Boarding
    <3>3. ASSUME ship[s].status \in Undispatched PROVE ~ship[s].held
      <4> DEFINE q == Request(dispatchShipment(s), trip[t].from)
      <4>1. CanApply(s, ship[s], q) BY <1>2, <2>4, <3>3 DEF Depart
      <4>2. q.to = dispatchShipment(s) BY DEF Request
      <4>3. <<ship[s].status, dispatchShipment(s)>> \in BlockedByHold
        BY <3>3 DEF dispatchShipment, Undispatched, BlockedByHold
      <4> HIDE DEF q
      <4>4. QED BY <4>1, <4>2, <4>3 DEF CanApply
    <3>4. QED BY <3>1, <3>2, <3>3, <2>2, <2>3 DEF Boarded
  <2>5. ASSUME NEW s \in Shipments, s \notin Boarding(t) PROVE Kept(s) BY <2>1, <2>5 DEF Kept
  <2>6. QED BY <2>4, <2>5 DEF Change
<1>3. QED
  <2>1. PICK t \in Trips : UNCHANGED ship \/ Depart(t)
    BY DEF LinehaulNext, CreateTrip, Assign, AttachManifest, arriveAtLeg, Arrive, CloseTrip,
           CancelTrip
  <2>2. QED BY <1>1, <1>2, <2>1

\* Returns.
LEMMA ChangeRto ==
    ASSUME TypeOK, RtoNext
    PROVE  \A x \in Shipments : Change(x)
<1>a. ship \in [Shipments -> Row] BY DEF TypeOK
<1>b. {"RTO_INITIATED", "RTO_IN_TRANSIT", "RTO_DELIVERED"} \subseteq Statuses BY DEF Statuses
<1>t. ship' \in [Shipments -> Row] BY TypeRto DEF TypeOK
<1>1. CASE UNCHANGED ship BY <1>1 DEF Change, Kept
<1>2. ASSUME NEW s \in Shipments, Initiate(s) PROVE \A x \in Shipments : Change(x)
  <2> DEFINE q == [Request("RTO_INITIATED", Nil) EXCEPT !.reason = TRUE]
             r == Moved(ship[s], q)
  <2>1. CanApply(s, ship[s], q) /\ ship' = [ship EXCEPT ![s] = r] BY <1>2 DEF Initiate
  <2>2. Onward(r, ship[s], "RTO_INITIATED") BY <1>a, <1>b, MovedLemma
  <2>3. q.to = "RTO_INITIATED" BY DEF Request
  <2> HIDE DEF q, r
  <2>4. ASSUME ship'[s] = r PROVE Advanced(s)
    BY <1>t, <2>1, <2>2, <2>3, <2>4, AdvancedLemma DEF Onward
  <2>5. QED BY <1>a, <2>1, <2>4, OneParcel DEF Change
<1>3. ASSUME NEW s \in Shipments, NEW at \in Leg, DispatchReturn(s, at)
      PROVE  \A x \in Shipments : Change(x)
  <2> DEFINE q == [Request("RTO_IN_TRANSIT", at) EXCEPT !.dir = "REVERSE"]
             r == Moved(ship[s], q)
  <2>1. CanApply(s, ship[s], q) /\ ship' = [ship EXCEPT ![s] = r] BY <1>3 DEF DispatchReturn
  <2>2. Onward(r, ship[s], "RTO_IN_TRANSIT") BY <1>a, <1>b, MovedLemma
  <2>3. q.to = "RTO_IN_TRANSIT" BY DEF Request
  <2> HIDE DEF q, r
  <2>4. ASSUME ship'[s] = r PROVE Advanced(s)
    BY <1>t, <2>1, <2>2, <2>3, <2>4, AdvancedLemma DEF Onward
  <2>5. QED BY <1>a, <2>1, <2>4, OneParcel DEF Change
<1>4. ASSUME NEW s \in Shipments, NEW at \in Leg, CompleteReturn(s, at)
      PROVE  \A x \in Shipments : Change(x)
  <2> DEFINE q == [Request("RTO_DELIVERED", at) EXCEPT !.dir = "REVERSE"]
             r == Moved(ship[s], q)
             r2 == [r EXCEPT !.unit = Nil, !.user = Nil]
  <2>1. CanApply(s, ship[s], q) /\ ship' = [ship EXCEPT ![s] = r2] BY <1>4 DEF CompleteReturn
  <2>2. Onward(r, ship[s], "RTO_DELIVERED") BY <1>a, <1>b, MovedLemma
  <2>3. q.to = "RTO_DELIVERED" BY DEF Request
  <2> HIDE DEF q, r
  <2>4. ship[s].status = "RTO_IN_TRANSIT" BY <2>1, <2>3, ApplyLemma, TableLemma
  <2>5. r2.status = "RTO_DELIVERED" BY <2>2 DEF Onward, Row
  <2> HIDE DEF r2
  <2>c. rto'[s] = "RETURNED" BY <1>4 DEF CompleteReturn, TypeOK
  <2>6. ASSUME ship'[s] = r2 PROVE Returned(s) BY <2>4, <2>5, <2>6, <2>c DEF Returned
  <2>7. QED BY <1>a, <2>1, <2>6, OneParcel DEF Change
<1>5. ASSUME NEW s \in Shipments, NEW at \in Units, ReceiveAtFacility(s, at)
      PROVE  \A x \in Shipments : Change(x)
  <2> DEFINE r == SetShipmentCustody(ship[s], at, Nil, Nil, Nil)
  <2>1. rto[s] \in ActiveCases /\ ship' = [ship EXCEPT ![s] = r] BY <1>5 DEF ReceiveAtFacility
  <2>2. r.status = ship[s].status /\ r.unit = at /\ r.trip = Nil BY <1>a, CustodyLemma
  <2> HIDE DEF r
  <2>3. ASSUME ship'[s] = r PROVE TakenBack(s) BY <2>1, <2>2, <2>3 DEF TakenBack
  <2>4. QED BY <1>a, <2>1, <2>3, OneParcel DEF Change
<1>6. QED BY <1>1, <1>2, <1>3, <1>4, <1>5 DEF RtoNext, FailReturn

\* Whatever the step, each parcel changes in one of the ways above.
LEMMA EveryChange ==
    ASSUME TypeOK, [Next]_vars
    PROVE  \A s \in Shipments : Change(s)
<1>a. ship \in [Shipments -> Row] BY DEF TypeOK
<1>1. CASE ParcelNext BY <1>1, <1>a, ChangeScan DEF ParcelNext
<1>2. CASE BagNext BY <1>2, ChangeBag
<1>3. CASE ManifestNext BY <1>3, ChangeManifest
<1>4. CASE LinehaulNext BY <1>4, ChangeLinehaul
<1>5. CASE RtoNext BY <1>5, ChangeRto
<1>6. CASE UNCHANGED vars BY <1>6 DEF vars, Change, Kept
<1>7. QED BY <1>1, <1>2, <1>3, <1>4, <1>5, <1>6 DEF Next

\* Trips leave one at a time and never un-leave.
GoneTrips == {t \in Trips : trip[t].status \in Gone}

LEMMA OneLeaves ==
    ASSUME TypeOK, [Next]_vars
    PROVE  \/ GoneTrips' = GoneTrips
           \/ \E t \in Trips \ GoneTrips : GoneTrips' = GoneTrips \cup {t}
<1>a. trip \in [Trips -> TripRow] BY DEF TypeOK
<1>1. CASE UNCHANGED trip BY <1>1 DEF GoneTrips
<1>2. ASSUME NEW t \in Trips, Depart(t)
      PROVE  \E u \in Trips \ GoneTrips : GoneTrips' = GoneTrips \cup {u}
  <2>1. t \notin GoneTrips BY <1>2 DEF Depart, MayDepart, GoneTrips, Gone
  <2>2. trip' = [trip EXCEPT ![t].status = "DEPARTED"] BY <1>2 DEF Depart
  <2>3. trip'[t].status = "DEPARTED" BY <1>a, <2>2 DEF TripRow
  <2>4. ASSUME NEW u \in Trips, u # t PROVE trip'[u] = trip[u] BY <1>a, <2>2, <2>4
  <2>5. GoneTrips' = GoneTrips \cup {t} BY <2>3, <2>4 DEF GoneTrips, Gone
  <2>6. QED BY <2>1, <2>5
<1>3. ASSUME NEW t \in Trips, NEW r, trip' = [trip EXCEPT ![t] = r],
             r.status \in Gone <=> trip[t].status \in Gone
      PROVE  GoneTrips' = GoneTrips
  BY <1>3, <1>a DEF GoneTrips
<1>4. ASSUME NEW t \in Trips, NEW l \in Lanes, NEW stops \in SUBSET Units, NEW c \in BOOLEAN,
             CreateTrip(t, l[1], l[2], stops, c)
      PROVE  GoneTrips' = GoneTrips
  <2> DEFINE r == [trip[t] EXCEPT !.status = "PLANNED", !.from = l[1], !.to = l[2],
                                  !.stops = stops, !.crewed = c]
  <2>1. trip' = [trip EXCEPT ![t] = r] BY <1>4 DEF CreateTrip
  <2>2. r.status \in Gone <=> trip[t].status \in Gone
    BY <1>4, <1>a DEF CreateTrip, TripRow, Gone
  <2> HIDE DEF r
  <2>3. QED BY <1>3, <2>1, <2>2
<1>5. ASSUME NEW t \in Trips, NEW st, trip' = [trip EXCEPT ![t].status = st],
             st \in Gone <=> trip[t].status \in Gone
      PROVE  GoneTrips' = GoneTrips
  <2> DEFINE r == [trip[t] EXCEPT !.status = st]
  <2>1. trip' = [trip EXCEPT ![t] = r] BY <1>5
  <2>2. r.status = st BY <1>a DEF TripRow
  <2> HIDE DEF r
  <2>3. QED BY <1>3, <1>5, <2>1, <2>2
<1>6. ASSUME NEW t \in Trips, Assign(t) PROVE GoneTrips' = GoneTrips
  <2> DEFINE r == [trip[t] EXCEPT !.crewed = TRUE]
  <2>1. trip' = [trip EXCEPT ![t] = r] BY <1>6 DEF Assign
  <2>2. r.status = trip[t].status BY <1>a DEF TripRow
  <2> HIDE DEF r
  <2>3. QED BY <1>3, <2>1, <2>2
<1>7. ASSUME NEW t \in Trips, NEW at \in Units, arriveAtLeg(t, at) PROVE GoneTrips' = GoneTrips
  <2> DEFINE st == IF trip[t].status \in {"DEPARTED", "ARRIVED"} THEN "IN_TRANSIT"
                                                                ELSE trip[t].status
  <2>1. trip' = [trip EXCEPT ![t].status = st] BY <1>7, <1>a DEF arriveAtLeg
  <2>2. st \in Gone <=> trip[t].status \in Gone BY DEF Gone
  <2> HIDE DEF st
  <2>3. QED BY <1>5, <2>1, <2>2
<1>8. ASSUME NEW t \in Trips, NEW at \in Units, Arrive(t, at) PROVE GoneTrips' = GoneTrips
  BY <1>5, <1>8 DEF Arrive, Gone
<1>9. ASSUME NEW t \in Trips, CloseTrip(t) \/ CancelTrip(t) PROVE GoneTrips' = GoneTrips
  BY <1>5, <1>9 DEF CloseTrip, CancelTrip, Gone
<1>10. CASE LinehaulNext
  BY <1>10, <1>1, <1>2, <1>4, <1>6, <1>7, <1>8, <1>9 DEF LinehaulNext, AttachManifest
<1>11. CASE ManifestNext
  BY <1>11, <1>1 DEF ManifestNext, CheckTrip, CreateChecked, CreateManifest, addBag,
     addLooseShipment, RemoveBag, RemoveLoose, CloseManifest, DispatchManifest, ReceiveManifest
<1>12. QED BY <1>1, <1>10, <1>11 DEF Next, ParcelNext, vars

\* A case is opened only as its parcel becomes RTO_INITIATED.
LEMMA CaseOpens ==
    ASSUME TypeOK, [Next]_vars, NEW s \in Shipments, rto'[s] \in ActiveCases
    PROVE  rto[s] \in ActiveCases \/ ship'[s].status = "RTO_INITIATED"
<1>a. ship \in [Shipments -> Row] /\ rto \in [Shipments -> CaseStatuses] BY DEF TypeOK
<1>1. CASE UNCHANGED rto BY <1>1
<1>2. ASSUME NEW x \in Shipments, Initiate(x)
      PROVE  rto[s] \in ActiveCases \/ ship'[s].status = "RTO_INITIATED"
  <2> DEFINE r == Moved(ship[x], [Request("RTO_INITIATED", Nil) EXCEPT !.reason = TRUE])
  <2>1. "RTO_INITIATED" \in Statuses BY DEF Statuses
  <2>2. Onward(r, ship[x], "RTO_INITIATED") BY <1>a, <2>1, MovedLemma
  <2>3. ship' = [ship EXCEPT ![x] = r] /\ rto' = [rto EXCEPT ![x] = "INITIATED"]
    BY <1>2 DEF Initiate
  <2> HIDE DEF r
  <2>4. QED BY <1>a, <2>2, <2>3 DEF Onward
<1>3. ASSUME NEW x \in Shipments, NEW v, rto[x] \in ActiveCases, rto' = [rto EXCEPT ![x] = v]
      PROVE  rto[s] \in ActiveCases
  BY <1>3, <1>a
<1>4. ASSUME NEW x \in Shipments, NEW at \in Leg, DispatchReturn(x, at) \/ CompleteReturn(x, at)
      PROVE  rto[s] \in ActiveCases
  BY <1>3, <1>4 DEF DispatchReturn, CompleteReturn, ActiveCases, CaseStatuses
<1>5. ASSUME NEW x \in Shipments, (\E at \in Units : ReceiveAtFacility(x, at)) \/ FailReturn(x)
      PROVE  rto[s] \in ActiveCases
  BY <1>3, <1>5 DEF ReceiveAtFacility, FailReturn
<1>6. CASE RtoNext BY <1>2, <1>4, <1>5, <1>6 DEF RtoNext
<1>7. QED BY <1>1, <1>6 DEF Next, ParcelNext, vars

-----------------------------------------------------------------------------
(***************************************************************************)
(* Custody.                                                                *)
(***************************************************************************)

\* Each part of the inductive invariant, for one parcel and one step.
LEMMA RowStep ==
    ASSUME TypeOK, CustodyInv, [Next]_vars, NEW s \in Shipments
    PROVE  RowInv(ship'[s])
<1>a. ship \in [Shipments -> Row] BY DEF TypeOK
<1>b. RowInv(ship[s]) BY DEF CustodyInv
<1>c. Nil \notin Units /\ Nil \notin Trips BY NilAssumption
<1>1. CASE Kept(s) BY <1>1, <1>b DEF Kept, RowInv
<1>2. CASE Advanced(s) BY <1>2, <1>b, TableLemma DEF Advanced, RowInv, Standing, Anywhere
<1>3. CASE Taken(s) BY <1>3, <1>c DEF Taken, RowInv, Standing, Anywhere
<1>4. CASE TakenBack(s)
  <2>1. ship[s].status \in {"RTO_INITIATED", "RTO_IN_TRANSIT"} BY <1>4 DEF TakenBack, CustodyInv
  <2>2. QED BY <1>4, <1>c, <2>1 DEF TakenBack, RowInv, Standing, Anywhere
<1>5. ASSUME NEW t \in Trips, Boarded(s, t) PROVE RowInv(ship'[s])
  BY <1>5, <1>c DEF Boarded, RowInv, Standing, Anywhere
<1>6. CASE Returned(s) BY <1>6 DEF Returned, RowInv, Standing, Anywhere
<1>7. QED BY <1>1, <1>2, <1>3, <1>4, <1>5, <1>6, EveryChange DEF Change

\* A vehicle recorded on a parcel has left.
LEMMA AboardStep ==
    ASSUME TypeOK, CustodyInv, [Next]_vars, NEW s \in Shipments,
           ship'[s].status \in {"IN_TRANSIT"} \cup Anywhere, ship'[s].trip # Nil
    PROVE  trip'[ship'[s].trip].status \in Gone
<1>a. TypeOK' BY TypeStep
<1>b. ship[s] \in Row /\ ship'[s] \in Row BY <1>a DEF TypeOK
<1>1. ASSUME ship[s].trip = ship'[s].trip, ship[s].status \in {"IN_TRANSIT"} \cup Anywhere
      PROVE  trip'[ship'[s].trip].status \in Gone
  <2>1. ship[s].trip \in GoneTrips BY <1>1, <1>b DEF CustodyInv, GoneTrips, Row
  <2>2. ship[s].trip \in GoneTrips' BY <2>1, OneLeaves
  <2>3. QED BY <1>1, <2>2 DEF GoneTrips
<1>2. CASE Kept(s) BY <1>1, <1>2 DEF Kept
<1>3. CASE Advanced(s)
  <2>1. RowInv(ship[s]) BY DEF CustodyInv
  <2>2. ship[s].status \in {"IN_TRANSIT"} \cup Anywhere
    BY <1>3, <2>1, TableLemma DEF Advanced, RowInv, Standing, Anywhere
  <2>3. QED BY <1>1, <1>3, <2>2 DEF Advanced
<1>4. CASE Taken(s) \/ TakenBack(s) BY <1>4 DEF Taken, TakenBack
<1>5. ASSUME NEW t \in Trips, Boarded(s, t) PROVE trip'[ship'[s].trip].status \in Gone
  BY <1>5 DEF Boarded
<1>6. CASE Returned(s) BY <1>6 DEF Returned, Anywhere
<1>7. QED BY <1>2, <1>3, <1>4, <1>5, <1>6, EveryChange DEF Change

\* A parcel with an open case is on its way back.
LEMMA CaseStep ==
    ASSUME TypeOK, CustodyInv, [Next]_vars, NEW s \in Shipments, rto'[s] \in ActiveCases
    PROVE  ship'[s].status \in {"RTO_INITIATED", "RTO_IN_TRANSIT"}
<1>1. CASE ship'[s].status = "RTO_INITIATED" BY <1>1
<1>2. CASE rto[s] \in ActiveCases
  <2>1. ship[s].status \in {"RTO_INITIATED", "RTO_IN_TRANSIT"} BY <1>2 DEF CustodyInv
  <2>2. CASE Kept(s) \/ TakenBack(s) BY <2>1, <2>2 DEF Kept, TakenBack
  <2>3. CASE Advanced(s) BY <2>1, <2>3, TableLemma DEF Advanced
  <2>4. CASE Taken(s) BY <2>1, <2>4, ReceiptLemma DEF Taken
  <2>5. ~ \E t \in Trips : Boarded(s, t) BY <2>1 DEF Boarded, Undispatched
  <2>6. ~ Returned(s) BY DEF Returned, ActiveCases
  <2>7. QED BY <2>2, <2>3, <2>4, <2>5, <2>6, EveryChange DEF Change
<1>3. QED BY <1>1, <1>2, CaseOpens

\* The inductive invariant.
LEMMA CustodyInvariant == Spec => [](TypeOK /\ CustodyInv)
<1>1. Init => TypeOK /\ CustodyInv
  <2> SUFFICES ASSUME Init PROVE TypeOK /\ CustodyInv
    OBVIOUS
  <2>1. \A s \in Shipments : ship[s].status = "BOOKED" /\ rto[s] = "NONE"
    BY DEF Init, ShipInit, RtoInit
  <2>2. CustodyInv BY <2>1 DEF CustodyInv, RowInv, Standing, Anywhere, ActiveCases
  <2>3. QED BY <2>2, TypeInit
<1>2. TypeOK /\ CustodyInv /\ [Next]_vars => (TypeOK /\ CustodyInv)'
  <2> SUFFICES ASSUME TypeOK, CustodyInv, [Next]_vars PROVE (TypeOK /\ CustodyInv)'
    OBVIOUS
  <2>1. TypeOK' BY TypeStep
  <2>2. CustodyInv' BY RowStep, AboardStep, CaseStep DEF CustodyInv
  <2>3. QED BY <2>1, <2>2
<1>3. QED BY <1>1, <1>2, PTL DEF Spec

\* Whatever the operators do, a parcel the network has is held by exactly one
\* facility or one vehicle that has left: the custody columns written by Apply,
\* SetShipmentCustody and trip Depart never disagree.
THEOREM ExactlyOneHolder == Spec => []OneHolder
<1>1. TypeOK /\ CustodyInv => OneHolder
  <2> SUFFICES ASSUME TypeOK, CustodyInv, NEW s \in Shipments,
                      ship[s].status \notin Uncollected \cup terminalStatuses
               PROVE  /\ (ship[s].unit = Nil) # (ship[s].trip = Nil)
                      /\ ship[s].trip # Nil => trip[ship[s].trip].status \in Gone
    BY DEF OneHolder
  <2>1. RowInv(ship[s]) BY DEF CustodyInv
  <2>2. ship[s].status \in {"IN_TRANSIT"} \cup Anywhere \cup Standing
    BY <2>1 DEF RowInv, Uncollected, terminalStatuses
  <2>3. (ship[s].unit = Nil) # (ship[s].trip = Nil) BY <2>1, <2>2 DEF RowInv
  <2>4. ship[s].trip # Nil => trip[ship[s].trip].status \in Gone
    BY <2>1, <2>2 DEF RowInv, CustodyInv
  <2>5. QED BY <2>3, <2>4
<1>2. QED BY <1>1, CustodyInvariant, PTL

\* A parcel put on hold before its dispatch is not dispatched while the hold
\* lasts, whichever of the four ways of dispatching is tried.
THEOREM HoldStopsDispatch == Spec => HeldNotDispatched
<1>1. TypeOK /\ [Next]_vars =>
        [\A s \in Shipments :
            ship[s].held /\ ship[s].status \in Undispatched =>
              ship'[s].status \notin {"ORIGIN_DISPATCHED", "TRANSIT_HUB_DISPATCHED",
                                      "IN_TRANSIT"}]_vars
  <2> SUFFICES ASSUME TypeOK, [Next]_vars, NEW s \in Shipments,
                      ship[s].held, ship[s].status \in Undispatched
               PROVE  ship'[s].status \notin {"ORIGIN_DISPATCHED", "TRANSIT_HUB_DISPATCHED",
                                              "IN_TRANSIT"}
    OBVIOUS
  <2>1. CASE Kept(s) BY <2>1 DEF Kept, Undispatched
  <2>2. CASE Advanced(s) BY <2>2, TableLemma DEF Advanced, Undispatched, BlockedByHold
  <2>3. CASE Taken(s) BY <2>3 DEF Taken
  <2>4. CASE TakenBack(s) BY <2>4 DEF TakenBack, Undispatched
  <2>5. ~ \E t \in Trips : Boarded(s, t) BY DEF Boarded
  <2>6. CASE Returned(s) BY <2>6 DEF Returned
  <2>7. QED BY <2>1, <2>2, <2>3, <2>4, <2>5, <2>6, EveryChange DEF Change
<1>2. QED BY <1>1, TypeCorrect, PTL DEF Spec, HeldNotDispatched

-----------------------------------------------------------------------------
(***************************************************************************)
(* The refinement.                                                         *)
(***************************************************************************)

\* What happens to one parcel is one of the four moves of Custody.
LEMMA HopStep ==
    ASSUME TypeOK, CustodyInv, [Next]_vars, NEW s \in Shipments
    PROVE  \/ /\ PhaseOf(ship'[s]) = PhaseOf(ship[s])
              /\ PlaceOf(ship'[s]) = PlaceOf(ship[s])
           \/ /\ PhaseOf(ship[s]) # "settled"
              /\ PhaseOf(ship'[s]) = "facility" /\ PlaceOf(ship'[s]) \in Units
           \/ /\ PhaseOf(ship[s]) = "facility"
              /\ PhaseOf(ship'[s]) = "vehicle" /\ PlaceOf(ship'[s]) \in GoneTrips' \ GoneTrips
           \/ /\ PhaseOf(ship[s]) # "settled"
              /\ PhaseOf(ship'[s]) = "settled" /\ PlaceOf(ship'[s]) = Nil
<1>a. RowInv(ship[s]) BY DEF CustodyInv
<1>b. Nil \notin Trips BY NilAssumption
<1>1. CASE Kept(s) BY <1>1 DEF Kept, PhaseOf, PlaceOf
<1>2. CASE Advanced(s)
  BY <1>2, TableLemma DEF Advanced, PhaseOf, PlaceOf, terminalStatuses, Uncollected
<1>3. CASE Taken(s)
  BY <1>3, ReceiptLemma DEF Taken, PhaseOf, PlaceOf, terminalStatuses, Uncollected
<1>4. CASE TakenBack(s)
  <2>1. ship[s].status \in {"RTO_INITIATED", "RTO_IN_TRANSIT"} BY <1>4 DEF TakenBack, CustodyInv
  <2>2. QED BY <1>4, <2>1 DEF TakenBack, PhaseOf, PlaceOf, terminalStatuses, Uncollected
<1>5. ASSUME NEW t \in Trips, Boarded(s, t)
      PROVE  /\ PhaseOf(ship[s]) = "facility"
             /\ PhaseOf(ship'[s]) = "vehicle" /\ PlaceOf(ship'[s]) \in GoneTrips' \ GoneTrips
  <2>1. ship[s].trip = Nil BY <1>5, <1>a DEF Boarded, RowInv, Standing, Undispatched
  <2>2. t \in GoneTrips' \ GoneTrips BY <1>5 DEF Boarded, GoneTrips
  <2>3. QED
    BY <1>5, <1>b, <2>1, <2>2
    DEF Boarded, PhaseOf, PlaceOf, terminalStatuses, Uncollected, Undispatched
<1>6. CASE Returned(s) BY <1>6 DEF Returned, PhaseOf, PlaceOf, terminalStatuses, Uncollected
<1>7. QED BY <1>1, <1>2, <1>3, <1>4, <1>5, <1>6, EveryChange DEF Change

\* The movement modules implement Custody for any network: parcels never jump
\* from vehicle to vehicle, board only a trip that is just leaving and only
\* from a facility, and never move once settled.
THEOREM MovementImplementsCustody == Spec => CustodySpec
<1>1. Init => C!Init
  <2> SUFFICES ASSUME Init PROVE C!Init
    OBVIOUS
  <2>1. \A s \in Shipments : ship[s].status = "BOOKED" BY DEF Init, ShipInit
  <2>2. \A s \in Shipments : PhaseOf(ship[s]) = "sender" /\ PlaceOf(ship[s]) = Nil
    BY <2>1 DEF PhaseOf, PlaceOf, Uncollected, terminalStatuses
  <2>3. {t \in Trips : trip[t].status \in Gone} = {} BY DEF Init, TripInit, Gone
  <2>4. QED BY <2>2, <2>3 DEF C!Init
<1>2. TypeOK /\ CustodyInv /\ [Next]_vars =>
        [C!Next]_<<[s \in Shipments |-> PhaseOf(ship[s])], [s \in Shipments |-> PlaceOf(ship[s])],
                   {t \in Trips : trip[t].status \in Gone}>>
  <2> SUFFICES ASSUME TypeOK, CustodyInv, [Next]_vars PROVE C!Next
    OBVIOUS
  <2>1. \/ GoneTrips' = GoneTrips
        \/ \E t \in Trips \ GoneTrips : GoneTrips' = GoneTrips \cup {t}
    BY OneLeaves
  <2>2. ASSUME NEW s \in Shipments PROVE C!Stay(s) \/ C!TakeIn(s) \/ C!Board(s) \/ C!Settle(s)
    <3>1. QED BY HopStep DEF C!Stay, C!TakeIn, C!Board, C!Settle, GoneTrips
  <2>3. QED BY <2>1, <2>2 DEF C!Next, GoneTrips
<1>3. QED BY <1>1, <1>2, CustodyInvariant, PTL DEF Spec, CustodySpec, C!Spec

-----------------------------------------------------------------------------
(***************************************************************************)
(* Bags and manifests: what one operation may do to one bag, to its        *)
(* contents and to one manifest.                                           *)
(***************************************************************************)

\* A bag is opened, closed with what it holds declared, or moved on by one
\* status; what was declared stays.
BagFate(b) ==
    \/ bag'[b] = bag[b]
    \/ bag[b].status = "NONE" /\ bag'[b].status = "OPEN"
    \/ /\ bag[b].status = "OPEN" /\ bag'[b].status = "CLOSED"
       /\ bag'[b].declared = InBag(b) /\ item' = item
    \/ /\ <<bag[b].status, bag'[b].status>> \in {<<"CLOSED", "DISPATCHED">>,
             <<"DISPATCHED", "RECEIVED">>, <<"RECEIVED", "OPENED">>}
       /\ bag'[b].declared = bag[b].declared

\* Parcels come into a bag only while it is open.
ItemFate(b) ==
    \/ \A s \in Shipments : item'[b][s] # item[b][s] => item'[b][s] = "REMOVED"
    \/ bag[b].status = "OPEN" /\ bag' = bag

\* A manifest is created, filled and emptied as a draft, closed with what it
\* holds declared, and sent and received with its bags.
ManifestFate(m) ==
    \/ /\ manifest'[m].status \in {"NONE", "CHECKED", "DRAFT"}
       /\ \A b \in LoadedBags(m)' : b \in LoadedBags(m) \/ bag'[b].status = "CLOSED"
    \/ /\ LoadedBags(m)' \subseteq LoadedBags(m) /\ LoadedLoose(m)' \subseteq LoadedLoose(m)
       /\ manifest'[m].bags = manifest[m].bags /\ manifest'[m].loose = manifest[m].loose
       /\ manifest'[m].status = manifest[m].status
    \/ /\ LoadedBags(m)' = LoadedBags(m) /\ LoadedLoose(m)' = LoadedLoose(m)
       /\ manifest'[m].bags = LoadedBags(m) /\ manifest'[m].loose = LoadedLoose(m)
       /\ manifest[m].status = "DRAFT" /\ manifest'[m].status = "CLOSED"
    \/ /\ LoadedBags(m)' \subseteq LoadedBags(m) /\ LoadedLoose(m)' \subseteq LoadedLoose(m)
       /\ manifest'[m].bags = manifest[m].bags /\ manifest'[m].loose = manifest[m].loose
       /\ manifest[m].status = "CLOSED" /\ manifest'[m].status = "DISPATCHED"
       /\ \A b \in LoadedBags(m) : bag[b].status = "CLOSED" => bag'[b].status = "DISPATCHED"
    \/ /\ LoadedBags(m)' \subseteq LoadedBags(m) /\ LoadedLoose(m)' \subseteq LoadedLoose(m)
       /\ manifest'[m].bags = manifest[m].bags /\ manifest'[m].loose = manifest[m].loose
       /\ manifest[m].status = "DISPATCHED" /\ manifest'[m].status = "RECEIVED"
       /\ \A b \in LoadedBags(m) : bag[b].status = "DISPATCHED" => bag'[b].status = "RECEIVED"

\* What the operations on bags do to bags and their contents.
LEMMA FateBag ==
    ASSUME TypeOK, BagNext, NEW b \in Bags
    PROVE  BagFate(b) /\ ItemFate(b)
<1>a. bag \in [Bags -> BagRow] /\ item \in [Bags -> [Shipments -> ItemStatuses]] BY DEF TypeOK
<1>1. ASSUME NEW c \in Bags, NEW l \in Lanes, NEW dir \in Directions,
             CreateBag(c, l[1], l[2], dir)
      PROVE  BagFate(b) /\ ItemFate(b)
  BY <1>a, <1>1 DEF CreateBag, BagFate, ItemFate, BagRow
<1>2. ASSUME NEW c \in Bags, NEW s \in Shipments, addOne(c, s) PROVE BagFate(b) /\ ItemFate(b)
  BY <1>a, <1>2 DEF addOne, BagFate, ItemFate
<1>3. ASSUME NEW c \in Bags, NEW s \in Shipments, RemoveItem(c, s) \/ Correct(c, s)
      PROVE  BagFate(b) /\ ItemFate(b)
  <2>1. bag' = bag /\ item' = [item EXCEPT ![c][s] = "REMOVED"]
    BY <1>3 DEF RemoveItem, Correct
  <2>2. QED BY <1>a, <2>1 DEF BagFate, ItemFate
<1>4. ASSUME NEW c \in Bags, CloseBag(c) PROVE BagFate(b) /\ ItemFate(b)
  BY <1>a, <1>4 DEF CloseBag, BagFate, ItemFate, BagRow
<1>5. ASSUME NEW c \in Bags,
             DispatchBag(c) \/ \E at \in Units : ReceiveBag(c, at) \/ OpenAtDestination(c, at)
      PROVE  BagFate(b) /\ ItemFate(b)
  <2>1. PICK to : /\ <<bag[c].status, to>> \in {<<"CLOSED", "DISPATCHED">>,
                        <<"DISPATCHED", "RECEIVED">>, <<"RECEIVED", "OPENED">>}
                  /\ bag' = [bag EXCEPT ![c].status = to] /\ item' = item
    BY <1>5 DEF DispatchBag, ReceiveBag, OpenAtDestination
  <2>2. QED BY <1>a, <2>1 DEF BagFate, ItemFate, BagRow
<1>6. QED BY <1>1, <1>2, <1>3, <1>4, <1>5 DEF BagNext

\* What dispatch and receipt of a manifest, and the departure of a trip, do to
\* bags.
LEMMA FateMoved ==
    ASSUME TypeOK, ManifestNext \/ LinehaulNext, NEW b \in Bags
    PROVE  BagFate(b) /\ ItemFate(b)
<1>a. bag \in [Bags -> BagRow] BY DEF TypeOK
<1>1. CASE UNCHANGED <<bag, item>> BY <1>1 DEF BagFate, ItemFate
<1>2. ASSUME item' = item,
             \/ bag'[b] = bag[b]
             \/ bag[b].status = "CLOSED" /\ bag'[b] = [bag[b] EXCEPT !.status = "DISPATCHED"]
             \/ bag[b].status = "DISPATCHED" /\ bag'[b] = [bag[b] EXCEPT !.status = "RECEIVED"]
      PROVE  BagFate(b) /\ ItemFate(b)
  BY <1>a, <1>2 DEF BagFate, ItemFate, BagRow
<1>3. ASSUME NEW m \in Manifests, DispatchManifest(m) PROVE BagFate(b) /\ ItemFate(b)
  <2> DEFINE S == LoadedBags(m)
  <2>1. /\ \A c \in Bags : c \in S => bag[c].status = "CLOSED"
        /\ bag' = [c \in Bags |-> IF c \in S THEN [bag[c] EXCEPT !.status = "DISPATCHED"] ELSE bag[c]]
        /\ item' = item
    BY <1>3 DEF DispatchManifest
  <2> HIDE DEF S
  <2>2. QED BY <1>2, <2>1
<1>4. ASSUME NEW m \in Manifests, NEW at \in Units, ReceiveManifest(m, at)
      PROVE  BagFate(b) /\ ItemFate(b)
  <2> DEFINE S == {c \in LoadedBags(m) : bag[c].status = "DISPATCHED"}
  <2>1. /\ \A c \in Bags : c \in S => bag[c].status = "DISPATCHED"
        /\ bag' = [c \in Bags |-> IF c \in S THEN [bag[c] EXCEPT !.status = "RECEIVED"] ELSE bag[c]]
        /\ item' = item
    BY <1>4 DEF ReceiveManifest
  <2> HIDE DEF S
  <2>2. QED BY <1>2, <2>1
<1>5. ASSUME NEW t \in Trips, Depart(t) PROVE BagFate(b) /\ ItemFate(b)
  <2> DEFINE L == {m \in OnTrip(t) : manifest[m].status = "CLOSED"}
             S == {c \in UNION {LoadedBags(m) : m \in L} : bag[c].status = "CLOSED"}
  <2>1. /\ \A c \in Bags : c \in S => bag[c].status = "CLOSED"
        /\ bag' = [c \in Bags |-> IF c \in S THEN [bag[c] EXCEPT !.status = "DISPATCHED"] ELSE bag[c]]
        /\ item' = item
    BY <1>5 DEF Depart
  <2> HIDE DEF S
  <2>2. QED BY <1>2, <2>1
<1>6. CASE ManifestNext
  <2>1. PICK m \in Manifests :
          \/ UNCHANGED <<bag, item>>
          \/ DispatchManifest(m)
          \/ \E at \in Units : ReceiveManifest(m, at)
    BY <1>6 DEF ManifestNext, CheckTrip, CreateChecked, CreateManifest, addBag, addLooseShipment,
           RemoveBag, RemoveLoose, CloseManifest
  <2>2. QED BY <1>1, <1>3, <1>4, <2>1
<1>7. CASE LinehaulNext
  <2>1. PICK t \in Trips : UNCHANGED <<bag, item>> \/ Depart(t)
    BY <1>7 DEF LinehaulNext, CreateTrip, Assign, AttachManifest, arriveAtLeg, Arrive, CloseTrip,
           CancelTrip
  <2>2. QED BY <1>1, <1>5, <2>1
<1>8. QED BY <1>6, <1>7

\* The fate of every bag in every step.
LEMMA EveryBag ==
    ASSUME TypeOK, [Next]_vars, NEW b \in Bags
    PROVE  BagFate(b) /\ ItemFate(b)
<1>1. CASE UNCHANGED <<bag, item>> BY <1>1 DEF BagFate, ItemFate
<1>2. QED BY <1>1, FateBag, FateMoved DEF Next, ParcelNext, vars

\* The fate of every manifest in every step.
LEMMA EveryManifest ==
    ASSUME TypeOK, [Next]_vars, NEW m \in Manifests
    PROVE  ManifestFate(m)
<1>a. manifest \in [Manifests -> ManifestRow] BY DEF TypeOK
<1>b. mbag \in [Manifests -> [Bags -> ContentStatuses]] BY DEF TypeOK
<1>c. loose \in [Manifests -> [Shipments -> ContentStatuses]] BY DEF TypeOK
<1>d. bag \in [Bags -> BagRow] BY DEF TypeOK
<1>1. CASE UNCHANGED <<manifest, mbag, loose>>
  BY <1>1 DEF ManifestFate, LoadedBags, LoadedLoose
<1>2. ASSUME UNCHANGED <<mbag, loose>>, NEW n \in Manifests, NEW r,
             manifest' = [manifest EXCEPT ![n] = r], r.status \in {"NONE", "CHECKED", "DRAFT"}
      PROVE  ManifestFate(m)
  BY <1>a, <1>2 DEF ManifestFate, LoadedBags, LoadedLoose
<1>3. ASSUME NEW n \in Manifests, NEW l \in Lanes, NEW dir \in Directions,
             \/ CreateManifest(n, l[1], l[2], dir)
             \/ \E t \in Trips : CheckTrip(n, t, l[1], l[2], dir)
      PROVE  ManifestFate(m)
  <2>1. CASE CreateManifest(n, l[1], l[2], dir)
    <3> DEFINE r == [manifest[n] EXCEPT !.status = "DRAFT", !.from = l[1], !.to = l[2], !.dir = dir]
    <3>1. manifest' = [manifest EXCEPT ![n] = r] /\ UNCHANGED <<mbag, loose>>
      BY <2>1 DEF CreateManifest
    <3>2. r.status = "DRAFT" BY <1>a DEF ManifestRow
    <3> HIDE DEF r
    <3>3. QED BY <1>2, <3>1, <3>2
  <2>2. ASSUME NEW t \in Trips, CheckTrip(n, t, l[1], l[2], dir) PROVE ManifestFate(m)
    <3> DEFINE r == [manifest[n] EXCEPT !.status = "CHECKED", !.from = l[1], !.to = l[2],
                                        !.dir = dir, !.trip = t]
    <3>1. manifest' = [manifest EXCEPT ![n] = r] /\ UNCHANGED <<mbag, loose>>
      BY <2>2 DEF CheckTrip
    <3>2. r.status = "CHECKED" BY <1>a DEF ManifestRow
    <3> HIDE DEF r
    <3>3. QED BY <1>2, <3>1, <3>2
  <2>3. QED BY <1>3, <2>1, <2>2
<1>0. ASSUME NEW n \in Manifests, CreateChecked(n) PROVE ManifestFate(m)
  <2> DEFINE r == [manifest[n] EXCEPT !.status = "DRAFT"]
  <2>1. manifest' = [manifest EXCEPT ![n] = r] /\ UNCHANGED <<mbag, loose>>
    BY <1>0 DEF CreateChecked
  <2>2. r.status = "DRAFT" BY <1>a DEF ManifestRow
  <2> HIDE DEF r
  <2>3. QED BY <1>2, <2>1, <2>2
<1>4. ASSUME NEW n \in Manifests, NEW b \in Bags, addBag(n, b) PROVE ManifestFate(m)
  <2>1. /\ manifest[n].status = "DRAFT" /\ bag'[b].status = "CLOSED"
        /\ mbag' = [mbag EXCEPT ![n][b] = "LOADED"] /\ UNCHANGED <<manifest, loose>>
    BY <1>4 DEF addBag
  <2>2. CASE m = n
    BY <1>b, <2>1, <2>2 DEF ManifestFate, LoadedBags
  <2>3. CASE m # n
    <3>1. mbag'[m] = mbag[m] BY <1>b, <2>1, <2>3
    <3>2. QED BY <2>1, <3>1 DEF ManifestFate, LoadedBags, LoadedLoose
  <2>4. QED BY <2>2, <2>3
<1>5. ASSUME NEW n \in Manifests, NEW b \in Bags, RemoveBag(n, b) PROVE ManifestFate(m)
  <2>1. mbag' = [mbag EXCEPT ![n][b] = "REMOVED"] /\ UNCHANGED <<manifest, loose>>
    BY <1>5 DEF RemoveBag
  <2>2. LoadedBags(m)' \subseteq LoadedBags(m) BY <1>b, <2>1 DEF LoadedBags
  <2>3. LoadedLoose(m)' = LoadedLoose(m) BY <2>1 DEF LoadedLoose
  <2>4. QED BY <2>1, <2>2, <2>3 DEF ManifestFate
<1>6. ASSUME NEW n \in Manifests, NEW s \in Shipments, addLooseShipment(n, s)
      PROVE  ManifestFate(m)
  <2>1. /\ manifest[n].status = "DRAFT"
        /\ loose' = [loose EXCEPT ![n][s] = "LOADED"] /\ UNCHANGED <<manifest, mbag>>
    BY <1>6 DEF addLooseShipment
  <2>2. LoadedBags(m)' = LoadedBags(m) BY <2>1 DEF LoadedBags
  <2>3. CASE m = n BY <2>1, <2>2, <2>3 DEF ManifestFate
  <2>4. CASE m # n
    <3>1. loose'[m] = loose[m] BY <1>c, <2>1, <2>4
    <3>2. QED BY <2>1, <2>2, <3>1 DEF ManifestFate, LoadedLoose
  <2>5. QED BY <2>3, <2>4
<1>7. ASSUME NEW n \in Manifests, NEW s \in Shipments, RemoveLoose(n, s) PROVE ManifestFate(m)
  <2>1. loose' = [loose EXCEPT ![n][s] = "REMOVED"] /\ UNCHANGED <<manifest, mbag>>
    BY <1>7 DEF RemoveLoose
  <2>2. LoadedLoose(m)' \subseteq LoadedLoose(m) BY <1>c, <2>1 DEF LoadedLoose
  <2>3. LoadedBags(m)' = LoadedBags(m) BY <2>1 DEF LoadedBags
  <2>4. QED BY <2>1, <2>2, <2>3 DEF ManifestFate
<1>8. ASSUME NEW n \in Manifests, CloseManifest(n) PROVE ManifestFate(m)
  <2>1. LoadedBags(m)' = LoadedBags(m) /\ LoadedLoose(m)' = LoadedLoose(m)
    BY <1>8 DEF CloseManifest, LoadedBags, LoadedLoose
  <2>2. /\ manifest[n].status = "DRAFT"
        /\ manifest' = [manifest EXCEPT ![n] =
              [@ EXCEPT !.status = "CLOSED", !.bags = LoadedBags(n), !.loose = LoadedLoose(n)]]
    BY <1>8 DEF CloseManifest
  <2>3. CASE m = n
    <3>1. /\ manifest'[m].status = "CLOSED" /\ manifest'[m].bags = LoadedBags(m)
          /\ manifest'[m].loose = LoadedLoose(m)
      BY <1>a, <2>2, <2>3 DEF ManifestRow
    <3>2. QED BY <2>1, <2>2, <2>3, <3>1 DEF ManifestFate
  <2>4. CASE m # n
    <3>1. manifest'[m] = manifest[m] BY <1>a, <2>2, <2>4
    <3>2. QED BY <2>1, <3>1 DEF ManifestFate
  <2>5. QED BY <2>3, <2>4
<1>9. ASSUME NEW n \in Manifests, DispatchManifest(n) PROVE ManifestFate(m)
  <2>1. LoadedBags(m)' = LoadedBags(m) /\ LoadedLoose(m)' = LoadedLoose(m)
    BY <1>9 DEF DispatchManifest, LoadedBags, LoadedLoose
  <2>2. /\ manifest[n].status = "CLOSED"
        /\ manifest' = [manifest EXCEPT ![n].status = "DISPATCHED"]
        /\ bag' = [b \in Bags |-> IF b \in LoadedBags(n)
                                  THEN [bag[b] EXCEPT !.status = "DISPATCHED"] ELSE bag[b]]
    BY <1>9 DEF DispatchManifest
  <2>3. CASE m = n
    <3>1. /\ manifest'[m].status = "DISPATCHED" /\ manifest'[m].bags = manifest[m].bags
          /\ manifest'[m].loose = manifest[m].loose
      BY <1>a, <2>2, <2>3 DEF ManifestRow
    <3>2. \A b \in LoadedBags(m) : bag'[b].status = "DISPATCHED"
      BY <1>d, <2>2, <2>3 DEF LoadedBags, BagRow
    <3>3. QED BY <2>1, <2>2, <2>3, <3>1, <3>2 DEF ManifestFate
  <2>4. CASE m # n
    <3>1. manifest'[m] = manifest[m] BY <1>a, <2>2, <2>4
    <3>2. QED BY <2>1, <3>1 DEF ManifestFate
  <2>5. QED BY <2>3, <2>4
<1>10. ASSUME NEW n \in Manifests, NEW at \in Units, ReceiveManifest(n, at)
       PROVE  ManifestFate(m)
  <2> DEFINE S == {b \in LoadedBags(n) : bag[b].status = "DISPATCHED"}
  <2>1. LoadedLoose(m)' = LoadedLoose(m) BY <1>10 DEF ReceiveManifest, LoadedLoose
  <2>2. /\ manifest[n].status = "DISPATCHED"
        /\ manifest' = [manifest EXCEPT ![n].status = "RECEIVED"]
        /\ bag' = [b \in Bags |-> IF b \in S THEN [bag[b] EXCEPT !.status = "RECEIVED"] ELSE bag[b]]
        /\ mbag' = [mbag EXCEPT ![n] = [b \in Bags |-> IF b \in S THEN "RECEIVED" ELSE mbag[n][b]]]
    BY <1>10 DEF ReceiveManifest
  <2>3. CASE m = n
    <3>1. /\ manifest'[m].status = "RECEIVED" /\ manifest'[m].bags = manifest[m].bags
          /\ manifest'[m].loose = manifest[m].loose
      BY <1>a, <2>2, <2>3 DEF ManifestRow
    <3>2. \A b \in LoadedBags(m) : bag[b].status = "DISPATCHED" => bag'[b].status = "RECEIVED"
      BY <1>d, <2>2, <2>3 DEF LoadedBags, BagRow
    <3>3. LoadedBags(m)' \subseteq LoadedBags(m) BY <1>b, <2>2, <2>3 DEF LoadedBags
    <3>4. QED BY <2>1, <2>2, <2>3, <3>1, <3>2, <3>3 DEF ManifestFate
  <2>4. CASE m # n
    <3>1. manifest'[m] = manifest[m] /\ mbag'[m] = mbag[m] BY <1>a, <1>b, <2>2, <2>4
    <3>2. QED BY <2>1, <3>1 DEF ManifestFate, LoadedBags
  <2>5. QED BY <2>3, <2>4
<1>11. ASSUME NEW t \in Trips, Depart(t) PROVE ManifestFate(m)
  <2> DEFINE L == {n \in OnTrip(t) : manifest[n].status = "CLOSED"}
             S == {b \in UNION {LoadedBags(n) : n \in L} : bag[b].status = "CLOSED"}
  <2>1. LoadedBags(m)' = LoadedBags(m) /\ LoadedLoose(m)' = LoadedLoose(m)
    BY <1>11 DEF Depart, LoadedBags, LoadedLoose
  <2>2. /\ manifest' = [n \in Manifests |->
              IF n \in L THEN [manifest[n] EXCEPT !.status = "DISPATCHED"] ELSE manifest[n]]
        /\ bag' = [b \in Bags |-> IF b \in S THEN [bag[b] EXCEPT !.status = "DISPATCHED"] ELSE bag[b]]
    BY <1>11 DEF Depart
  <2>3. CASE m \in L
    <3>1. /\ manifest'[m].status = "DISPATCHED" /\ manifest'[m].bags = manifest[m].bags
          /\ manifest'[m].loose = manifest[m].loose
      BY <1>a, <2>2, <2>3 DEF ManifestRow
    <3>2. ASSUME NEW b \in LoadedBags(m), bag[b].status = "CLOSED"
          PROVE  bag'[b].status = "DISPATCHED"
      <4>1. b \in Bags /\ b \in S BY <2>3, <3>2 DEF LoadedBags
      <4> HIDE DEF S
      <4>2. QED BY <1>d, <2>2, <4>1 DEF BagRow
    <3>3. manifest[m].status = "CLOSED" BY <2>3
    <3> HIDE DEF L, S
    <3>4. QED BY <2>1, <3>1, <3>2, <3>3 DEF ManifestFate
  <2>4. CASE m \notin L
    <3> HIDE DEF L, S
    <3>1. manifest'[m] = manifest[m] BY <2>2, <2>4
    <3>2. QED BY <2>1, <3>1 DEF ManifestFate
  <2>5. QED BY <2>3, <2>4
<1>12. ASSUME NEW t \in Trips, NEW n \in Manifests, AttachManifest(t, n) PROVE ManifestFate(m)
  <2>1. UNCHANGED <<mbag, loose>> /\ manifest' = [manifest EXCEPT ![n].trip = t]
    BY <1>12 DEF AttachManifest
  <2>2. /\ manifest'[m].status = manifest[m].status /\ manifest'[m].bags = manifest[m].bags
        /\ manifest'[m].loose = manifest[m].loose
    BY <1>a, <2>1 DEF ManifestRow
  <2>3. QED BY <2>1, <2>2 DEF ManifestFate, LoadedBags, LoadedLoose
<1>13. CASE ManifestNext
  BY <1>0, <1>3, <1>4, <1>5, <1>6, <1>7, <1>8, <1>9, <1>10, <1>13 DEF ManifestNext
<1>14. CASE LinehaulNext
  <2>1. PICK t \in Trips :
          \/ UNCHANGED <<manifest, mbag, loose>>
          \/ \E n \in Manifests : AttachManifest(t, n)
          \/ Depart(t)
    BY <1>14 DEF LinehaulNext, CreateTrip, Assign, arriveAtLeg, Arrive, CloseTrip, CancelTrip
  <2>2. QED BY <1>1, <1>11, <1>12, <2>1
<1>15. QED BY <1>1, <1>13, <1>14 DEF Next, ParcelNext, vars

\* The inductive form of BagsTravelWithManifest: a bag is loaded only once it is
\* closed, and nothing reopens it.
TravelInv ==
    /\ BagsTravelWithManifest
    /\ \A m \in Manifests : \A b \in LoadedBags(m) : bag[b].status \notin {"NONE", "OPEN"}

\* Every step of every operation keeps the bags with their manifest.
LEMMA TravelStep ==
    ASSUME TypeOK, TravelInv, [Next]_vars
    PROVE  TravelInv'
<1>a. bag \in [Bags -> BagRow] BY DEF TypeOK
<1>b. \A b \in Bags : bag[b].status \in BagStatuses BY <1>a DEF BagRow
<1>1. ASSUME NEW m \in Manifests, NEW b \in LoadedBags(m)'
      PROVE  bag'[b].status \notin {"NONE", "OPEN"}
  <2>1. b \in Bags BY <1>1 DEF LoadedBags
  <2>2. b \in LoadedBags(m) \/ bag'[b].status = "CLOSED" BY <1>1, EveryManifest DEF ManifestFate
  <2>3. BagFate(b) BY <2>1, EveryBag
  <2>4. QED BY <2>2, <2>3 DEF TravelInv, BagFate
<1>2. ASSUME NEW m \in Manifests, NEW b \in LoadedBags(m)', manifest'[m].status = "DISPATCHED"
      PROVE  bag'[b].status \in {"DISPATCHED", "RECEIVED", "OPENED", "RECONCILED"}
  <2>1. b \in Bags BY <1>2 DEF LoadedBags
  <2>2. ManifestFate(m) BY EveryManifest
  <2>3. b \in LoadedBags(m) BY <1>2, <2>2 DEF ManifestFate
  <2>4. BagFate(b) /\ bag[b].status \in BagStatuses BY <1>b, <2>1, EveryBag
  <2>5. CASE manifest[m].status = "DISPATCHED"
    BY <2>3, <2>4, <2>5 DEF TravelInv, BagsTravelWithManifest, BagFate
  <2>6. CASE /\ manifest[m].status = "CLOSED"
             /\ bag[b].status = "CLOSED" => bag'[b].status = "DISPATCHED"
    BY <2>3, <2>4, <2>6 DEF TravelInv, BagFate, BagStatuses
  <2>7. QED BY <1>2, <2>2, <2>3, <2>5, <2>6 DEF ManifestFate
<1>3. ASSUME NEW m \in Manifests, NEW b \in LoadedBags(m)',
             manifest'[m].status \in {"RECEIVED", "RECONCILED"}
      PROVE  bag'[b].status \in {"RECEIVED", "OPENED", "RECONCILED"}
  <2>1. b \in Bags BY <1>3 DEF LoadedBags
  <2>2. ManifestFate(m) BY EveryManifest
  <2>3. b \in LoadedBags(m) BY <1>3, <2>2 DEF ManifestFate
  <2>4. BagFate(b) /\ bag[b].status \in BagStatuses BY <1>b, <2>1, EveryBag
  <2>5. CASE manifest[m].status \in {"RECEIVED", "RECONCILED"}
    BY <2>3, <2>4, <2>5 DEF TravelInv, BagsTravelWithManifest, BagFate
  <2>6. CASE /\ manifest[m].status = "DISPATCHED"
             /\ bag[b].status = "DISPATCHED" => bag'[b].status = "RECEIVED"
    BY <2>3, <2>4, <2>6 DEF TravelInv, BagsTravelWithManifest, BagFate, BagStatuses
  <2>7. QED BY <1>3, <2>2, <2>3, <2>5, <2>6 DEF ManifestFate
<1>4. QED BY <1>1, <1>2, <1>3 DEF TravelInv, BagsTravelWithManifest

\* Whatever manifest Dispatch, trip Depart, bag dispatch and the receipts do in
\* whatever order, and however many bags and manifests there are, no bag stays
\* at the origin when its manifest leaves or on the road when it is received.
THEOREM BagsGoAlong == Spec => []BagsTravelWithManifest
<1>1. Init => TravelInv
  <2> SUFFICES ASSUME Init PROVE TravelInv OBVIOUS
  <2>1. \A m \in Manifests : LoadedBags(m) = {} BY DEF Init, ManifestInit, LoadedBags
  <2>2. QED BY <2>1 DEF TravelInv, BagsTravelWithManifest
<1>2. TypeOK /\ TravelInv /\ [Next]_vars => TravelInv' BY TravelStep
<1>3. TravelInv => BagsTravelWithManifest BY DEF TravelInv
<1>4. QED BY <1>1, <1>2, <1>3, TypeCorrect, PTL DEF Spec

\* Every step keeps the declarations complete.
LEMMA DeclaredStep ==
    ASSUME TypeOK, NothingUndeclared, [Next]_vars
    PROVE  NothingUndeclared'
<1>a. bag \in [Bags -> BagRow] /\ item \in [Bags -> [Shipments -> ItemStatuses]] BY DEF TypeOK
<1>1. ASSUME NEW b \in Bags, bag'[b].status \notin {"NONE", "OPEN"}
      PROVE  InBag(b)' \subseteq bag'[b].declared
  <2>1. BagFate(b) /\ ItemFate(b) BY EveryBag
  <2>2. ASSUME bag[b].status = "OPEN" PROVE bag'[b].declared = InBag(b) /\ item' = item
    BY <1>1, <2>1, <2>2 DEF BagFate
  <2>3. ASSUME bag[b].status # "OPEN" PROVE InBag(b)' \subseteq InBag(b)
    BY <2>1, <2>3 DEF ItemFate, InBag
  <2>4. CASE bag[b].status = "OPEN" BY <2>2, <2>4 DEF InBag
  <2>5. CASE bag[b].status # "OPEN"
    <3>1. /\ bag[b].status \notin {"NONE", "OPEN"}
          /\ bag'[b].declared = bag[b].declared
      BY <1>1, <2>1, <2>5 DEF BagFate
    <3>2. InBag(b) \subseteq bag[b].declared BY <3>1 DEF NothingUndeclared
    <3>3. QED BY <2>3, <2>5, <3>1, <3>2
  <2>6. QED BY <2>4, <2>5
<1>2. ASSUME NEW m \in Manifests, manifest'[m].status \notin {"NONE", "CHECKED", "DRAFT"}
      PROVE  LoadedBags(m)' \subseteq manifest'[m].bags /\ LoadedLoose(m)' \subseteq manifest'[m].loose
  <2>1. ManifestFate(m) BY EveryManifest
  <2>2. CASE manifest[m].status \notin {"NONE", "CHECKED", "DRAFT"}
    BY <1>2, <2>1, <2>2 DEF ManifestFate, NothingUndeclared
  <2>3. CASE manifest[m].status \in {"NONE", "CHECKED", "DRAFT"}
    BY <1>2, <2>1, <2>3 DEF ManifestFate
  <2>4. QED BY <2>2, <2>3
<1>3. QED BY <1>1, <1>2 DEF NothingUndeclared

-----------------------------------------------------------------------------
(***************************************************************************)
(* The direction and the bag of a parcel.                                  *)
(***************************************************************************)
\* Only the return operations turn a parcel round or give it a return status.
OnCourse(s) ==
    /\ ship'[s].dir = ship[s].dir
    /\ ship'[s].status = ship[s].status \/ ship'[s].status \notin Returning

\* The parcel says the same about its bag, or has left the bagged state.
SameBag(s) ==
    /\ ship'[s].bag = ship[s].bag \/ ship'[s].status # "ORIGIN_BAGGED"
    /\ ship'[s].status = "ORIGIN_BAGGED" => ship[s].status = "ORIGIN_BAGGED"

\* A request without a direction keeps the direction, and the engine itself
\* never touches the bag.
Straight(r2, r, to) == r2.dir = r.dir /\ r2.bag = r.bag /\ r2.status = to

LEMMA MovedColumns ==
    ASSUME NEW r \in Row, NEW to, NEW at
    PROVE  /\ Straight(Moved(r, Request(to, at)), r, to)
           /\ Straight(Moved(r, [Request(to, at) EXCEPT !.reason = TRUE]), r, to)
           /\ \A o : Straight(Moved(r, [Request(to, at) EXCEPT !.reason = TRUE, !.override = o]),
                              r, to)
<1>1. Straight(Moved(r, Request(to, at)), r, to)
  BY DEF Straight, Moved, Request, Row
<1>2. Straight(Moved(r, [Request(to, at) EXCEPT !.reason = TRUE]), r, to)
  BY DEF Straight, Moved, Request, Row
<1>3. ASSUME NEW o
      PROVE  Straight(Moved(r, [Request(to, at) EXCEPT !.reason = TRUE, !.override = o]), r, to)
  BY DEF Straight, Moved, Request, Row
<1>4. QED BY <1>1, <1>2, <1>3

\* Cancelling and scanning.
LEMMA CourseScan ==
    ASSUME ship \in [Shipments -> Row], NEW s \in Shipments, CancelShipment(s) \/ Scan(s),
           NEW x \in Shipments
    PROVE  OnCourse(x) /\ SameBag(x)
<1>0. ASSUME NEW r, ship' = [ship EXCEPT ![s] = r], r.dir = ship[s].dir,
             \/ r.status = ship[s].status /\ r.bag = ship[s].bag
             \/ r.status \notin Returning \cup {"ORIGIN_BAGGED"}
      PROVE  OnCourse(x) /\ SameBag(x)
  BY <1>0 DEF OnCourse, SameBag
<1>1. CASE CancelShipment(s)
  <2> DEFINE r == [ship[s] EXCEPT !.status = "CANCELLED"]
  <2>1. ship' = [ship EXCEPT ![s] = r] BY <1>1 DEF CancelShipment
  <2>2. r.dir = ship[s].dir /\ r.status = "CANCELLED" BY DEF Row
  <2> HIDE DEF r
  <2>3. QED BY <1>0, <2>1, <2>2 DEF Returning
<1>2. ASSUME NEW at \in Units, NEW o \in Overrides, Receive(s, at, o)
      PROVE  OnCourse(x) /\ SameBag(x)
  <2> DEFINE q(to) == [Request(to, at) EXCEPT !.reason = TRUE, !.override = o]
  <2>1. PICK to \in Statuses :
          /\ receiveTarget(s, at, to)
          /\ ship' = [ship EXCEPT ![s] =
                [ReceivedAt(Moved(ship[s], q(to)), at) EXCEPT !.user = Nil, !.bag = Nil]]
    BY <1>2 DEF Receive
  <2> DEFINE m == Moved(ship[s], q(to))
             r == [ReceivedAt(m, at) EXCEPT !.user = Nil, !.bag = Nil]
  <2>2. Onward(m, ship[s], to) BY MovedLemma
  <2>3. Straight(m, ship[s], to) BY MovedColumns
  <2>4. to \notin Returning \cup {"ORIGIN_BAGGED"}
    BY <2>1 DEF receiveTarget, receiveCandidates, Returning
  <2>5. ship' = [ship EXCEPT ![s] = r] BY <2>1
  <2> HIDE DEF m
  <2>6. r.status = to /\ r.dir = ship[s].dir BY <2>2, <2>3 DEF Onward, Straight, ReceivedAt, Row
  <2> HIDE DEF r
  <2>7. QED BY <1>0, <2>4, <2>5, <2>6
<1>3. ASSUME NEW at, NEW o,
             NEW to \in {"ORIGIN_DISPATCHED", "TRANSIT_HUB_DISPATCHED", "DAMAGED"},
             ship' = [ship EXCEPT ![s] =
                Moved(ship[s], [Request(to, at) EXCEPT !.reason = TRUE, !.override = o])]
      PROVE  OnCourse(x) /\ SameBag(x)
  <2> DEFINE r == Moved(ship[s], [Request(to, at) EXCEPT !.reason = TRUE, !.override = o])
  <2>1. Straight(r, ship[s], to) BY MovedColumns
  <2>2. ship' = [ship EXCEPT ![s] = r] BY <1>3
  <2> HIDE DEF r
  <2>3. QED BY <1>0, <2>1, <2>2 DEF Returning, Straight
<1>4. ASSUME NEW at \in Units, NEW o \in Overrides, Departure(s, at, o)
      PROVE  OnCourse(x) /\ SameBag(x)
  <2> DEFINE to == IF ship[s].status \in {"TRANSIT_HUB_RECEIVED", "DESTINATION_HUB_RECEIVED"}
                   THEN "TRANSIT_HUB_DISPATCHED" ELSE "ORIGIN_DISPATCHED"
  <2>1. to \in {"ORIGIN_DISPATCHED", "TRANSIT_HUB_DISPATCHED", "DAMAGED"} OBVIOUS
  <2>2. ship' = [ship EXCEPT ![s] =
                   Moved(ship[s], [Request(to, at) EXCEPT !.reason = TRUE, !.override = o])]
    BY <1>4 DEF Departure
  <2> HIDE DEF to
  <2>3. QED BY <1>3, <2>1, <2>2
<1>5. ASSUME NEW at \in Leg, NEW o \in Overrides, Damage(s, at, o)
      PROVE  OnCourse(x) /\ SameBag(x)
  BY <1>3, <1>5 DEF Damage
<1>6. CASE (\E at \in Units : Hold(s, at)) \/ Release(s)
  <2>1. PICK h \in BOOLEAN : ship' = [ship EXCEPT ![s] = [ship[s] EXCEPT !.held = h]]
    BY <1>6 DEF Hold, Release
  <2> DEFINE r == [ship[s] EXCEPT !.held = h]
  <2>2. r.dir = ship[s].dir /\ r.status = ship[s].status /\ r.bag = ship[s].bag BY DEF Row
  <2>3. ship' = [ship EXCEPT ![s] = r] BY <2>1
  <2> HIDE DEF r
  <2>4. QED BY <1>0, <2>2, <2>3
<1>7. QED BY <1>1, <1>2, <1>4, <1>5, <1>6 DEF Scan

\* Manifests and trips.
LEMMA CourseMoved ==
    ASSUME TypeOK, ManifestNext \/ LinehaulNext, NEW x \in Shipments
    PROVE  OnCourse(x) /\ SameBag(x)
<1>a. ship \in [Shipments -> Row] BY DEF TypeOK
<1>0. ASSUME ship'[x].dir = ship[x].dir, ship'[x].bag = ship[x].bag,
             ship'[x].status \notin Returning \cup {"ORIGIN_BAGGED"}
      PROVE  OnCourse(x) /\ SameBag(x)
  BY <1>0 DEF OnCourse, SameBag
<1>1. CASE ship'[x] = ship[x] BY <1>1 DEF OnCourse, SameBag
<1>2. ASSUME NEW m \in Manifests, DispatchManifest(m) PROVE OnCourse(x) /\ SameBag(x)
  <2> DEFINE to == dispatchTarget(ship[x].status)
             r == Moved(ship[x], Request(to, manifest[m].from))
             moving == {s \in OnManifest(m) : dispatchTarget(ship[s].status) # Nil}
  <2>1. ship'[x] = IF x \in moving THEN r ELSE ship[x] BY <1>2 DEF DispatchManifest
  <2>2. Straight(r, ship[x], to) BY <1>a, MovedColumns
  <2>3. x \in moving => to \notin Returning \cup {"ORIGIN_BAGGED"}
    BY DEF dispatchTarget, Returning
  <2> HIDE DEF r, moving, to
  <2>4. QED BY <1>0, <1>1, <2>1, <2>2, <2>3 DEF Straight
<1>3. ASSUME NEW m \in Manifests, NEW at \in Units, ReceiveManifest(m, at)
      PROVE  OnCourse(x) /\ SameBag(x)
  <2> DEFINE to == receiveTargetAt(x, at)
             y == Moved(ship[x], Request(to, at))
             r == ReceivedAt(y, at)
             moving == {s \in OnManifest(m) : Find(ship[s].status, receiveTargetAt(s, at))}
  <2>1. ship'[x] = IF x \in moving THEN r ELSE ship[x] BY <1>3 DEF ReceiveManifest
  <2>2. Straight(y, ship[x], to) BY <1>a, MovedColumns
  <2>3. ASSUME x \in moving
        PROVE  to \in Statuses /\ to \notin Returning \cup {"ORIGIN_BAGGED"}
    BY <2>3, TargetLemma DEF Returning, Statuses
  <2>4. x \in moving => Onward(y, ship[x], to) BY <1>a, <2>3, MovedLemma
  <2> HIDE DEF y, moving, to
  <2>5. x \in moving => r.dir = y.dir /\ r.bag = y.bag /\ r.status = y.status
    BY <2>4 DEF Onward, ReceivedAt, Row
  <2> HIDE DEF r
  <2>6. QED BY <1>0, <1>1, <2>1, <2>2, <2>3, <2>5 DEF Straight
<1>4. ASSUME NEW t \in Trips, Depart(t) PROVE OnCourse(x) /\ SameBag(x)
  <2> DEFINE r == [ship[x] EXCEPT !.status = "IN_TRANSIT", !.trip = t, !.unit = Nil]
  <2>1. ship'[x] = IF x \in Boarding(t) THEN r ELSE ship[x] BY <1>4 DEF Depart
  <2>2. r.dir = ship[x].dir /\ r.bag = ship[x].bag /\ r.status = "IN_TRANSIT" BY <1>a DEF Row
  <2> HIDE DEF r
  <2>3. QED BY <1>0, <1>1, <2>1, <2>2 DEF Returning
<1>5. CASE ManifestNext
  <2>1. PICK m \in Manifests :
          \/ UNCHANGED ship
          \/ DispatchManifest(m)
          \/ \E at \in Units : ReceiveManifest(m, at)
    BY <1>5 DEF ManifestNext, CheckTrip, CreateChecked, CreateManifest, addBag, addLooseShipment,
           RemoveBag, RemoveLoose, CloseManifest
  <2>2. QED BY <1>1, <1>2, <1>3, <2>1
<1>6. CASE LinehaulNext
  <2>1. PICK t \in Trips : UNCHANGED ship \/ Depart(t)
    BY <1>6 DEF LinehaulNext, CreateTrip, Assign, AttachManifest, arriveAtLeg, Arrive, CloseTrip,
           CancelTrip
  <2>2. QED BY <1>1, <1>4, <2>1
<1>7. QED BY <1>5, <1>6

\* Bagging: a parcel becomes bagged as it is put into a bag while it is in no
\* other, and stays bagged only while nobody takes it out of an open bag.
Bagged(s, b) ==
    /\ ship'[s].bag = b /\ item'[b][s] = "IN_BAG"
    /\ \A c \in Bags : c # b => item'[c][s] # "IN_BAG"

Undisturbed(s) ==
    \A c \in Bags : item'[c][s] # item[c][s] =>
        item'[c][s] = "REMOVED" /\ bag[c].status \notin {"NONE", "OPEN"}

LEMMA CourseBag ==
    ASSUME TypeOK, BagNext, NEW x \in Shipments
    PROVE  /\ OnCourse(x)
           /\ \/ ship'[x].status # "ORIGIN_BAGGED"
              \/ \E b \in Bags : Bagged(x, b)
              \/ SameBag(x) /\ Undisturbed(x)
<1> DEFINE Goal == /\ OnCourse(x)
                   /\ \/ ship'[x].status # "ORIGIN_BAGGED"
                      \/ \E b \in Bags : Bagged(x, b)
                      \/ SameBag(x) /\ Undisturbed(x)
<1>a. ship \in [Shipments -> Row] BY DEF TypeOK
<1>b. item \in [Bags -> [Shipments -> ItemStatuses]] BY DEF TypeOK
<1>c. ship'[x] = ship[x] => OnCourse(x) /\ SameBag(x) BY DEF OnCourse, SameBag
<1>1. ASSUME NEW b \in Bags, NEW s \in Shipments, addOne(b, s) PROVE Goal
  <2> DEFINE r == Moved(ship[s], Request("ORIGIN_BAGGED", bag[b].from))
             v == IF ship[s].dir = "FORWARD" THEN [r EXCEPT !.bag = b]
                                             ELSE [ship[s] EXCEPT !.bag = b]
  <2>1. ship' = [ship EXCEPT ![s] = v] /\ item' = [item EXCEPT ![b][s] = "IN_BAG"]
    BY <1>a, <1>1 DEF addOne, Row
  <2>2. ship[s].status # "ORIGIN_BAGGED" /\ \A c \in Bags : item[c][s] # "IN_BAG"
    BY <1>1 DEF addOne, checkCompatibility, MembershipFree
  <2>3. "ORIGIN_BAGGED" \in Statuses BY DEF Statuses
  <2>4. Onward(r, ship[s], "ORIGIN_BAGGED") /\ Straight(r, ship[s], "ORIGIN_BAGGED")
    BY <1>a, <2>3, MovedLemma, MovedColumns
  <2> HIDE DEF r
  <2>5. /\ v.dir = ship[s].dir /\ v.bag = b
        /\ v.status = "ORIGIN_BAGGED" \/ v.status = ship[s].status
    BY <1>a, <2>4 DEF Onward, Straight, Row
  <2> HIDE DEF v
  <2>6. CASE x = s
    <3>1. OnCourse(x) BY <1>a, <2>1, <2>5, <2>6 DEF OnCourse, Returning
    <3>2. Bagged(x, b) BY <1>a, <1>b, <2>1, <2>2, <2>5, <2>6 DEF Bagged
    <3>3. QED BY <3>1, <3>2
  <2>7. CASE x # s
    <3>1. ship'[x] = ship[x] BY <1>a, <2>1, <2>7
    <3>2. \A c \in Bags : item'[c][x] = item[c][x] BY <1>b, <2>1, <2>7
    <3>3. QED BY <1>c, <3>1, <3>2 DEF Undisturbed
  <2>8. QED BY <2>6, <2>7
<1>2. ASSUME NEW b \in Bags, NEW s \in Shipments, RemoveItem(b, s) PROVE Goal
  <2> DEFINE r == Moved(ship[s], [Request("ORIGIN_BRANCH_RECEIVED", bag[b].from)
                                     EXCEPT !.reason = TRUE])
             v == IF ship[s].status = "ORIGIN_BAGGED" THEN [r EXCEPT !.bag = Nil]
                                                      ELSE [ship[s] EXCEPT !.bag = Nil]
  <2>1. ship' = [ship EXCEPT ![s] = v] /\ item' = [item EXCEPT ![b][s] = "REMOVED"]
    BY <1>a, <1>2 DEF RemoveItem, Row
  <2>3. "ORIGIN_BRANCH_RECEIVED" \in Statuses BY DEF Statuses
  <2>4. Onward(r, ship[s], "ORIGIN_BRANCH_RECEIVED") /\ Straight(r, ship[s], "ORIGIN_BRANCH_RECEIVED")
    BY <1>a, <2>3, MovedLemma, MovedColumns
  <2> HIDE DEF r
  <2>5. /\ v.dir = ship[s].dir
        /\ v.status # "ORIGIN_BAGGED"
        /\ v.status = "ORIGIN_BRANCH_RECEIVED" \/ v.status = ship[s].status
    BY <1>a, <2>4 DEF Onward, Straight, Row
  <2> HIDE DEF v
  <2>6. CASE x = s BY <1>a, <2>1, <2>5, <2>6 DEF OnCourse, Returning
  <2>7. CASE x # s
    <3>1. ship'[x] = ship[x] BY <1>a, <2>1, <2>7
    <3>2. \A c \in Bags : item'[c][x] = item[c][x] BY <1>b, <2>1, <2>7
    <3>3. QED BY <1>c, <3>1, <3>2 DEF Undisturbed
  <2>8. QED BY <2>6, <2>7
<1>3. ASSUME NEW b \in Bags, NEW s \in Shipments, Correct(b, s) PROVE Goal
  <2>1. /\ bag[b].status \notin {"NONE", "OPEN"} /\ ship' = ship
        /\ item' = [item EXCEPT ![b][s] = "REMOVED"]
    BY <1>3 DEF Correct
  <2>2. Undisturbed(x) BY <1>b, <2>1 DEF Undisturbed
  <2>3. QED BY <1>c, <2>1, <2>2
<1>4. ASSUME NEW b \in Bags, DispatchBag(b) PROVE Goal
  <2> DEFINE r == Moved(ship[x], Request("ORIGIN_DISPATCHED", bag[b].from))
  <2>1. (ship'[x] = r \/ ship'[x] = ship[x]) /\ item' = item BY <1>4 DEF DispatchBag
  <2>2. Straight(r, ship[x], "ORIGIN_DISPATCHED") BY <1>a, MovedColumns
  <2> HIDE DEF r
  <2>3. QED BY <1>c, <2>1, <2>2 DEF Straight, OnCourse, Returning, Undisturbed
<1>5. CASE UNCHANGED <<ship, item>> BY <1>5, <1>c DEF Undisturbed
<1>6. QED
  <2>1. PICK b \in Bags :
          \/ UNCHANGED <<ship, item>>
          \/ \E s \in Shipments : addOne(b, s) \/ RemoveItem(b, s) \/ Correct(b, s)
          \/ DispatchBag(b)
    BY DEF BagNext, CreateBag, CloseBag, ReceiveBag, OpenAtDestination
  <2>2. QED BY <1>1, <1>2, <1>3, <1>4, <1>5, <2>1

\* Returns: the only operations that give a parcel a return status.
CaseFate(s) ==
    \/ rto'[s] = rto[s] /\ OnCourse(s)
    \/ /\ rto[s] \in ActiveCases /\ rto'[s] \in {"AT_ORIGIN_BRANCH", "RETURN_FAILED"}
       /\ ship'[s].status = ship[s].status /\ ship'[s].dir = ship[s].dir
    \/ /\ rto[s] \notin ActiveCases /\ rto'[s] = "INITIATED"
       /\ Find(ship[s].status, "RTO_INITIATED") /\ ship'[s].status = "RTO_INITIATED"
       /\ ship'[s].dir = ship[s].dir
    \/ /\ rto[s] = "INITIATED" /\ rto'[s] = "IN_TRANSIT"
       /\ ship[s].status = "RTO_INITIATED" /\ ship'[s].status = "RTO_IN_TRANSIT"
       /\ ship'[s].dir = "REVERSE"
    \/ /\ rto[s] \in ActiveCases /\ rto'[s] = "RETURNED"
       /\ ship[s].status = "RTO_IN_TRANSIT" /\ ship'[s].status = "RTO_DELIVERED"
       /\ ship'[s].dir = "REVERSE"

\* What the return operations do to a parcel and its case; a bagged parcel has
\* no open case, so none of them touches it.
LEMMA CourseRto ==
    ASSUME TypeOK, CustodyInv, RtoNext, NEW x \in Shipments
    PROVE  CaseFate(x) /\ (ship'[x] = ship[x] \/ ship'[x].status # "ORIGIN_BAGGED")
<1> DEFINE Goal == CaseFate(x) /\ (ship'[x] = ship[x] \/ ship'[x].status # "ORIGIN_BAGGED")
<1>a. ship \in [Shipments -> Row] /\ rto \in [Shipments -> CaseStatuses] BY DEF TypeOK
<1>b. {"RTO_INITIATED", "RTO_IN_TRANSIT", "RTO_DELIVERED"} \subseteq Statuses BY DEF Statuses
<1>1. ASSUME ship'[x] = ship[x], rto'[x] = rto[x] PROVE Goal
  BY <1>1 DEF CaseFate, OnCourse
<1>2. ASSUME NEW s \in Shipments, Initiate(s) PROVE Goal
  <2> DEFINE q == [Request("RTO_INITIATED", Nil) EXCEPT !.reason = TRUE]
             r == Moved(ship[s], q)
  <2>1. /\ rto[s] \notin ActiveCases /\ CanApply(s, ship[s], q)
        /\ ship' = [ship EXCEPT ![s] = r] /\ rto' = [rto EXCEPT ![s] = "INITIATED"]
    BY <1>2 DEF Initiate
  <2>2. Straight(r, ship[s], "RTO_INITIATED") BY <1>a, MovedColumns
  <2>3. q.to = "RTO_INITIATED" BY DEF Request
  <2> HIDE DEF q, r
  <2>4. Find(ship[s].status, "RTO_INITIATED") BY <2>1, <2>3, ApplyLemma
  <2>5. CASE x = s BY <1>a, <2>1, <2>2, <2>4, <2>5 DEF CaseFate, Straight
  <2>6. CASE x # s BY <1>a, <1>1, <2>1, <2>6
  <2>7. QED BY <2>5, <2>6
<1>3. ASSUME NEW s \in Shipments, NEW at \in Leg, DispatchReturn(s, at) PROVE Goal
  <2> DEFINE q == [Request("RTO_IN_TRANSIT", at) EXCEPT !.dir = "REVERSE"]
             r == Moved(ship[s], q)
  <2>1. /\ rto[s] = "INITIATED" /\ CanApply(s, ship[s], q)
        /\ ship' = [ship EXCEPT ![s] = r] /\ rto' = [rto EXCEPT ![s] = "IN_TRANSIT"]
    BY <1>3 DEF DispatchReturn
  <2>2. Onward(r, ship[s], "RTO_IN_TRANSIT") BY <1>a, <1>b, MovedLemma
  <2>3. q.to = "RTO_IN_TRANSIT" /\ q.dir = "REVERSE" BY DEF Request
  <2>n. Nil # "REVERSE" BY NilAssumption DEF Directions
  <2>d. r.dir = "REVERSE" BY <1>a, <2>3, <2>n DEF Moved, Row
  <2> HIDE DEF q, r
  <2>4. ship[s].status = "RTO_INITIATED" BY <2>1, <2>3, ApplyLemma, TableLemma
  <2>5. CASE x = s BY <1>a, <2>1, <2>2, <2>d, <2>4, <2>5 DEF CaseFate, Onward
  <2>6. CASE x # s BY <1>a, <1>1, <2>1, <2>6
  <2>7. QED BY <2>5, <2>6
<1>4. ASSUME NEW s \in Shipments, NEW at \in Leg, CompleteReturn(s, at) PROVE Goal
  <2> DEFINE q == [Request("RTO_DELIVERED", at) EXCEPT !.dir = "REVERSE"]
             r == Moved(ship[s], q)
             r2 == [r EXCEPT !.unit = Nil, !.user = Nil]
  <2>1. /\ rto[s] \in ActiveCases /\ CanApply(s, ship[s], q)
        /\ ship' = [ship EXCEPT ![s] = r2] /\ rto' = [rto EXCEPT ![s] = "RETURNED"]
    BY <1>4 DEF CompleteReturn
  <2>2. Onward(r, ship[s], "RTO_DELIVERED") BY <1>a, <1>b, MovedLemma
  <2>3. q.to = "RTO_DELIVERED" /\ q.dir = "REVERSE" BY DEF Request
  <2>n. Nil # "REVERSE" BY NilAssumption DEF Directions
  <2>d. r.dir = "REVERSE" BY <1>a, <2>3, <2>n DEF Moved, Row
  <2> HIDE DEF q, r
  <2>4. ship[s].status = "RTO_IN_TRANSIT" BY <2>1, <2>3, ApplyLemma, TableLemma
  <2>5. r2.status = "RTO_DELIVERED" /\ r2.dir = "REVERSE" BY <2>2, <2>d DEF Onward, Row
  <2> HIDE DEF r2
  <2>6. CASE x = s BY <1>a, <2>1, <2>4, <2>5, <2>6 DEF CaseFate
  <2>7. CASE x # s BY <1>a, <1>1, <2>1, <2>7
  <2>8. QED BY <2>6, <2>7
<1>5. ASSUME NEW s \in Shipments, NEW at \in Units, ReceiveAtFacility(s, at) PROVE Goal
  <2> DEFINE r == SetShipmentCustody(ship[s], at, Nil, Nil, Nil)
  <2>1. /\ rto[s] \in ActiveCases /\ ship' = [ship EXCEPT ![s] = r]
        /\ rto' = rto \/ rto' = [rto EXCEPT ![s] = "AT_ORIGIN_BRANCH"]
    BY <1>5 DEF ReceiveAtFacility
  <2>2. r.status = ship[s].status /\ r.dir = ship[s].dir BY <1>a DEF Row
  <2> HIDE DEF r
  <2>3. ship[s].status # "ORIGIN_BAGGED" BY <2>1 DEF CustodyInv
  <2>4. CASE x = s BY <1>a, <2>1, <2>2, <2>3, <2>4 DEF CaseFate, OnCourse
  <2>5. CASE x # s BY <1>a, <1>1, <2>1, <2>5
  <2>6. QED BY <2>4, <2>5
<1>6. ASSUME NEW s \in Shipments, FailReturn(s) PROVE Goal
  <2>1. rto[s] \in ActiveCases /\ ship' = ship /\ rto' = [rto EXCEPT ![s] = "RETURN_FAILED"]
    BY <1>6 DEF FailReturn
  <2>2. QED BY <1>a, <2>1 DEF CaseFate, OnCourse
<1>7. QED BY <1>2, <1>3, <1>4, <1>5, <1>6 DEF RtoNext

\* The fate of every parcel's return in every step.
LEMMA EveryCase ==
    ASSUME TypeOK, CustodyInv, [Next]_vars, NEW s \in Shipments
    PROVE  CaseFate(s)
<1>a. ship \in [Shipments -> Row] BY DEF TypeOK
<1>1. CASE ParcelNext BY <1>1, <1>a, CourseScan DEF ParcelNext, CaseFate
<1>2. CASE BagNext /\ UNCHANGED rto BY <1>2, CourseBag DEF CaseFate
<1>3. CASE (ManifestNext \/ LinehaulNext) /\ UNCHANGED rto BY <1>3, CourseMoved DEF CaseFate
<1>4. CASE RtoNext BY <1>4, CourseRto
<1>5. CASE UNCHANGED vars BY <1>5 DEF vars, CaseFate, OnCourse
<1>6. QED BY <1>1, <1>2, <1>3, <1>4, <1>5 DEF Next

\* A parcel on its way back leaves its status only through a return operation.
LEMMA StaysReturning ==
    ASSUME TypeOK, CustodyInv, [Next]_vars, NEW s \in Shipments, OnCourse(s),
           ship[s].status \in Returning
    PROVE  ship'[s].status = ship[s].status
<1>1. CASE Advanced(s) BY <1>1, TableLemma DEF Advanced, OnCourse, Returning
<1>2. CASE Taken(s) BY <1>2, ReceiptLemma DEF Taken, Returning
<1>3. ~ \E t \in Trips : Boarded(s, t) BY DEF Boarded, Undispatched, Returning
<1>4. ~ Returned(s) BY DEF Returned, OnCourse, Returning
<1>5. CASE Kept(s) \/ TakenBack(s) BY <1>5 DEF Kept, TakenBack
<1>6. QED BY <1>1, <1>2, <1>3, <1>4, <1>5, EveryChange DEF Change

\* The case and the shipment agree on the return.
Match(s) ==
    /\ rto[s] \in ActiveCases <=> ship[s].status \in {"RTO_INITIATED", "RTO_IN_TRANSIT"}
    /\ rto[s] = "RETURNED" <=> ship[s].status = "RTO_DELIVERED"
    /\ rto[s] = "INITIATED" => ship[s].status = "RTO_INITIATED"
    /\ rto[s] = "IN_TRANSIT" => ship[s].status = "RTO_IN_TRANSIT"
    /\ ship[s].dir = "REVERSE" <=> ship[s].status \in {"RTO_IN_TRANSIT", "RTO_DELIVERED"}

CasesMatch == \A s \in Shipments : Match(s)

\* Every step keeps the agreement, and takes a parcel with a return only back.
LEMMA CaseMatchStep ==
    ASSUME TypeOK, CustodyInv, CasesMatch, [Next]_vars, NEW s \in Shipments
    PROVE  /\ Match(s)'
           /\ rto[s] # "NONE" =>
                 /\ rto'[s] # "NONE"
                 /\ ship[s].status # "RTO_INITIATED" => ship'[s].status # "RTO_INITIATED"
<1>1. Match(s) BY DEF CasesMatch
<1>2. rto[s] \in CaseStatuses BY DEF TypeOK
<1>3. CASE rto'[s] = rto[s] /\ OnCourse(s)
  <2>1. ship'[s].status = ship[s].status \/ (ship'[s].status \notin Returning
                                             /\ ship[s].status \notin Returning)
    BY <1>3, StaysReturning DEF OnCourse
  <2>2. ship'[s].dir = ship[s].dir BY <1>3 DEF OnCourse
  <2>3. QED BY <1>1, <1>3, <2>1, <2>2 DEF Returning, Match
<1>4. CASE /\ rto[s] \in ActiveCases /\ rto'[s] \in {"AT_ORIGIN_BRANCH", "RETURN_FAILED"}
           /\ ship'[s].status = ship[s].status /\ ship'[s].dir = ship[s].dir
  BY <1>1, <1>4 DEF ActiveCases, CaseStatuses, Match
<1>5. CASE /\ rto[s] \notin ActiveCases /\ rto'[s] = "INITIATED"
           /\ Find(ship[s].status, "RTO_INITIATED") /\ ship'[s].status = "RTO_INITIATED"
           /\ ship'[s].dir = ship[s].dir
  BY <1>1, <1>2, <1>5, TableLemma DEF ActiveCases, CaseStatuses, Match
<1>6. CASE /\ rto[s] = "INITIATED" /\ rto'[s] = "IN_TRANSIT"
           /\ ship[s].status = "RTO_INITIATED" /\ ship'[s].status = "RTO_IN_TRANSIT"
           /\ ship'[s].dir = "REVERSE"
  BY <1>1, <1>6 DEF ActiveCases, CaseStatuses, Match
<1>7. CASE /\ rto[s] \in ActiveCases /\ rto'[s] = "RETURNED"
           /\ ship[s].status = "RTO_IN_TRANSIT" /\ ship'[s].status = "RTO_DELIVERED"
           /\ ship'[s].dir = "REVERSE"
  BY <1>1, <1>7 DEF ActiveCases, CaseStatuses, Match
<1>8. CaseFate(s) BY EveryCase
<1>9. QED BY <1>3, <1>4, <1>5, <1>6, <1>7, <1>8 DEF CaseFate

\* For any number of parcels, bags, manifests and trips, and any order of the
\* operations on them, a parcel whose return was started only ever goes back
\* (rto.go), although it does not travel in reverse before it is dispatched.
THEOREM ReturnsOnlyBack == Spec => ReturnsGoBack
<1>1. Init => CasesMatch
  <2> SUFFICES ASSUME Init PROVE CasesMatch OBVIOUS
  <2>1. \A s \in Shipments : ship[s].status = "BOOKED" /\ ship[s].dir = "FORWARD" /\ rto[s] = "NONE"
    BY DEF Init, ShipInit, RtoInit
  <2>2. QED BY <2>1 DEF CasesMatch, Match, ActiveCases
<1>2. TypeOK /\ CustodyInv /\ CasesMatch /\ [Next]_vars => CasesMatch'
  BY CaseMatchStep DEF CasesMatch
<1>3. TypeOK /\ TypeOK' /\ CustodyInv /\ CasesMatch /\ [Next]_vars =>
        [\A s \in Shipments : rto[s] # "NONE" =>
            /\ rto'[s] # "NONE" /\ ship'[s].status \in Returning
            /\ ship[s].status # "RTO_INITIATED" => ship'[s].status # "RTO_INITIATED"
            /\ ship'[s].status # "RTO_INITIATED" => ship'[s].dir = "REVERSE"
            /\ rto'[s] = "RETURNED" => ship'[s].status = "RTO_DELIVERED"]_<<ship, rto>>
  <2> SUFFICES ASSUME TypeOK, TypeOK', CustodyInv, CasesMatch, [Next]_vars,
                      NEW s \in Shipments, rto[s] # "NONE"
               PROVE  /\ rto'[s] # "NONE" /\ ship'[s].status \in Returning
                      /\ ship[s].status # "RTO_INITIATED" => ship'[s].status # "RTO_INITIATED"
                      /\ ship'[s].status # "RTO_INITIATED" => ship'[s].dir = "REVERSE"
                      /\ rto'[s] = "RETURNED" => ship'[s].status = "RTO_DELIVERED"
    OBVIOUS
  <2>1. /\ Match(s)' /\ rto'[s] # "NONE"
        /\ ship[s].status # "RTO_INITIATED" => ship'[s].status # "RTO_INITIATED"
    BY CaseMatchStep
  <2>2. rto'[s] \in CaseStatuses BY DEF TypeOK
  <2>3. QED BY <2>1, <2>2 DEF Match, ActiveCases, CaseStatuses, Returning
<1>4. QED BY <1>1, <1>2, <1>3, CustodyInvariant, PTL DEF Spec, ReturnsGoBack

\* The inductive form of BaggedInABag: the bag a parcel names is also the only
\* one it is in, so taking it out of an open bag is noticed by the parcel.
BaggedInv ==
    \A s \in Shipments : ship[s].status = "ORIGIN_BAGGED" =>
        /\ ship[s].bag \in Bags
        /\ \/ item[ship[s].bag][s] = "IN_BAG"
           \/ item[ship[s].bag][s] = "REMOVED" /\ bag[ship[s].bag].status \notin {"NONE", "OPEN"}
        /\ \A c \in Bags : c # ship[s].bag => item[c][s] # "IN_BAG"

\* Every step keeps a bagged parcel in the bag it names.
LEMMA BaggedStep ==
    ASSUME TypeOK, CustodyInv, BaggedInv, [Next]_vars
    PROVE  BaggedInv'
<1>a. ship \in [Shipments -> Row] BY DEF TypeOK
<1> SUFFICES ASSUME NEW s \in Shipments, ship'[s].status = "ORIGIN_BAGGED"
             PROVE  /\ ship'[s].bag \in Bags
                    /\ \/ item'[ship'[s].bag][s] = "IN_BAG"
                       \/ /\ item'[ship'[s].bag][s] = "REMOVED"
                          /\ bag'[ship'[s].bag].status \notin {"NONE", "OPEN"}
                    /\ \A c \in Bags : c # ship'[s].bag => item'[c][s] # "IN_BAG"
  BY DEF BaggedInv
<1>1. CASE \E b \in Bags : Bagged(s, b) BY <1>1 DEF Bagged
<1>2. CASE SameBag(s) /\ Undisturbed(s)
  <2>1. ship[s].status = "ORIGIN_BAGGED" /\ ship'[s].bag = ship[s].bag BY <1>2 DEF SameBag
  <2>2. PICK b \in Bags : b = ship[s].bag BY <2>1 DEF BaggedInv
  <2>3. BagFate(b) BY EveryBag
  <2>4. /\ \/ item[b][s] = "IN_BAG"
           \/ item[b][s] = "REMOVED" /\ bag[b].status \notin {"NONE", "OPEN"}
        /\ \A c \in Bags : c # b => item[c][s] # "IN_BAG"
    BY <2>1, <2>2 DEF BaggedInv
  <2>5. bag[b].status \notin {"NONE", "OPEN"} => bag'[b].status \notin {"NONE", "OPEN"}
    BY <2>3 DEF BagFate
  <2>6. \/ item'[b][s] = "IN_BAG"
        \/ item'[b][s] = "REMOVED" /\ bag'[b].status \notin {"NONE", "OPEN"}
    BY <1>2, <2>4, <2>5 DEF Undisturbed
  <2>7. \A c \in Bags : c # b => item'[c][s] # "IN_BAG" BY <1>2, <2>4 DEF Undisturbed
  <2>8. QED BY <2>1, <2>2, <2>6, <2>7
<1>3. CASE UNCHANGED item /\ SameBag(s) BY <1>2, <1>3 DEF Undisturbed
<1>4. CASE ParcelNext BY <1>3, <1>4, <1>a, CourseScan DEF ParcelNext
<1>5. CASE BagNext BY <1>1, <1>2, <1>5, CourseBag
<1>6. CASE ManifestNext \/ LinehaulNext
  <2>1. CASE ManifestNext
    BY <1>3, <2>1, CourseMoved DEF ManifestNext, CheckTrip, CreateChecked, CreateManifest, addBag,
       addLooseShipment, RemoveBag, RemoveLoose, CloseManifest, DispatchManifest, ReceiveManifest
  <2>2. CASE LinehaulNext
    BY <1>3, <2>2, CourseMoved DEF LinehaulNext, CreateTrip, Assign, AttachManifest, arriveAtLeg,
       Arrive, CloseTrip, CancelTrip, Depart
  <2>3. QED BY <1>6, <2>1, <2>2
<1>7. CASE RtoNext /\ UNCHANGED item
  <2>1. ship'[s] = ship[s] BY <1>7, CourseRto
  <2>2. SameBag(s) BY <2>1 DEF SameBag
  <2>3. QED BY <1>3, <1>7, <2>2
<1>8. CASE UNCHANGED vars BY <1>3, <1>8 DEF vars, SameBag
<1>9. QED BY <1>4, <1>5, <1>6, <1>7, <1>8 DEF Next

\* For any number of parcels and bags: a parcel that says it is bagged is in
\* the bag it names, unless an exception took it out after closure, and what a
\* closed bag or manifest holds was declared when it was closed.
THEOREM BagsTellTheTruth == Spec => []BagsTruthful
<1>1. Init => BaggedInv /\ NothingUndeclared
  <2> SUFFICES ASSUME Init PROVE BaggedInv /\ NothingUndeclared OBVIOUS
  <2>1. \A s \in Shipments : ship[s].status = "BOOKED" BY DEF Init, ShipInit
  <2>2. \A b \in Bags : bag[b].status = "NONE" BY DEF Init, BagInit
  <2>3. \A m \in Manifests : manifest[m].status = "NONE" BY DEF Init, ManifestInit
  <2>4. QED BY <2>1, <2>2, <2>3 DEF BaggedInv, NothingUndeclared
<1>2. TypeOK /\ CustodyInv /\ BaggedInv /\ NothingUndeclared /\ [Next]_vars
        => BaggedInv' /\ NothingUndeclared'
  BY BaggedStep, DeclaredStep
<1>3. BaggedInv /\ NothingUndeclared => BagsTruthful
  <2>1. Nil \notin Bags BY NilAssumption
  <2>2. QED BY <2>1 DEF BagsTruthful, BaggedInv, BaggedInABag
<1>4. QED BY <1>1, <1>2, <1>3, CustodyInvariant, PTL DEF Spec

=============================================================================
