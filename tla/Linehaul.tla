------------------------------ MODULE Linehaul ------------------------------
(***************************************************************************)
(* Trips (internal/linehaul): a vehicle from one facility to another, in   *)
(* one or more legs, carrying manifests.  Departure dispatches what is not *)
(* dispatched yet and puts every parcel in transit; arrival touches no     *)
(* parcel.                                                                 *)
(*                                                                         *)
(* Left out: which vehicle, driver and carrier (only whether the trip has  *)
(* what its mode requires), schedules, odometers, and the status column of *)
(* a leg, which no check reads when the caller names the leg.              *)
(***************************************************************************)
EXTENDS Manifest

TripStatuses == {"NONE", "PLANNED", "LOADING", "DEPARTED", "IN_TRANSIT",
                 "ARRIVED", "CLOSED", "CANCELLED"}

\* stops: the facilities its legs end at.
TripRow == [status : TripStatuses, from : Leg, to : Leg, stops : SUBSET Units,
            crewed : BOOLEAN]

TripInit ==
    trip = [t \in Trips |-> [status |-> "NONE", from |-> Nil, to |-> Nil, stops |-> {},
                             crewed |-> FALSE]]

\* ListTripManifests
OnTrip(t) == {m \in Manifests : manifest[m].trip = t
                                /\ manifest[m].status \notin {"NONE", "CHECKED"}}

-----------------------------------------------------------------------------
(***************************************************************************)
(* The statements.                                                         *)
(***************************************************************************)
LockTripForUpdate(t) == trip[t]

\* The row and its legs, of which the ends count.
InsertTrip(t, from, to, stops, crewed) ==
    /\ trip[t].status = "NONE"
    /\ trip' = [trip EXCEPT ![t] = [@ EXCEPT !.status = "PLANNED", !.from = from, !.to = to,
                                             !.stops = stops, !.crewed = crewed]]

UpdateTripStatus(t, expected, to) ==
    /\ trip[t].status = expected
    /\ trip' = [trip EXCEPT ![t].status = to]

UpdateTripAssets(t) ==
    /\ trip[t].status \in {"PLANNED", "LOADING"}
    /\ trip' = [trip EXCEPT ![t].crewed = TRUE]

\* The leg that ends at a facility.
GetTripLegBySequence(t, at) == at \in trip[t].stops

AttachManifestToTrip(m, t) ==
    /\ manifest[m].status \in {"DRAFT", "CLOSED"}
    /\ manifest' = [manifest EXCEPT ![m].trip = t]

CountOpenTripManifests(t) == {m \in OnTrip(t) : manifest[m].status = "DRAFT"}

-----------------------------------------------------------------------------
\* The legs are a chain whose last leg ends at the destination.
CreateTrip(t, from, to, stops, crewed) ==
    /\ from # to /\ to \in stops
    /\ InsertTrip(t, from, to, stops, crewed)
    /\ UNCHANGED <<ship, bag, item, manifest, mbag, loose>>

\* Give the trip the vehicle and driver, or the reference, that it lacks.
Assign(t) ==
    /\ UpdateTripAssets(t)
    /\ UNCHANGED <<ship, bag, item, manifest, mbag, loose>>

\* Put a manifest on the trip, for the leg that ends where it is going.
AttachManifest(t, m) ==
    /\ LockTripForUpdate(t).status \in {"PLANNED", "LOADING"}
    /\ GetTripLegBySequence(t, manifest[m].to)
    /\ AttachManifestToTrip(m, t)
    /\ UNCHANGED <<ship, bag, item, mbag, loose, trip>>

-----------------------------------------------------------------------------
\* Parcels departure dispatches on the spot, and parcels it puts in transit;
\* it leaves any other parcel on the manifest alone.
Undispatched == {"ORIGIN_BAGGED", "ORIGIN_BRANCH_RECEIVED", "TRANSIT_HUB_RECEIVED"}

Boarding(t) ==
    {s \in UNION {OnManifest(m) : m \in OnTrip(t)} :
        Find(ship[s].status, "IN_TRANSIT") \/ ship[s].status \in Undispatched}

dispatchShipment(s) ==
    IF ship[s].status = "TRANSIT_HUB_RECEIVED" THEN "TRANSIT_HUB_DISPATCHED"
                                               ELSE "ORIGIN_DISPATCHED"

\* Mutant: a second dispatcher presses "depart" on a trip that has left.
MayDepartAgain(t) ==
    /\ trip[t].status \in {"PLANNED", "LOADING", "DEPARTED"}
    /\ trip[t].crewed /\ OnTrip(t) # {}
    /\ \A m \in OnTrip(t) : manifest[m].status # "DRAFT"

\* What departure asks of the trip: not left yet, manned, every manifest
\* closed, and something to carry.
MayDepart(t) ==
    /\ LockTripForUpdate(t).status \in {"PLANNED", "LOADING"}
    /\ trip[t].crewed
    /\ CountOpenTripManifests(t) = {}
    /\ OnTrip(t) # {}

Depart(t) ==
    LET leaving == {m \in OnTrip(t) : manifest[m].status = "CLOSED"}
        bags == {b \in UNION {LoadedBags(m) : m \in leaving} : bag[b].status = "CLOSED"}
    IN  /\ MayDepart(t)
        /\ \A s \in Boarding(t) : ship[s].status \in Undispatched =>
              CanApply(s, ship[s], Request(dispatchShipment(s), trip[t].from))
        /\ UpdateTripStatus(t, trip[t].status, "DEPARTED")
        /\ manifest' = [m \in Manifests |->
              IF m \in leaving THEN [manifest[m] EXCEPT !.status = "DISPATCHED"] ELSE manifest[m]]
        /\ bag' = [b \in Bags |->
              IF b \in bags THEN [bag[b] EXCEPT !.status = "DISPATCHED"] ELSE bag[b]]
        /\ ship' = [s \in Shipments |->
              IF s \in Boarding(t)
              THEN [ship[s] EXCEPT !.status = "IN_TRANSIT", !.trip = t, !.unit = Nil]
              ELSE ship[s]]
        /\ UNCHANGED <<item, mbag, loose>>

\* A leg's arrival, the last one too when the caller names the leg. Nothing
\* asks whether the trip has left or the leg has been recorded before, and a
\* leg recorded late takes an arrived trip back to in transit.
arriveAtLeg(t, at) ==
    /\ trip[t].status # "NONE"
    /\ GetTripLegBySequence(t, at)
    /\ trip' = [trip EXCEPT ![t].status =
          IF @ \in {"DEPARTED", "ARRIVED"} THEN "IN_TRANSIT" ELSE @]
    /\ UNCHANGED <<ship, bag, item, manifest, mbag, loose>>

Arrive(t, at) ==
    /\ at = trip[t].to
    /\ LockTripForUpdate(t).status \in {"DEPARTED", "IN_TRANSIT"}
    /\ UpdateTripStatus(t, trip[t].status, "ARRIVED")
    /\ UNCHANGED <<ship, bag, item, manifest, mbag, loose>>

CloseTrip(t) ==
    /\ \A m \in OnTrip(t) : manifest[m].status # "DISPATCHED"
    /\ UpdateTripStatus(t, "ARRIVED", "CLOSED")
    /\ UNCHANGED <<ship, bag, item, manifest, mbag, loose>>

\* Abandon a trip that has not left. Its manifests stay attached to it.
CancelTrip(t) ==
    /\ LockTripForUpdate(t).status \in {"PLANNED", "LOADING"}
    /\ \A m \in OnTrip(t) : manifest[m].status # "DISPATCHED"
    /\ UpdateTripStatus(t, trip[t].status, "CANCELLED")
    /\ UNCHANGED <<ship, bag, item, manifest, mbag, loose>>

LinehaulNext ==
    \E t \in Trips :
        \/ \E l \in Lanes, stops \in SUBSET Units, crewed \in BOOLEAN :
              CreateTrip(t, l[1], l[2], stops, crewed)
        \/ Assign(t)
        \/ \E m \in Manifests : AttachManifest(t, m)
        \/ Depart(t)
        \/ \E at \in Units : arriveAtLeg(t, at) \/ Arrive(t, at)
        \/ CloseTrip(t)
        \/ CancelTrip(t)

=============================================================================
