------------------------------ MODULE Manifest ------------------------------
(***************************************************************************)
(* Manifests (internal/manifest): the list of bags and loose parcels one   *)
(* facility hands to another.  A draft is filled, closed with a frozen     *)
(* declaration, dispatched and received; dispatch and receipt move every   *)
(* parcel on it in the same transaction.                                   *)
(*                                                                         *)
(* A manifest created for a trip is created in two steps, because the code *)
(* reads the trip before the transaction and never locks it: "CHECKED" is  *)
(* a request that has seen the trip still loading and has not inserted the *)
(* manifest yet.  The columns set at creation wait in the row meanwhile.   *)
(***************************************************************************)
EXTENDS Bagging

VARIABLES manifest,  \* manifest[m]: status, ends, direction, trip, declaration
          mbag,      \* mbag[m][b]: the manifest_bags row
          loose,     \* loose[m][s]: the manifest_loose_shipments row
          trip       \* trip[t]: the trips row (see Linehaul)

ManifestStatuses == {"NONE", "CHECKED", "DRAFT", "CLOSED", "DISPATCHED",
                     "RECEIVED", "RECONCILED"}

ManifestRow == [status : ManifestStatuses, from : Leg, to : Leg, dir : Directions,
                trip : Trips \cup {Nil}, bags : SUBSET Bags, loose : SUBSET Shipments]

ContentStatuses == {"NONE", "LOADED", "RECEIVED", "REMOVED"}

LoadedBags(m) == {b \in Bags : mbag[m][b] \in {"LOADED", "RECEIVED"}}
LoadedLoose(m) == {s \in Shipments : loose[m][s] \in {"LOADED", "RECEIVED"}}

\* ListManifestShipmentIDs: what is in its bags now, and its loose parcels.
OnManifest(m) == LoadedLoose(m) \cup UNION {InBag(b) : b \in LoadedBags(m)}

ManifestInit ==
    /\ manifest = [m \in Manifests |->
          [status |-> "NONE", from |-> Nil, to |-> Nil, dir |-> "FORWARD",
           trip |-> Nil, bags |-> {}, loose |-> {}]]
    /\ mbag = [m \in Manifests |-> [b \in Bags |-> "NONE"]]
    /\ loose = [m \in Manifests |-> [s \in Shipments |-> "NONE"]]

-----------------------------------------------------------------------------
(***************************************************************************)
(* The statements.                                                         *)
(***************************************************************************)
GetTripByPublicID(t) == trip[t]
LockManifestForUpdate(m) == manifest[m]

InsertManifest(m, from, to, dir) ==
    /\ manifest[m].status = "NONE"
    /\ manifest' = [manifest EXCEPT ![m] =
          [@ EXCEPT !.status = "DRAFT", !.from = from, !.to = to, !.dir = dir]]

CloseManifestRow(m, bags, parcels) ==
    /\ manifest[m].status = "DRAFT"
    /\ manifest' = [manifest EXCEPT ![m] =
          [@ EXCEPT !.status = "CLOSED", !.bags = bags, !.loose = parcels]]

UpdateManifestStatus(m, expected, to) ==
    /\ manifest[m].status = expected
    /\ manifest' = [manifest EXCEPT ![m].status = to]

\* manifest_bags_unique and manifest_bags_active_idx.
AddManifestBag(m, b) ==
    /\ mbag[m][b] = "NONE"
    /\ \A n \in Manifests : b \notin LoadedBags(n)
    /\ mbag' = [mbag EXCEPT ![m][b] = "LOADED"]

RemoveManifestBag(m, b) ==
    /\ mbag[m][b] = "LOADED"
    /\ mbag' = [mbag EXCEPT ![m][b] = "REMOVED"]

\* One row after the other, whatever its status was.
MarkManifestBagReceived(m, bags) ==
    mbag' = [mbag EXCEPT ![m] = [b \in Bags |-> IF b \in bags THEN "RECEIVED"
                                                              ELSE mbag[m][b]]]

\* The unique indexes of the loose parcels.
AddManifestLooseShipment(m, s) ==
    /\ loose[m][s] = "NONE"
    /\ \A n \in Manifests : s \notin LoadedLoose(n)
    /\ loose' = [loose EXCEPT ![m][s] = "LOADED"]

RemoveManifestLooseShipment(m, s) ==
    /\ loose[m][s] = "LOADED"
    /\ loose' = [loose EXCEPT ![m][s] = "REMOVED"]

-----------------------------------------------------------------------------
\* Create, first half: the trip is read outside any transaction.
CheckTrip(m, t, from, to, dir) ==
    /\ manifest[m].status = "NONE"
    /\ from # to
    /\ GetTripByPublicID(t).status \in {"PLANNED", "LOADING"}
    /\ manifest' = [manifest EXCEPT ![m] =
          [@ EXCEPT !.status = "CHECKED", !.from = from, !.to = to, !.dir = dir, !.trip = t]]
    /\ UNCHANGED <<ship, bag, item, mbag, loose, trip>>

\* Create, second half: insert the row with the trip that was read.
CreateChecked(m) ==
    /\ UpdateManifestStatus(m, "CHECKED", "DRAFT")
    /\ UNCHANGED <<ship, bag, item, mbag, loose, trip>>

\* Create without a trip.
CreateManifest(m, from, to, dir) ==
    /\ from # to
    /\ InsertManifest(m, from, to, dir)
    /\ UNCHANGED <<ship, bag, item, mbag, loose, trip>>

\* Mutant: an open bag is loaded too.
addAnyBag(m, b) ==
    /\ manifest[m].status = "DRAFT"
    /\ bag[b].from = manifest[m].from /\ bag[b].to = manifest[m].to
    /\ bag[b].status # "NONE" /\ mbag[m][b] = "NONE"
    /\ mbag' = [mbag EXCEPT ![m][b] = "LOADED"]
    /\ UNCHANGED <<ship, bag, item, manifest, loose, trip>>

\* Load a closed bag that goes the manifest's way.
addBag(m, b) ==
    /\ LockManifestForUpdate(m).status = "DRAFT"
    /\ bag[b].status = "CLOSED"
    /\ bag[b].from = manifest[m].from
    /\ bag[b].to = manifest[m].to
    /\ bag[b].dir = manifest[m].dir
    /\ AddManifestBag(m, b)
    /\ UNCHANGED <<ship, bag, item, manifest, loose, trip>>

\* Load one parcel on its own. The status of the parcel is not looked at.
addLooseShipment(m, s) ==
    /\ LockManifestForUpdate(m).status = "DRAFT"
    /\ LockShipmentByIDForUpdate(s).bag = Nil
    /\ ship[s].unit = manifest[m].from
    /\ ~ship[s].held
    /\ ship[s].dir = manifest[m].dir
    /\ AddManifestLooseShipment(m, s)
    /\ UNCHANGED <<ship, bag, item, manifest, mbag, trip>>

RemoveBag(m, b) ==
    /\ LockManifestForUpdate(m).status = "DRAFT"
    /\ RemoveManifestBag(m, b)
    /\ UNCHANGED <<ship, bag, item, manifest, loose, trip>>

RemoveLoose(m, s) ==
    /\ LockManifestForUpdate(m).status = "DRAFT"
    /\ RemoveManifestLooseShipment(m, s)
    /\ UNCHANGED <<ship, bag, item, manifest, mbag, trip>>

\* Freeze the manifest and its declaration.
CloseManifest(m) ==
    /\ LoadedBags(m) # {} \/ LoadedLoose(m) # {}
    /\ CloseManifestRow(m, LoadedBags(m), LoadedLoose(m))
    /\ UNCHANGED <<ship, bag, item, mbag, loose, trip>>

-----------------------------------------------------------------------------
\* The dispatched state of a parcel in this state; none for any other state.
dispatchTarget(status) ==
    CASE status \in {"ORIGIN_BAGGED", "ORIGIN_BRANCH_RECEIVED"} -> "ORIGIN_DISPATCHED"
      [] status \in {"TRANSIT_HUB_RECEIVED", "DESTINATION_HUB_RECEIVED"} ->
            "TRANSIT_HUB_DISPATCHED"
      [] OTHER -> Nil

\* The received state of a parcel that arrives at this facility.
receiveTargetAt(s, at) ==
    CASE ship[s].status \notin {"IN_TRANSIT", "ORIGIN_DISPATCHED",
                                "TRANSIT_HUB_DISPATCHED"} -> Nil
      [] OTHER -> IF Route[s].destBranch = at THEN "DESTINATION_BRANCH_RECEIVED"
                  ELSE IF Route[s].destHub = at THEN "DESTINATION_HUB_RECEIVED"
                  ELSE "TRANSIT_HUB_RECEIVED"

\* Every loose and bagged parcel leaves with the manifest, or nothing does.
DispatchManifest(m) ==
    LET q(s) == Request(dispatchTarget(ship[s].status), manifest[m].from)
        moving == {s \in OnManifest(m) : dispatchTarget(ship[s].status) # Nil}
    IN  /\ UpdateManifestStatus(m, "CLOSED", "DISPATCHED")
        /\ \A b \in LoadedBags(m) : bag[b].status = "CLOSED"
        /\ \A s \in moving : CanApply(s, ship[s], q(s))
        /\ bag' = [b \in Bags |-> IF b \in LoadedBags(m)
                                  THEN [bag[b] EXCEPT !.status = "DISPATCHED"]
                                  ELSE bag[b]]
        /\ ship' = [s \in Shipments |-> IF s \in moving THEN Moved(ship[s], q(s)) ELSE ship[s]]
        /\ UNCHANGED <<item, mbag, loose, trip>>

\* Receipt at the destination. A parcel the table cannot receive from where
\* it is, one never departed, is passed over; the bag column is not cleared.
ReceiveManifest(m, at) ==
    LET q(s) == Request(receiveTargetAt(s, at), at)
        arriving == {b \in LoadedBags(m) : bag[b].status = "DISPATCHED"}
        moving == {s \in OnManifest(m) : Find(ship[s].status, receiveTargetAt(s, at))}
    IN  /\ at = manifest[m].to
        /\ UpdateManifestStatus(m, "DISPATCHED", "RECEIVED")
        /\ \A s \in moving : CanApply(s, ship[s], q(s))
        /\ bag' = [b \in Bags |-> IF b \in arriving THEN [bag[b] EXCEPT !.status = "RECEIVED"]
                                                    ELSE bag[b]]
        /\ MarkManifestBagReceived(m, arriving)
        /\ ship' = [s \in Shipments |-> IF s \in moving
                                        THEN ReceivedAt(Moved(ship[s], q(s)), at)
                                        ELSE ship[s]]
        /\ UNCHANGED <<item, loose, trip>>

ManifestNext ==
    \E m \in Manifests :
        \/ \E l \in Lanes, dir \in Directions :
              \/ CreateManifest(m, l[1], l[2], dir)
              \/ \E t \in Trips : CheckTrip(m, t, l[1], l[2], dir)
        \/ CreateChecked(m)
        \/ \E b \in Bags : addBag(m, b) \/ RemoveBag(m, b)
        \/ \E s \in Shipments : addLooseShipment(m, s) \/ RemoveLoose(m, s)
        \/ CloseManifest(m)
        \/ DispatchManifest(m)
        \/ \E at \in Units : ReceiveManifest(m, at)

=============================================================================
