------------------------------ MODULE Scanning ------------------------------
(***************************************************************************)
(* Operational scans (internal/scanning).  A scan is one transaction: the  *)
(* shipment row is locked, the scan decides what it means for a parcel in  *)
(* that state at that facility, and the change goes through Apply.  SORT   *)
(* and EXCEPTION scans append history only and change no modelled column.  *)
(* A scan here carries a reason: with one it is accepted whenever it would *)
(* be accepted without.                                                    *)
(***************************************************************************)
EXTENDS Shipment, Sequences

\* The received-states a scan at this facility may mean, best first.
receiveCandidates(s, at) ==
    CASE Route[s].destBranch = at ->
            <<"DESTINATION_BRANCH_RECEIVED", "ORIGIN_BRANCH_RECEIVED">>
      [] Route[s].destBranch # at /\ Route[s].destHub = at ->
            <<"DESTINATION_HUB_RECEIVED", "TRANSIT_HUB_RECEIVED">>
      [] at \notin {Route[s].destBranch, Route[s].destHub}
            /\ Route[s].originBranch = at ->
            <<"ORIGIN_BRANCH_RECEIVED", "TRANSIT_HUB_RECEIVED">>
      [] OTHER ->
            <<"TRANSIT_HUB_RECEIVED", "DESTINATION_HUB_RECEIVED",
              "ORIGIN_BRANCH_RECEIVED", "DESTINATION_BRANCH_RECEIVED">>

\* The first candidate the table allows from the parcel's state.
receiveTarget(s, at, to) ==
    LET c == receiveCandidates(s, at)
        legal(i) == c[i] # ship[s].status /\ Find(ship[s].status, c[i])
    IN  \E i \in DOMAIN c : /\ c[i] = to /\ legal(i)
                            /\ \A j \in 1 .. (i - 1) : ~legal(j)

\* RECEIVE and ARRIVAL: the facility takes the parcel, out of the agent's
\* hands, the bag and the vehicle. A returning parcel is refused here.
Receive(s, at, override) ==
    \E to \in Statuses :
        /\ ship[s].dir = "FORWARD"
        /\ receiveTarget(s, at, to)
        /\ LET q == [Request(to, at) EXCEPT !.reason = TRUE, !.override = override]
           IN  /\ CanApply(s, ship[s], q)
               /\ ship' = [ship EXCEPT ![s] =
                     [ReceivedAt(Moved(ship[s], q), at) EXCEPT !.user = Nil, !.bag = Nil]]

\* DEPARTURE: the parcel leaves on its own; custody and bag stay as they are.
Departure(s, at, override) ==
    LET to == IF ship[s].status \in {"TRANSIT_HUB_RECEIVED", "DESTINATION_HUB_RECEIVED"}
              THEN "TRANSIT_HUB_DISPATCHED" ELSE "ORIGIN_DISPATCHED"
        q  == [Request(to, at) EXCEPT !.reason = TRUE, !.override = override]
    IN  /\ CanApply(s, ship[s], q)
        /\ ship' = [ship EXCEPT ![s] = Moved(ship[s], q)]

\* DAMAGE: always with a description, so the reason is never missing.
Damage(s, at, override) ==
    LET q == [Request("DAMAGED", at) EXCEPT !.reason = TRUE, !.override = override]
    IN  /\ CanApply(s, ship[s], q)
        /\ ship' = [ship EXCEPT ![s] = Moved(ship[s], q)]

requireCustodyHere(s, at) == at # Nil /\ LockShipmentByIDForUpdate(s).unit = at

\* shipment_holds_active_idx: the open hold is the flag of the shipment.
CreateShipmentHold(s) == ~ship[s].held
ReleaseShipmentHold(s) == ship[s].held
SetShipmentHoldFlag(s, held) == ship' = [ship EXCEPT ![s].held = held]

\* HOLD: stop the parcel where it is.
Hold(s, at) ==
    /\ requireCustodyHere(s, at)
    /\ CreateShipmentHold(s)
    /\ SetShipmentHoldFlag(s, TRUE)

\* RELEASE: from anywhere.
Release(s) ==
    /\ ReleaseShipmentHold(s)
    /\ SetShipmentHoldFlag(s, FALSE)

Scan(s) ==
    \/ \E at \in Units, override \in Overrides :
          Receive(s, at, override) \/ Departure(s, at, override)
    \/ \E at \in Leg, override \in Overrides : Damage(s, at, override)
    \/ \E at \in Units : Hold(s, at)
    \/ Release(s)

=============================================================================
