------------------------------- MODULE Pickup -------------------------------
(***************************************************************************)
(* Collections (internal/pickup): the request of a customer, the agent it  *)
(* is given to, the agent's run and the visits.  A dispatcher and a field  *)
(* agent work on one request from two applications; each operation is one  *)
(* transaction under the request's row lock, except that Create reads the  *)
(* parcels before its transaction begins (seen) and uses what it read.     *)
(*                                                                         *)
(* Left out: addresses and windows, weights and loose pieces.  The status  *)
(* EXPIRED of a request, REJECTED of a parcel on it, and every status of a *)
(* run but PLANNED are set by nothing.                                     *)
(***************************************************************************)
EXTENDS Scanning

CONSTANTS
    Requests,      \* bound: pickup requests that may be raised
    Assignments,   \* bound: assignments that may be made
    Runs,          \* bound: runs that may be planned
    Events,        \* bound: visits a device may report, by device event
    PickupTypes,   \* ON_DEMAND, SCHEDULED
    MaxTries,      \* pickup_requests.max_attempts
    MaxVisits      \* bound: visits in all; the code has none

ASSUME PickupAssumption == MaxTries \in Nat \ {0}

VARIABLES
    preq,     \* preq[r]: the request: status, branch, attempts
    seen,     \* seen[r]: the parcels Create read, and the status each had
    link,     \* link[r][s]: the parcel's line on the request
    asg,      \* asg[a]: the assignment: request, agent, run and stop, status
    prun,     \* prun[k]: the run: agent, planned and completed stops
    visit     \* the visits recorded: request, number, device event, parcels keyed by it

requestTransitions ==
    [REQUESTED   |-> {"SCHEDULED", "ASSIGNED", "CANCELLED", "EXPIRED"},
     SCHEDULED   |-> {"ASSIGNED", "SCHEDULED", "CANCELLED", "EXPIRED"},
     ASSIGNED    |-> {"ACCEPTED", "SCHEDULED", "IN_PROGRESS", "FAILED", "CANCELLED"},
     ACCEPTED    |-> {"IN_PROGRESS", "SCHEDULED", "COMPLETED", "PARTIALLY_COMPLETED",
                      "FAILED", "CANCELLED"},
     IN_PROGRESS |-> {"COMPLETED", "PARTIALLY_COMPLETED", "FAILED", "SCHEDULED"}]

canTransition(from, to) ==
    from \in DOMAIN requestTransitions /\ to \in requestTransitions[from]

OpenRequest == DOMAIN requestTransitions
LiveAssignment == {"ASSIGNED", "ACCEPTED", "ARRIVED"}
OffTheRun == {"CANCELLED", "REASSIGNED", "REJECTED"}
LinkStatuses == {"NONE", "PENDING", "PICKED_UP", "NOT_AVAILABLE", "CANCELLED"}
Outcomes == {"COMPLETED", "PARTIAL", "FAILED", "RESCHEDULED", "CANCELLED_ON_SITE"}

RequestRow == [status : {"NONE", "COMPLETED", "PARTIALLY_COMPLETED", "FAILED", "CANCELLED"}
                        \cup OpenRequest,
               branch : Leg, attempts : Nat]
AssignmentRow == [req : Requests \cup {Nil}, agent : Users \cup {Nil},
                  run : Runs \cup {Nil}, stop : Nat,
                  status : {"NONE", "COMPLETED", "FAILED"} \cup LiveAssignment \cup OffTheRun]
RunRow == [agent : Users \cup {Nil}, planned : Nat, completed : Nat]
AttemptRow == [req : Requests, number : Nat \ {0}, event : Events \cup {Nil},
               keyed : SUBSET Shipments]

NotRead == [s \in {} |-> Nil]

PickupInit ==
    /\ preq = [r \in Requests |-> [status |-> "NONE", branch |-> Nil, attempts |-> 0]]
    /\ seen = [r \in Requests |-> NotRead]
    /\ link = [r \in Requests |-> [s \in Shipments |-> "NONE"]]
    /\ asg = [a \in Assignments |-> [req |-> Nil, agent |-> Nil, run |-> Nil, stop |-> 0,
                                     status |-> "NONE"]]
    /\ prun = [k \in Runs |-> [agent |-> Nil, planned |-> 0, completed |-> 0]]
    /\ visit = {}

-----------------------------------------------------------------------------
(***************************************************************************)
(* The statements on the requests, their lines, the assignments and runs.  *)
(***************************************************************************)
ListPickupRequestShipments(r) == {s \in Shipments : link[r][s] # "NONE"}

Pending(r) == {s \in ListPickupRequestShipments(r) : link[r][s] = "PENDING"}

\* The index pickup_request_shipments_active_idx: a parcel waits on one request.
AddShipmentToPickupRequest(r, S) ==
    /\ \A q \in Requests : Pending(q) \cap S = {}
    /\ link' = [link EXCEPT ![r] = [s \in Shipments |-> IF s \in S THEN "PENDING" ELSE @[s]]]

UpdatePickupRequestShipmentStatus(r, S, to) ==
    [link EXCEPT ![r] = [s \in Shipments |-> IF s \in S THEN to ELSE @[s]]]

CreatePickupRequest(r, status, at) ==
    preq' = [preq EXCEPT ![r] = [status |-> status, branch |-> at, attempts |-> 0]]

UpdatePickupRequestStatus(r, to, increment) ==
    [preq EXCEPT ![r].status = to, ![r].attempts = @ + increment]

GetActivePickupAssignment(r) ==
    {a \in Assignments : asg[a].req = r /\ asg[a].status \in LiveAssignment}

UpdatePickupAssignmentStatus(A, to) ==
    [a \in Assignments |-> IF a \in A THEN [asg[a] EXCEPT !.status = to] ELSE asg[a]]

\* The indexes pickup_assignments_active_idx and pickup_assignments_run_stop_idx.
CreatePickupAssignment(rows, a, r, u, k, stop) ==
    /\ \A b \in Assignments : rows[b].req = r => rows[b].status \notin LiveAssignment
    /\ k # Nil /\ stop # 0 =>
           \A b \in Assignments : rows[b].run = k /\ rows[b].stop = stop =>
                                      rows[b].status \in OffTheRun
    /\ asg' = [rows EXCEPT ![a] = [req |-> r, agent |-> u, run |-> k, stop |-> stop,
                                   status |-> "ASSIGNED"]]

RecalculatePickupRunCounters(k, rows) ==
    LET stops == {a \in Assignments : rows[a].run = k /\ rows[a].status # "NONE"}
    IN  [prun EXCEPT
            ![k].planned = Cardinality({a \in stops : rows[a].status \notin OffTheRun}),
            ![k].completed = Cardinality({a \in stops : rows[a].status = "COMPLETED"})]

GetPickupAttemptByDeviceEvent(e) == {v \in visit : v.event = e /\ e # Nil}

\* The parcels whose PICKED_UP event is keyed by the device event.  No event, no key.
pickupEventKey(e, C) == IF e = Nil THEN {} ELSE C

\* The indexes on the visits: one per device event, one per number of a request.
CreatePickupAttempt(r, e, C) ==
    LET number == preq[r].attempts + 1
    IN  /\ GetPickupAttemptByDeviceEvent(e) = {}
        /\ \A v \in visit : ~(v.req = r /\ v.number = number)
        /\ visit' = visit \cup {[req |-> r, number |-> number, event |-> e,
                                 keyed |-> pickupEventKey(e, C)]}

-----------------------------------------------------------------------------
initialStatus(type) == IF type = "ON_DEMAND" THEN "REQUESTED" ELSE "SCHEDULED"

\* Create's reads.  The row locks are taken outside any transaction and gone
\* when the statement ends.
loadLinkableShipments(r, S) ==
    /\ preq[r].status = "NONE" /\ seen[r] = NotRead /\ S # {}
    /\ \A s \in S : ship[s].status \in {"BOOKED", "PICKUP_SCHEDULED"}
    /\ seen' = [seen EXCEPT ![r] = [s \in S |-> ship[s].status]]
    /\ UNCHANGED <<preq, link, asg, prun, visit, ship>>

\* The parcel follows the request if it was read BOOKED; Apply's
\* compare-and-swap refuses it when it is no longer that.
scheduled(s, read) == read = "BOOKED" /\ ship[s].status = read

\* Create's transaction.  What was read PICKUP_SCHEDULED is not looked at again.
Create(r, type, at) ==
    /\ preq[r].status = "NONE" /\ seen[r] # NotRead
    /\ \A s \in DOMAIN seen[r] : seen[r][s] = "BOOKED" => scheduled(s, seen[r][s])
    /\ CreatePickupRequest(r, initialStatus(type), at)
    /\ AddShipmentToPickupRequest(r, DOMAIN seen[r])
    /\ ship' = [s \in Shipments |->
                  IF s \in DOMAIN seen[r] /\ seen[r][s] = "BOOKED"
                  THEN Moved(ship[s], Request("PICKUP_SCHEDULED", at)) ELSE ship[s]]
    /\ seen' = [seen EXCEPT ![r] = NotRead]
    /\ UNCHANGED <<asg, prun, visit>>

\* The transaction fails on a parcel that moved on or waits elsewhere.
CreateRefused(r) ==
    /\ preq[r].status = "NONE" /\ seen[r] # NotRead
    /\ \E s \in DOMAIN seen[r] : \/ seen[r][s] = "BOOKED" /\ ship[s].status # "BOOKED"
                                 \/ \E q \in Requests : s \in Pending(q)
    /\ seen' = [seen EXCEPT ![r] = NotRead]
    /\ UNCHANGED <<preq, link, asg, prun, visit, ship>>

-----------------------------------------------------------------------------
\* The waiting parcels that can follow the request.
Followers(r, to) == {s \in Pending(r) : ship[s].status # to /\ Find(ship[s].status, to)}

\* No reason is given: a transition that asks for one fails the operation.
moveLinkedShipments(r, to) ==
    LET q == Request(to, preq[r].branch)
    IN  /\ \A s \in Followers(r, to) : CanApply(s, ship[s], q)
        /\ ship' = [s \in Shipments |-> IF s \in Followers(r, to)
                                        THEN Moved(ship[s], q) ELSE ship[s]]

\* A dispatcher gives the request to an agent.
Assign(r, a, u, k, stop) ==
    LET closed == UpdatePickupAssignmentStatus(GetActivePickupAssignment(r), "REASSIGNED")
    IN  /\ canTransition(preq[r].status, "ASSIGNED")
        /\ asg[a].status = "NONE"
        /\ k # Nil => prun[k].agent = u
        /\ CreatePickupAssignment(closed, a, r, u, k, stop)
        /\ preq' = UpdatePickupRequestStatus(r, "ASSIGNED", 0)
        /\ prun' = IF k = Nil THEN prun ELSE RecalculatePickupRunCounters(k, asg')
        /\ moveLinkedShipments(r, "PICKUP_ASSIGNED")
        /\ UNCHANGED <<seen, link, visit>>

\* The agent's answer.  A rejection gives the request back to the pool.
Respond(a, accept) ==
    LET r == asg[a].req
        to == IF accept THEN "ACCEPTED" ELSE "SCHEDULED"
    IN  /\ asg[a].status = "ASSIGNED"
        /\ asg' = UpdatePickupAssignmentStatus({a}, IF accept THEN "ACCEPTED" ELSE "REJECTED")
        /\ preq' = IF canTransition(preq[r].status, to)
                   THEN UpdatePickupRequestStatus(r, to, 0) ELSE preq
        /\ IF accept THEN UNCHANGED ship ELSE moveLinkedShipments(r, "PICKUP_SCHEDULED")
        /\ UNCHANGED <<seen, link, prun, visit>>

Arrive(a) ==
    LET r == asg[a].req
    IN  /\ asg[a].status \in {"ACCEPTED", "ASSIGNED"}
        /\ asg' = UpdatePickupAssignmentStatus({a}, "ARRIVED")
        /\ preq' = IF canTransition(preq[r].status, "IN_PROGRESS")
                   THEN UpdatePickupRequestStatus(r, "IN_PROGRESS", 0) ELSE preq
        /\ UNCHANGED <<seen, link, prun, visit, ship>>

\* Mutant: a parcel that cannot be collected any more is skipped in silence.
applyCollectionLenient(r, C, outcome, by, e) ==
    LET able == {s \in C : CanApply(s, ship[s], Request("PICKED_UP", preq[r].branch))}
    IN  /\ C \subseteq Pending(r)
        /\ ship' = [s \in Shipments |->
                      IF s \in able
                      THEN [Moved(ship[s], Request("PICKED_UP", preq[r].branch)) EXCEPT
                               !.user = by, !.unit = preq[r].branch]
                      ELSE ship[s]]
        /\ link' = UpdatePickupRequestShipmentStatus(r, C, "PICKED_UP")

\* What was handed over goes to the agent; on a finished visit the rest of the
\* request was not there.  The index shipment_events_idempotency_idx refuses a second
\* event of a parcel with the same key.
applyCollection(r, C, outcome, by, e) ==
    LET q == Request("PICKED_UP", preq[r].branch)
    IN  /\ C \subseteq Pending(r)
        /\ \A s \in C : CanApply(s, ship[s], q)
        /\ \A v \in visit : v.event = e => v.keyed \cap pickupEventKey(e, C) = {}
        /\ ship' = [s \in Shipments |->
                      IF s \in C THEN [Moved(ship[s], q) EXCEPT !.user = by,
                                                                !.unit = preq[r].branch]
                                 ELSE ship[s]]
        /\ link' = [link EXCEPT ![r] = [s \in Shipments |->
                      IF s \in C THEN "PICKED_UP"
                      ELSE IF outcome \in {"COMPLETED", "PARTIAL"} /\ s \in Pending(r)
                      THEN "NOT_AVAILABLE" ELSE @[s]]]

\* Where a visit leaves the request.  A failure is final when it is the last try.
outcomeStatus(r, outcome) ==
    CASE outcome = "COMPLETED" -> "COMPLETED"
      [] outcome = "PARTIAL" -> "PARTIALLY_COMPLETED"
      [] outcome = "RESCHEDULED" -> "SCHEDULED"
      [] outcome = "CANCELLED_ON_SITE" -> "CANCELLED"
      [] outcome = "FAILED" -> IF preq[r].attempts + 1 < MaxTries THEN "SCHEDULED"
                                                                   ELSE "FAILED"

\* A visit is reported, by the agent or for the agent; the report of a device
\* event that is already recorded changes nothing.
Complete(r, outcome, C, by, e) ==
    LET to == outcomeStatus(r, outcome)
        active == GetActivePickupAssignment(r)
        runs == {asg[a].run : a \in active} \ {Nil}
    IN  /\ preq[r].attempts < MaxVisits
        /\ canTransition(preq[r].status, to)
        /\ applyCollection(r, C, outcome, by, e)
        /\ CreatePickupAttempt(r, e, C)
        /\ preq' = UpdatePickupRequestStatus(r, to, 1)
        /\ asg' = UpdatePickupAssignmentStatus(active,
                      IF outcome \in {"FAILED", "RESCHEDULED"} THEN "FAILED" ELSE "COMPLETED")
        /\ prun' = IF runs = {} THEN prun
                   ELSE RecalculatePickupRunCounters(CHOOSE k \in runs : TRUE, asg')
        /\ UNCHANGED seen

\* The request is withdrawn; the parcels that can go back to BOOKED do.
Cancel(r) ==
    /\ canTransition(preq[r].status, "CANCELLED")
    /\ asg' = UpdatePickupAssignmentStatus(GetActivePickupAssignment(r), "CANCELLED")
    /\ preq' = UpdatePickupRequestStatus(r, "CANCELLED", 0)
    /\ moveLinkedShipments(r, "BOOKED")
    /\ link' = UpdatePickupRequestShipmentStatus(r, Pending(r), "CANCELLED")
    /\ UNCHANGED <<seen, prun, visit>>

CreateRun(k, u) ==
    /\ prun[k].agent = Nil
    /\ prun' = [prun EXCEPT ![k].agent = u]
    /\ UNCHANGED <<preq, seen, link, asg, visit, ship>>

=============================================================================
