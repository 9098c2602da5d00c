-------------------------------- MODULE Rto ---------------------------------
(***************************************************************************)
(* Returns to sender (internal/rto).  A case is opened on a parcel, sent   *)
(* on its way back, received at facilities on the way and handed over.     *)
(* The shipment stays RTO_IN_TRANSIT from dispatch to handover; the case   *)
(* row carries the progress.                                               *)
(*                                                                         *)
(* Left out: the reverse legs (a record no check reads), the charge, the   *)
(* case statuses no operation sets (OUT_FOR_RETURN, DISPOSED, CANCELLED).  *)
(***************************************************************************)
EXTENDS Shipment

CONSTANT ReturnBranch   \* ReturnBranch[s]: the branch that serves s's sender, or Nil

ASSUME ReturnBranchAssumption == ReturnBranch \in [Shipments -> Leg]

VARIABLE rto     \* rto[s]: the status of the parcel's case, "NONE" without one

CaseStatuses == {"NONE", "INITIATED", "IN_TRANSIT", "AT_ORIGIN_BRANCH",
                 "RETURN_FAILED", "RETURNED"}

\* GetActiveRTOCase
ActiveCases == CaseStatuses \ {"NONE", "RETURNED"}

RtoInit == rto = [s \in Shipments |-> "NONE"]

CreateRTOCase(s) == rto' = [rto EXCEPT ![s] = "INITIATED"]

LockRTOCaseForUpdate(s) == rto[s]

UpdateRTOCaseStatus(s, expected, to) ==
    /\ rto[s] = expected
    /\ rto' = [rto EXCEPT ![s] = to]

\* Where the parcel is handed back: the sender's branch, or the booking one.
resolveReversePath(s) ==
    IF ReturnBranch[s] # Nil THEN ReturnBranch[s] ELSE Route[s].originBranch

\* InitiateStandalone. A second request for an open case changes nothing.
Initiate(s) ==
    LET q == [Request("RTO_INITIATED", Nil) EXCEPT !.reason = TRUE] IN
    /\ rto[s] \notin ActiveCases
    /\ resolveReversePath(s) # Nil
    /\ CanApply(s, ship[s], q)
    /\ CreateRTOCase(s)
    /\ ship' = [ship EXCEPT ![s] = Moved(ship[s], q)]

\* Dispatch: only here does the parcel turn round.
DispatchReturn(s, at) ==
    LET q == [Request("RTO_IN_TRANSIT", at) EXCEPT !.dir = "REVERSE"] IN
    /\ UpdateRTOCaseStatus(s, "INITIATED", "IN_TRANSIT")
    /\ CanApply(s, ship[s], q)
    /\ ship' = [ship EXCEPT ![s] = Moved(ship[s], q)]

\* A facility takes a parcel that has an open case, whatever its status.
ReceiveAtFacility(s, at) ==
    /\ rto[s] \in ActiveCases
    /\ ship' = [ship EXCEPT ![s] = SetShipmentCustody(@, at, Nil, Nil, Nil)]
    /\ IF at = resolveReversePath(s) THEN UpdateRTOCaseStatus(s, rto[s], "AT_ORIGIN_BRANCH")
                                     ELSE UNCHANGED rto

\* Complete: the sender has it back.
CompleteReturn(s, at) ==
    LET q == [Request("RTO_DELIVERED", at) EXCEPT !.dir = "REVERSE"] IN
    /\ LockRTOCaseForUpdate(s) \in ActiveCases
    /\ CanApply(s, ship[s], q)
    /\ UpdateRTOCaseStatus(s, rto[s], "RETURNED")
    /\ ship' = [ship EXCEPT ![s] = [Moved(ship[s], q) EXCEPT !.unit = Nil, !.user = Nil]]

\* Complete with any other outcome: the case stays open.
FailReturn(s) ==
    /\ LockRTOCaseForUpdate(s) \in ActiveCases
    /\ UpdateRTOCaseStatus(s, rto[s], "RETURN_FAILED")
    /\ UNCHANGED ship

RtoNext ==
    \E s \in Shipments :
        \/ Initiate(s)
        \/ \E at \in Leg : DispatchReturn(s, at) \/ CompleteReturn(s, at)
        \/ \E at \in Units : ReceiveAtFacility(s, at)
        \/ FailReturn(s)

-----------------------------------------------------------------------------
Returning == {"RTO_INITIATED", "RTO_IN_TRANSIT", "RTO_DELIVERED"}

\* "From here the state machine refuses forward transitions, which is what stops
\* an RTO parcel being accidentally delivered to the original consignee"
\* (rto.go:190).  A parcel with a return only ever goes back, whatever scan, bag,
\* manifest, vehicle or attempt meets it: it never gets a forward status again
\* and never an earlier one of the return, it travels in reverse once it has
\* left, and its case is closed only with the parcel handed over.  Between the
\* start of the return and its dispatch the direction, which the comment relies
\* on, is still FORWARD: only the table stands in the way.
ReturnsGoBack ==
    [][\A s \in Shipments : rto[s] # "NONE" =>
          /\ rto'[s] # "NONE" /\ ship'[s].status \in Returning
          /\ ship[s].status # "RTO_INITIATED" => ship'[s].status # "RTO_INITIATED"
          /\ ship'[s].status # "RTO_INITIATED" => ship'[s].dir = "REVERSE"
          /\ rto'[s] = "RETURNED" => ship'[s].status = "RTO_DELIVERED"]_<<ship, rto>>

\* "It flips to REVERSE when an RTO starts" (docs/contracts/release-2.md:38).
ReverseFromTheStart == \A s \in Shipments : rto[s] # "NONE" => ship[s].dir = "REVERSE"

=============================================================================
