------------------------------ MODULE LastMile ------------------------------
(***************************************************************************)
(* The last mile: parcels that have reached their destination branch, the  *)
(* scans there, delivery runs, attempts, non-delivery cases, returns and   *)
(* proofs, with the cash obligation a delivery opens.  Every operation is  *)
(* one transaction under the parcel's row lock and so one step, except a   *)
(* proof, two steps.                                                       *)
(***************************************************************************)
EXTENDS Delivery, Scanning

vars == <<ship, rto, ndr, deliveryVars, podVars>>

\* A parcel enters the last mile when its destination branch receives it.
Arrived ==
    ship = [s \in Shipments |->
               [status |-> "DESTINATION_BRANCH_RECEIVED", dir |-> "FORWARD",
                held |-> FALSE, unit |-> Route[s].destBranch, user |-> Nil,
                bag |-> Nil, trip |-> Nil]]

Init == Arrived /\ RtoInit /\ NdrInit /\ DeliveryInit /\ PodInit

RunNext ==
    \E r \in Runs :
        \/ \E branch \in RunBranches, agent \in Users, S \in SUBSET Shipments :
              CreateRun(r, branch, agent, S)
        \/ \E s \in Shipments : AddStops(r, s)
        \/ \E agent \in Users : Assign(r, agent)
        \/ Dispatch(r)

AttemptNext ==
    \E s \in Shipments, by \in Users, at \in Leg, named \in Runs \cup {Nil},
       in \in AttemptInput : RecordAttempt(s, by, at, named, in)

OtpNext ==
    \E s \in Shipments : IssueOTP(s) \/ OtpExpires(s) \/ \E by \in Users : WrongCode(s, by)

PodNext ==
    \E c \in Submitters :
        \/ \E s \in Shipments, t \in PodTypes : StartSubmit(c, s, t)
        \/ FinishSubmit(c)

Next ==
    \/ (RunNext \/ AttemptNext \/ OtpNext) /\ UNCHANGED podVars
    \/ \E s \in Shipments, action \in NdrActions :
          SetAction(s, action) /\ UNCHANGED <<deliveryVars, podVars>>
    \/ PodNext /\ UNCHANGED <<ship, rto, ndr, deliveryVars>>
    \/ RtoNext /\ UNCHANGED <<ndr, deliveryVars, podVars>>
    \/ \E s \in Shipments : Scan(s) /\ UNCHANGED <<rto, ndr, deliveryVars, podVars>>

Spec == Init /\ [][Next]_vars

\* Every column holds a value of its type.
TypeOK ==
    /\ ship \in [Shipments -> Row]
    /\ rto \in [Shipments -> CaseStatuses]
    /\ ndr \in [Shipments -> NdrRow]
    /\ run \in [Runs -> RunRow]
    /\ stop \in [Runs -> [Shipments -> StopStatuses]]
    /\ otp \in [Shipments -> OtpRow]
    /\ guesses \in [Shipments -> 0 .. MaxGuesses]
    /\ att \in [Shipments -> AttemptRow]
    /\ owed \subseteq Shipments
    /\ submit \in [Submitters -> Submission \cup {Nil}]
    /\ pod \in [Shipments -> SUBSET ProofRow]

-----------------------------------------------------------------------------
(***************************************************************************)
(* What must hold.                                                         *)
(***************************************************************************)

\* A parcel out for delivery is on the stop of a run that has left, and the
\* agent who has it in custody is that run's agent, whatever was assigned,
\* rescheduled, scanned or attempted before (delivery.Assign, Dispatch).
OutWithItsAgent ==
    \A s \in Shipments :
        ship[s].status = "OUT_FOR_DELIVERY" =>
            \E r \in Runs : /\ stop[r][s] = "OUT_FOR_DELIVERY"
                            /\ run[r].status \in {"DISPATCHED", "IN_PROGRESS"}
                            /\ run[r].agent = ship[s].user

\* At no time do two runs have the same parcel.
OneRunPerParcel ==
    \A s \in Shipments : Cardinality(GetActiveDeliveryRunItem(s)) <= 1

\* Runs, stops and parcels agree on who is bringing what, however planning,
\* re-assignment, dispatch, attempts and scans interleave.
RunsInStep == OutWithItsAgent /\ OneRunPerParcel

\* "If they could diverge, a parcel would sit at DELIVERY_FAILED with nobody
\* owning the next decision" (ndr.go:105): it never does, and a parcel in NDR
\* has an open case.
FailureOwned ==
    \A s \in Shipments :
        /\ ship[s].status # "DELIVERY_FAILED"
        /\ ship[s].status = "NDR" => GetActiveNDRCase(s)

\* A case closed as returned to sender has a return, and the parcel is on it.
ReturnUnderWay ==
    \A s \in Shipments :
        ndr[s].status = "RESOLVED_RTO" =>
            /\ rto[s] # "NONE"
            /\ ship[s].status \in {"RTO_INITIATED", "RTO_IN_TRANSIT", "RTO_DELIVERED"}

\* A parcel that was not delivered always has somebody who decides what happens
\* to it: an open case, or a return under way.
UndeliveredOwned == FailureOwned /\ ReturnUnderWay

\* The obligations are those of the delivered parcels that had cash to collect,
\* the cash of each taken in full by its one successful attempt; a successful
\* attempt that opened none ended a return. No attempt that failed or was
\* cancelled opens one, whatever cash it reports, and no order of runs, cases
\* and returns delivers such a parcel without one (attempt.go, financeops.go).
DeliveryIsOwed ==
    /\ owed \subseteq CodParcels
    /\ \A s \in CodParcels :
          /\ s \in owed <=> ship[s].status = "DELIVERED"
          /\ s \in owed => att[s].success /\ att[s].cash = 1
          /\ att[s].success => s \in owed \/ ship[s].status = "RTO_DELIVERED"

\* A proof is of something that happened, and claims a delivery code only when
\* one was proved: the parcel's state is that of the proof's type.
ProofOfFact ==
    \A s \in Shipments : \A p \in pod[s] :
        /\ ship[s].status = IF p.type = "RTO_RETURN" THEN "RTO_DELIVERED" ELSE "DELIVERED"
        /\ p.verified => att[s].verified

-----------------------------------------------------------------------------
(***************************************************************************)
(* What the code says of itself and does not keep (see the README).        *)
(***************************************************************************)

\* "Too many incorrect codes. Issue a new one." (delivery.go:578): a code is
\* refused once it has been answered wrongly OtpMax times.
GuessesBounded == \A s \in Shipments : guesses[s] <= OtpMax

\* "a missing obligation is cash with no owner" (financeops.go:165): the cash
\* of an attempt that hands a parcel over is owed by somebody.
CashHasOwner == \A s \in Shipments : att[s].cash = 1 => s \in owed

=============================================================================
