------------------------------ MODULE Delivery ------------------------------
(***************************************************************************)
(* Delivery runs, delivery codes and attempts (internal/delivery), with    *)
(* what the finance observer does when a parcel is delivered.              *)
(*                                                                         *)
(* Left out: vehicles, stop order, positions.  A repeated device event is  *)
(* found by its key, or refused by the unique index on it, and changes     *)
(* nothing either way.  Run statuses COMPLETED, CLOSED and CANCELLED and   *)
(* stop status REMOVED are set by nothing.                                 *)
(***************************************************************************)
EXTENDS Ndr

CONSTANTS
    Runs,          \* delivery runs that may be planned
    Managers,      \* the users who hold delivery.manage
    CodParcels,    \* the parcels with cash to collect
    OtpMax,        \* max_attempts of a delivery code
    MaxGuesses,    \* bound: wrong codes offered against one code
    RunBranches    \* bound: the branches that plan runs

ASSUME DeliveryAssumption ==
    /\ Managers \subseteq Users
    /\ CodParcels \subseteq Shipments
    /\ OtpMax \in Nat /\ MaxGuesses \in Nat
    /\ RunBranches \subseteq Units

VARIABLES
    run,       \* run[r]: the run's row
    stop,      \* stop[r][s]: the status of s's stop on r
    otp,       \* otp[s]: the parcel's unconsumed code
    guesses,   \* guesses[s]: how often the live code was answered wrongly
    att,       \* att[s]: the parcel's attempts
    owed       \* the parcels with a COD obligation

deliveryVars == <<run, stop, otp, guesses, att, owed>>

RunStatuses == {"NONE", "PLANNED", "ASSIGNED", "DISPATCHED", "IN_PROGRESS"}

RunRow == [status : RunStatuses, branch : Leg, agent : Users \cup {Nil}]

StopStatuses == {"NONE", "PENDING", "OUT_FOR_DELIVERY", "DELIVERED", "FAILED",
                 "RETURNED_TO_BRANCH"}

OtpRow == [live : BOOLEAN, expired : BOOLEAN, count : 0 .. OtpMax]

\* How many, whether one succeeded, whether that one proved its code, the cash
\* it took (1 is the amount due), and whether one that delivered nothing
\* reports cash as well.
AttemptRow == [count : 0 .. MaxAttempts, success : BOOLEAN, verified : BOOLEAN,
               cash : {0, 1}, loose : {0, 1}]

NoOtp == [live |-> FALSE, expired |-> FALSE, count |-> 0]

DeliveryInit ==
    /\ run = [r \in Runs |-> [status |-> "NONE", branch |-> Nil, agent |-> Nil]]
    /\ stop = [r \in Runs |-> [s \in Shipments |-> "NONE"]]
    /\ otp = [s \in Shipments |-> NoOtp]
    /\ guesses = [s \in Shipments |-> 0]
    /\ att = [s \in Shipments |-> [count |-> 0, success |-> FALSE,
                                   verified |-> FALSE, cash |-> 0, loose |-> 0]]
    /\ owed = {}

-----------------------------------------------------------------------------
(***************************************************************************)
(* Runs and stops.                                                         *)
(***************************************************************************)
canTransition(from, to) ==
    <<from, to>> \in {<<"PLANNED", "ASSIGNED">>, <<"PLANNED", "DISPATCHED">>,
                      <<"ASSIGNED", "DISPATCHED">>, <<"ASSIGNED", "PLANNED">>,
                      <<"DISPATCHED", "IN_PROGRESS">>}

\* The runs that have the parcel: at most one, by delivery_run_items_active_idx.
GetActiveDeliveryRunItem(s) ==
    {r \in Runs : stop[r][s] \in {"PENDING", "OUT_FOR_DELIVERY"}}

ListDeliveryRunShipmentIDs(r) == {s \in Shipments : stop[r][s] = "PENDING"}

GetDeliveryRunItemForShipment(r, s) == stop[r][s] # "NONE"

\* The stops of S take a status; the compare-and-swap of a run's status.
UpdateDeliveryRunItemStatus(r, S, to) ==
    [stop EXCEPT ![r] = [s \in Shipments |-> IF s \in S THEN to ELSE @[s]]]

UpdateDeliveryRunStatus(row, expected, to) ==
    IF row.status = expected THEN [row EXCEPT !.status = to] ELSE row

CreateDeliveryRun(branch, agent) == [status |-> "PLANNED", branch |-> branch, agent |-> agent]

\* planned_stops, as RecalculateDeliveryRunCounters leaves it.
PlannedStops(r) == Cardinality({s \in Shipments : GetDeliveryRunItemForShipment(r, s)})

\* Mutant: a parcel may be on two runs.
addStopAgain(r, branch, s) ==
    /\ ~ship[s].held
    /\ ship[s].status \in {"DESTINATION_BRANCH_RECEIVED", "NDR", "DELIVERY_FAILED",
                           "RTO_IN_TRANSIT"}
    /\ ship[s].unit = branch
    /\ stop[r][s] = "NONE"

\* addStop, with the unique constraints on delivery_run_items.
addStop(r, branch, s) ==
    /\ ~ship[s].held
    /\ ship[s].status \in {"DESTINATION_BRANCH_RECEIVED", "NDR", "DELIVERY_FAILED",
                           "RTO_IN_TRANSIT"}
    /\ ship[s].unit = branch
    /\ GetActiveDeliveryRunItem(s) = {}
    /\ ~GetDeliveryRunItemForShipment(r, s)

AddDeliveryRunItem(r, S) == UpdateDeliveryRunItemStatus(r, S, "PENDING")

\* Every stop is accepted or the run is not created.
CreateRun(r, branch, agent, S) ==
    /\ run[r].status = "NONE"
    /\ \A s \in S : addStop(r, branch, s)
    /\ run' = [run EXCEPT ![r] = CreateDeliveryRun(branch, agent)]
    /\ stop' = AddDeliveryRunItem(r, S)
    /\ UNCHANGED <<ship, rto, ndr, otp, guesses, att, owed>>

\* A stop the checks refuse is skipped; one the index refuses aborts the
\* transaction and with it the request, so only the former are in the result.
AddStops(r, s) ==
    /\ run[r].status \in {"PLANNED", "ASSIGNED"}
    /\ addStop(r, run[r].branch, s)
    /\ stop' = AddDeliveryRunItem(r, {s})
    /\ UNCHANGED <<ship, rto, ndr, run, otp, guesses, att, owed>>

Assign(r, agent) ==
    /\ canTransition(run[r].status, "ASSIGNED") \/ run[r].status = "ASSIGNED"
    /\ run' = [run EXCEPT ![r] =
                   [UpdateDeliveryRunStatus(@, @.status, "ASSIGNED") EXCEPT !.agent = agent]]
    /\ UNCHANGED <<ship, rto, ndr, stop, otp, guesses, att, owed>>

\* Custody passes to the agent; the branch remains accountable.
OutForDelivery(r) == Request("OUT_FOR_DELIVERY", run[r].branch)

\* Dispatch: one parcel that may not go out keeps the whole run in.
Dispatch(r) ==
    LET S == ListDeliveryRunShipmentIDs(r) IN
    /\ canTransition(run[r].status, "DISPATCHED")
    /\ PlannedStops(r) # 0
    /\ \A s \in S : CanApply(s, ship[s], OutForDelivery(r))
    /\ ship' = [s \in Shipments |->
                   IF s \in S THEN [Moved(ship[s], OutForDelivery(r))
                                       EXCEPT !.user = run[r].agent]
                   ELSE ship[s]]
    /\ stop' = UpdateDeliveryRunItemStatus(r, S, "OUT_FOR_DELIVERY")
    /\ run' = [run EXCEPT ![r] = UpdateDeliveryRunStatus(@, @.status, "DISPATCHED")]
    /\ UNCHANGED <<rto, ndr, otp, guesses, att, owed>>

-----------------------------------------------------------------------------
(***************************************************************************)
(* Delivery codes.                                                         *)
(***************************************************************************)
GetActiveDeliveryOTP(s) == otp[s].live

CreateDeliveryOTP == [live |-> TRUE, expired |-> FALSE, count |-> 0]

ConsumeDeliveryOTP(s) == [otp EXCEPT ![s] = NoOtp]

\* A second code replaces the first.
IssueOTP(s) ==
    /\ ship[s].status \notin terminalStatuses
    /\ otp' = [otp EXCEPT ![s] = CreateDeliveryOTP]
    /\ guesses' = [guesses EXCEPT ![s] = 0]
    /\ UNCHANGED <<ship, rto, ndr, run, stop, att, owed>>

\* Four hours pass.
OtpExpires(s) ==
    /\ otp[s].live /\ ~otp[s].expired
    /\ otp' = [otp EXCEPT ![s].expired = TRUE]
    /\ UNCHANGED <<ship, rto, ndr, run, stop, guesses, att, owed>>

\* verifyOTP accepts the right code, once.
verifyOTP(s) ==
    /\ GetActiveDeliveryOTP(s)
    /\ ~otp[s].expired
    /\ otp[s].count < OtpMax

\* A wrong code: verifyOTP counts it and returns an error, and the error rolls
\* the count back with the rest of RecordAttempt's transaction.
WrongCode(s, by) ==
    /\ verifyOTP(s)
    /\ ship[s].user \in {Nil, by} \/ by \in Managers
    /\ guesses[s] < MaxGuesses
    /\ guesses' = [guesses EXCEPT ![s] = @ + 1]
    /\ UNCHANGED <<ship, rto, ndr, run, stop, otp, att, owed>>

-----------------------------------------------------------------------------
(***************************************************************************)
(* Attempts.                                                               *)
(***************************************************************************)
\* A delivery takes exactly the cash due.
validateCOD(s, cash) == cash = IF s \in CodParcels THEN 1 ELSE 0

\* The stop an attempt belongs to: of the named run, whatever the stop's
\* status, or the parcel's live one. A counter handover has none.
findRunItem(s, named) == IF named # Nil THEN {named} ELSE GetActiveDeliveryRunItem(s)

\* The state an outcome asks for.
outcomeStatus(s, outcome) ==
    CASE outcome = "DELIVERED" ->
            IF ship[s].dir = "REVERSE" THEN "RTO_DELIVERED" ELSE "DELIVERED"
      [] outcome = "CANCELLED" -> "DESTINATION_BRANCH_RECEIVED"
      [] OTHER -> "DELIVERY_FAILED"

itemStatus == [DELIVERED |-> "DELIVERED", FAILED |-> "FAILED", RESCHEDULED |-> "FAILED",
               CANCELLED |-> "RETURNED_TO_BRANCH"]

\* The request and the row an outcome writes: a delivery ends custody, a
\* cancelled attempt brings the parcel back to the facility that records it.
OutcomeRequest(s, in, at, by) ==
    [Request(outcomeStatus(s, in.outcome), at)
        EXCEPT !.by = by,
               !.reason = in.reason # Nil \/ (in.outcome = "CANCELLED" /\ at # Nil)]

applyOutcome(s, in, at, by) ==
    LET moved == Moved(ship[s], OutcomeRequest(s, in, at, by)) IN
    CASE in.outcome = "DELIVERED" -> [moved EXCEPT !.unit = Nil, !.user = Nil]
      [] in.outcome = "CANCELLED" /\ at # Nil -> [moved EXCEPT !.unit = at, !.user = Nil]
      [] OTHER -> moved

\* The attempts with one more, numbered after the last.
CreateDeliveryAttempt(a, in) ==
    IF in.outcome = "DELIVERED"
    THEN [count |-> a.count + 1, success |-> TRUE, verified |-> in.code,
          cash |-> in.cash, loose |-> a.loose]
    ELSE [a EXCEPT !.count = @ + 1, !.loose = IF in.cash = 1 THEN 1 ELSE @]

\* One successful attempt to a parcel, by delivery_attempts_success_idx.
writeAttempt(s, in) ==
    /\ in.outcome = "DELIVERED" => ~att[s].success
    /\ att' = [att EXCEPT ![s] = CreateDeliveryAttempt(@, in)]

\* The stop takes the outcome and its run, if just dispatched, is under way.
closeRunItem(s, items, outcome) ==
    /\ stop' = [r \in Runs |-> IF r \in items
                               THEN [stop[r] EXCEPT ![s] = itemStatus[outcome]]
                               ELSE stop[r]]
    /\ run' = [r \in Runs |-> IF r \in items
                              THEN UpdateDeliveryRunStatus(run[r], "DISPATCHED", "IN_PROGRESS")
                              ELSE run[r]]

\* Mutant: the observer waits for the parcel's proof of delivery.
onDeliveredNot(s, to) == UNCHANGED owed

\* The finance observer, in the transaction of the transition.
onDelivered(s, to) ==
    owed' = IF to = "DELIVERED" /\ s \in CodParcels THEN owed \cup {s} ELSE owed

\* The request of an attempt: code is whether the right delivery code came
\* with it (only a delivery looks at it), cash what it reports as collected,
\* whatever the outcome. A failure names its reason, the others may.
AttemptInput ==
    [outcome : {"DELIVERED"}, code : BOOLEAN, cash : {0, 1}, reason : Reasons \cup {Nil}]
    \cup [outcome : {"FAILED", "RESCHEDULED"}, code : {FALSE}, cash : {0, 1},
          reason : Reasons]
    \cup [outcome : {"CANCELLED"}, code : {FALSE}, cash : {0, 1}, reason : Reasons \cup {Nil}]

RecordAttempt(s, by, at, named, in) ==
    LET items == findRunItem(s, named)
        q     == OutcomeRequest(s, in, at, by)
        moved == applyOutcome(s, in, at, by)
    IN  /\ att[s].count < MaxAttempts
        /\ named # Nil => GetDeliveryRunItemForShipment(named, s)
        /\ ship[s].user \in {Nil, by} \/ by \in Managers
        /\ IF in.code
           THEN verifyOTP(s) /\ otp' = ConsumeDeliveryOTP(s)
           ELSE UNCHANGED otp
        /\ guesses' = [guesses EXCEPT ![s] = IF otp'[s].live THEN @ ELSE 0]
        /\ in.outcome = "DELIVERED" => validateCOD(s, in.cash)
        /\ writeAttempt(s, in)
        /\ CanApply(s, ship[s], q)
        /\ closeRunItem(s, items, in.outcome)
        /\ onDelivered(s, q.to)
        /\ IF in.outcome \in {"FAILED", "RESCHEDULED"} /\ (Route[s].destBranch # Nil \/ at # Nil)
           THEN OpenFromDeliveryFailure(s, moved, in.reason)
           ELSE /\ ship' = [ship EXCEPT ![s] = moved]
                /\ UNCHANGED <<ndr, rto>>

-----------------------------------------------------------------------------
(***************************************************************************)
(* Proof of delivery (internal/pod).  The files are stored before the      *)
(* transaction opens, so a submission is two steps: what the first one     *)
(* read may have changed when the second one writes.                       *)
(*                                                                         *)
(* Left out: the files themselves, and those of a failed submission, which *)
(* stay in the store (nothing calls the sweep of expired objects).         *)
(***************************************************************************)
CONSTANT Submitters   \* clients that submit proofs

VARIABLES
    submit,   \* submit[c]: the submission whose files c has stored, or Nil
    pod       \* pod[s]: the parcel's proofs

podVars == <<submit, pod>>

\* CUSTOMER_PICKUP and HANDOVER are checked and kept as DELIVERY is.
PodTypes == {"DELIVERY", "RTO_RETURN"}

Submission == [parcel : Shipments, type : PodTypes]

ProofRow == [type : PodTypes, verified : BOOLEAN]

PodInit ==
    /\ submit = [c \in Submitters |-> Nil]
    /\ pod = [s \in Shipments |-> {}]

GetProofOfDeliveryForShipment(s, t) == {p \in pod[s] : p.type = t}

CreateProofOfDelivery(t, verified) == [type |-> t, verified |-> verified]

\* The stored files of a submission, and where they belong.
CreateStoredObject(s, t) == [parcel |-> s, type |-> t]

\* The probe and uploadArtifacts: no transaction, no lock.
StartSubmit(c, s, t) ==
    /\ submit[c] = Nil
    /\ GetProofOfDeliveryForShipment(s, t) = {}
    /\ submit' = [submit EXCEPT ![c] = CreateStoredObject(s, t)]
    /\ UNCHANGED pod

\* Mutant: the state is not looked at again once the files are stored.
checkDeliverableStateNot(s, t) == TRUE

checkDeliverableState(s, t) ==
    ship[s].status = IF t = "RTO_RETURN" THEN "RTO_DELIVERED" ELSE "DELIVERED"

\* Read off the successful attempt, not from the client.
otpWasVerified(s) == att[s].success /\ att[s].verified

\* The transaction. proof_of_delivery_unique stops the second of two
\* submissions that both found no proof.
FinishSubmit(c) ==
    LET s == submit[c].parcel
        t == submit[c].type
    IN  /\ submit[c] # Nil
        /\ submit' = [submit EXCEPT ![c] = Nil]
        /\ IF checkDeliverableState(s, t) /\ GetProofOfDeliveryForShipment(s, t) = {}
           THEN pod' = [pod EXCEPT ![s] = @ \cup
                           {CreateProofOfDelivery(t, otpWasVerified(s))}]
           ELSE UNCHANGED pod

=============================================================================
