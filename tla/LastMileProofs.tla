--------------------------- MODULE LastMileProofs ---------------------------
(***************************************************************************)
(* Proofs about the last mile, for any number of parcels, runs, agents and *)
(* submitters, any catalogue of reasons and any limits.                    *)
(***************************************************************************)
EXTENDS LastMile, FiniteSetTheorems, TLAPS

\* The statements of the data layer are always expanded.
USE DEF SetShipmentCustody, LockShipmentByIDForUpdate, CreateRTOCase, LockRTOCaseForUpdate,
        UpdateRTOCaseStatus, CreateShipmentHold, ReleaseShipmentHold, SetShipmentHoldFlag

-----------------------------------------------------------------------------
(***************************************************************************)
(* The transition table and the engine.                                    *)
(***************************************************************************)

\* The statuses a scan, an operator's decision or a cancelled attempt gives.
Floor == {"ORIGIN_BRANCH_RECEIVED", "TRANSIT_HUB_RECEIVED", "DESTINATION_HUB_RECEIVED",
          "DESTINATION_BRANCH_RECEIVED", "ORIGIN_DISPATCHED", "TRANSIT_HUB_DISPATCHED",
          "DAMAGED"}

\* The rows of the table that lead to a status of the last mile.
LEMMA TableLemma ==
    ASSUME NEW f
    PROVE  /\ Find(f, "DELIVERY_FAILED") => f = "OUT_FOR_DELIVERY"
           /\ Find(f, "OUT_FOR_DELIVERY") => f \in {"DESTINATION_BRANCH_RECEIVED", "NDR"}
           /\ Find(f, "DELIVERED") =>
                 f \in {"DESTINATION_BRANCH_RECEIVED", "NDR", "OUT_FOR_DELIVERY", "DAMAGED"}
           /\ Find(f, "RTO_INITIATED") =>
                 f \in {"NDR", "DELIVERY_FAILED", "DESTINATION_BRANCH_RECEIVED", "DAMAGED"}
           /\ Find(f, "RTO_IN_TRANSIT") => f = "RTO_INITIATED"
           /\ Find(f, "RTO_DELIVERED") => f = "RTO_IN_TRANSIT"
           /\ \A to \in Floor : Find(f, to) => f \notin Returning \cup {"DELIVERED"}
  BY DEF Find, transitions, CustodyNone, CustodyHolder, CustodyDestinationBranch,
         CustodyAgent, CustodyAnyFacility, Floor, Returning

\* r2 is r with another status and perhaps another direction.
Onward(r2, r, to) == r2 \in Row /\ r2.status = to /\ r2.user = r.user

\* A request has a target and, for a return, a direction.
Asks(q, to) == q.to = to /\ q.dir \in Directions \cup {Nil}

\* Moving a row through the engine changes its status and perhaps its direction.
LEMMA MovedLemma ==
    ASSUME NEW r \in Row, NEW q, NEW to \in Statuses, Asks(q, to)
    PROVE  Onward(Moved(r, q), r, to)
<1>1. q.to \in Statuses /\ (IF q.dir = Nil THEN r.dir ELSE q.dir) \in Directions
  BY DEF Asks, Row
<1>2. QED BY <1>1 DEF Onward, Moved, Row, Asks

\* The requests the operations make.
LEMMA AskLemma ==
    ASSUME NEW to, NEW at
    PROVE  /\ Asks(Request(to, at), to)
           /\ \A o : Asks([Request(to, at) EXCEPT !.reason = TRUE, !.override = o], to)
           /\ Asks([Request(to, at) EXCEPT !.reason = TRUE], to)
           /\ Asks([Request(to, at) EXCEPT !.dir = "REVERSE"], to)
           /\ \A b : Asks([Request(to, at) EXCEPT !.reason = TRUE, !.system = b], to)
           /\ \A b, c : Asks([Request(to, at) EXCEPT !.by = b, !.reason = c], to)
  BY DEF Asks, Request, Directions

\* The engine applies only what the table has.
LEMMA ApplyLemma ==
    ASSUME NEW s, NEW r, NEW q, NEW to, Asks(q, to), CanApply(s, r, q)
    PROVE  Find(r.status, to)
  BY DEF CanApply, ValidateDirection, Asks

\* A scan receives a parcel only into a received state.
LEMMA ReceiveLemma ==
    ASSUME NEW s, NEW at, NEW to, receiveTarget(s, at, to)
    PROVE  to \in Floor /\ to \in Statuses /\ Find(ship[s].status, to)
  BY DEF receiveTarget, receiveCandidates, Floor, Statuses

-----------------------------------------------------------------------------
(***************************************************************************)
(* Types.  The attempts counted by a case are attempts of the parcel, which *)
(* is what keeps the case's counter in its range.                          *)
(***************************************************************************)
Counted == \A s \in Shipments : ndr[s].count <= att[s].count

LEMMA TypeInit == ASSUME Init PROVE TypeOK /\ Counted
<1>1. ship \in [Shipments -> Row]
  BY RouteAssumption DEF Init, Arrived, Row, Statuses, Directions
<1>2. rto \in [Shipments -> CaseStatuses] BY DEF Init, RtoInit, CaseStatuses
<1>3. ndr \in [Shipments -> NdrRow] /\ \A s \in Shipments : ndr[s].count = 0
  BY ReasonsAssumption DEF Init, NdrInit, NoCase, NdrRow
<1>4. run \in [Runs -> RunRow] /\ stop \in [Runs -> [Shipments -> StopStatuses]]
  BY DEF Init, DeliveryInit, RunRow, RunStatuses, StopStatuses, Leg
<1>5. otp \in [Shipments -> OtpRow] /\ guesses \in [Shipments -> 0 .. MaxGuesses]
  BY DeliveryAssumption DEF Init, DeliveryInit, NoOtp, OtpRow
<1>6. att \in [Shipments -> AttemptRow] /\ \A s \in Shipments : att[s].count = 0
  BY ReasonsAssumption DEF Init, DeliveryInit, AttemptRow
<1>7. owed \subseteq Shipments BY DEF Init, DeliveryInit
<1>8. submit \in [Submitters -> Submission \cup {Nil}] /\ pod \in [Shipments -> SUBSET ProofRow]
  BY DEF Init, PodInit
<1>9. QED
  BY <1>1, <1>2, <1>3, <1>4, <1>5, <1>6, <1>7, <1>8 DEF TypeOK, Counted

\* A scan leaves a row, and the parcel as it was or on the floor.
LEMMA ScanRow ==
    ASSUME ship \in [Shipments -> Row], NEW s \in Shipments, Scan(s)
    PROVE  \E r \in Row :
              /\ ship' = [ship EXCEPT ![s] = r]
              /\ \/ r.status = ship[s].status /\ r.user = ship[s].user
                 \/ Find(ship[s].status, r.status) /\ r.status \in Floor
<1> DEFINE Good(r) == /\ ship' = [ship EXCEPT ![s] = r]
                      /\ \/ r.status = ship[s].status /\ r.user = ship[s].user
                         \/ Find(ship[s].status, r.status) /\ r.status \in Floor
<1>1. ASSUME NEW at \in Units, NEW o \in Overrides, Receive(s, at, o)
      PROVE  \E r \in Row : Good(r)
  <2> DEFINE q(to) == [Request(to, at) EXCEPT !.reason = TRUE, !.override = o]
  <2>1. PICK to \in Statuses :
          /\ receiveTarget(s, at, to)
          /\ ship' = [ship EXCEPT ![s] =
                [ReceivedAt(Moved(ship[s], q(to)), at) EXCEPT !.user = Nil, !.bag = Nil]]
    BY <1>1 DEF Receive
  <2> DEFINE m == Moved(ship[s], q(to))
             r == [ReceivedAt(m, at) EXCEPT !.user = Nil, !.bag = Nil]
  <2>2. Asks(q(to), to) BY AskLemma
  <2>3. Onward(m, ship[s], to) BY <2>2, MovedLemma
  <2>4. to \in Floor /\ Find(ship[s].status, to) BY <2>1, ReceiveLemma
  <2>5. ship' = [ship EXCEPT ![s] = r] BY <2>1
  <2> HIDE DEF m
  <2>6. r \in Row /\ r.status = to BY <2>3 DEF Onward, ReceivedAt, Row, Leg
  <2> HIDE DEF r
  <2>7. QED BY <2>4, <2>5, <2>6
<1>2. ASSUME NEW at, NEW o, NEW to \in {"ORIGIN_DISPATCHED", "TRANSIT_HUB_DISPATCHED", "DAMAGED"},
             CanApply(s, ship[s], [Request(to, at) EXCEPT !.reason = TRUE, !.override = o]),
             ship' = [ship EXCEPT ![s] =
                Moved(ship[s], [Request(to, at) EXCEPT !.reason = TRUE, !.override = o])]
      PROVE  \E r \in Row : Good(r)
  <2> DEFINE q == [Request(to, at) EXCEPT !.reason = TRUE, !.override = o]
             r == Moved(ship[s], q)
  <2>1. Asks(q, to) BY AskLemma
  <2>2. CanApply(s, ship[s], q) /\ ship' = [ship EXCEPT ![s] = r] BY <1>2
  <2> HIDE DEF q
  <2>3. to \in Statuses /\ to \in Floor BY DEF Statuses, Floor
  <2>4. Onward(r, ship[s], to) BY <2>1, <2>3, MovedLemma
  <2> HIDE DEF r
  <2>5. Find(ship[s].status, to) BY <2>1, <2>2, ApplyLemma
  <2>6. QED BY <2>2, <2>3, <2>4, <2>5 DEF Onward
<1>3. ASSUME NEW at \in Units, NEW o \in Overrides, Departure(s, at, o)
      PROVE  \E r \in Row : Good(r)
  <2> DEFINE to == IF ship[s].status \in {"TRANSIT_HUB_RECEIVED", "DESTINATION_HUB_RECEIVED"}
                   THEN "TRANSIT_HUB_DISPATCHED" ELSE "ORIGIN_DISPATCHED"
  <2>1. to \in {"ORIGIN_DISPATCHED", "TRANSIT_HUB_DISPATCHED", "DAMAGED"} OBVIOUS
  <2>2. /\ CanApply(s, ship[s], [Request(to, at) EXCEPT !.reason = TRUE, !.override = o])
        /\ ship' = [ship EXCEPT ![s] =
              Moved(ship[s], [Request(to, at) EXCEPT !.reason = TRUE, !.override = o])]
    BY <1>3 DEF Departure
  <2> HIDE DEF to
  <2>3. QED BY <1>2, <2>1, <2>2
<1>4. ASSUME NEW at \in Leg, NEW o \in Overrides, Damage(s, at, o) PROVE \E r \in Row : Good(r)
  BY <1>2, <1>4 DEF Damage
<1>5. CASE (\E at \in Units : Hold(s, at)) \/ Release(s)
  <2>1. PICK h \in BOOLEAN : ship' = [ship EXCEPT ![s] = [ship[s] EXCEPT !.held = h]]
    BY <1>5 DEF Hold, Release
  <2> DEFINE r == [ship[s] EXCEPT !.held = h]
  <2>2. r \in Row /\ r.status = ship[s].status /\ r.user = ship[s].user BY DEF Row
  <2>3. ship' = [ship EXCEPT ![s] = r] BY <2>1
  <2> HIDE DEF r
  <2>4. QED BY <2>2, <2>3
<1>6. QED BY <1>1, <1>3, <1>4, <1>5 DEF Scan

\* A return operation moves one case and, with it, its parcel.
LEMMA RtoRow ==
    ASSUME ship \in [Shipments -> Row], rto \in [Shipments -> CaseStatuses], RtoNext
    PROVE  \E s \in Shipments, r \in Row, v \in CaseStatuses :
              /\ ship' = [ship EXCEPT ![s] = r] /\ rto' = [rto EXCEPT ![s] = v]
              /\ \/ rto[s] \in ActiveCases /\ v \in ActiveCases /\ r.status = ship[s].status
                 \/ /\ rto[s] \notin ActiveCases /\ v = "INITIATED"
                    /\ Find(ship[s].status, "RTO_INITIATED") /\ r.status = "RTO_INITIATED"
                 \/ /\ rto[s] \in ActiveCases /\ v # "NONE"
                    /\ Find(ship[s].status, r.status)
                    /\ r.status \in {"RTO_IN_TRANSIT", "RTO_DELIVERED"}
<1> DEFINE Good(s, r, v) ==
              /\ ship' = [ship EXCEPT ![s] = r] /\ rto' = [rto EXCEPT ![s] = v]
              /\ \/ rto[s] \in ActiveCases /\ v \in ActiveCases /\ r.status = ship[s].status
                 \/ /\ rto[s] \notin ActiveCases /\ v = "INITIATED"
                    /\ Find(ship[s].status, "RTO_INITIATED") /\ r.status = "RTO_INITIATED"
                 \/ /\ rto[s] \in ActiveCases /\ v # "NONE"
                    /\ Find(ship[s].status, r.status)
                    /\ r.status \in {"RTO_IN_TRANSIT", "RTO_DELIVERED"}
           Goal == \E s \in Shipments, r \in Row, v \in CaseStatuses : Good(s, r, v)
<1>a. Returning \subseteq Statuses BY DEF Returning, Statuses
<1>1. ASSUME NEW s \in Shipments, Initiate(s) PROVE Goal
  <2> DEFINE q == [Request("RTO_INITIATED", Nil) EXCEPT !.reason = TRUE]
             r == Moved(ship[s], q)
  <2>1. /\ rto[s] \notin ActiveCases /\ CanApply(s, ship[s], q)
        /\ ship' = [ship EXCEPT ![s] = r] /\ rto' = [rto EXCEPT ![s] = "INITIATED"]
    BY <1>1 DEF Initiate
  <2>2. Asks(q, "RTO_INITIATED") BY AskLemma
  <2> HIDE DEF q
  <2>3. Onward(r, ship[s], "RTO_INITIATED") BY <1>a, <2>2, MovedLemma DEF Returning
  <2> HIDE DEF r
  <2>4. Find(ship[s].status, "RTO_INITIATED") BY <2>1, <2>2, ApplyLemma
  <2>5. Good(s, r, "INITIATED") BY <2>1, <2>3, <2>4 DEF Onward
  <2>6. QED BY <2>3, <2>5 DEF Onward, CaseStatuses
<1>2. ASSUME NEW s \in Shipments, NEW at \in Leg, DispatchReturn(s, at) PROVE Goal
  <2> DEFINE q == [Request("RTO_IN_TRANSIT", at) EXCEPT !.dir = "REVERSE"]
             r == Moved(ship[s], q)
  <2>1. /\ rto[s] = "INITIATED" /\ CanApply(s, ship[s], q)
        /\ ship' = [ship EXCEPT ![s] = r] /\ rto' = [rto EXCEPT ![s] = "IN_TRANSIT"]
    BY <1>2 DEF DispatchReturn
  <2>2. Asks(q, "RTO_IN_TRANSIT") BY AskLemma
  <2> HIDE DEF q
  <2>3. Onward(r, ship[s], "RTO_IN_TRANSIT") BY <1>a, <2>2, MovedLemma DEF Returning
  <2> HIDE DEF r
  <2>4. Find(ship[s].status, "RTO_IN_TRANSIT") BY <2>1, <2>2, ApplyLemma
  <2>5. Good(s, r, "IN_TRANSIT")
    BY <2>1, <2>3, <2>4 DEF Onward, ActiveCases, CaseStatuses
  <2>6. QED BY <2>3, <2>5 DEF Onward, CaseStatuses
<1>3. ASSUME NEW s \in Shipments, NEW at \in Units, ReceiveAtFacility(s, at) PROVE Goal
  <2> DEFINE r == SetShipmentCustody(ship[s], at, Nil, Nil, Nil)
  <2>1. rto[s] \in ActiveCases /\ ship' = [ship EXCEPT ![s] = r] BY <1>3 DEF ReceiveAtFacility
  <2>2. PICK v \in {rto[s], "AT_ORIGIN_BRANCH"} : rto' = [rto EXCEPT ![s] = v]
    BY <1>3 DEF ReceiveAtFacility
  <2>3. r \in Row /\ r.status = ship[s].status BY DEF Row, Leg
  <2> HIDE DEF r
  <2>4. v \in ActiveCases BY <2>1 DEF ActiveCases, CaseStatuses
  <2>5. QED BY <2>1, <2>2, <2>3, <2>4 DEF ActiveCases
<1>4. ASSUME NEW s \in Shipments, NEW at \in Leg, CompleteReturn(s, at) PROVE Goal
  <2> DEFINE q == [Request("RTO_DELIVERED", at) EXCEPT !.dir = "REVERSE"]
             m == Moved(ship[s], q)
             r == [m EXCEPT !.unit = Nil, !.user = Nil]
  <2>1. /\ rto[s] \in ActiveCases /\ CanApply(s, ship[s], q)
        /\ ship' = [ship EXCEPT ![s] = r] /\ rto' = [rto EXCEPT ![s] = "RETURNED"]
    BY <1>4 DEF CompleteReturn
  <2>2. Asks(q, "RTO_DELIVERED") BY AskLemma
  <2> HIDE DEF q
  <2>3. Onward(m, ship[s], "RTO_DELIVERED") BY <1>a, <2>2, MovedLemma DEF Returning
  <2> HIDE DEF m
  <2>4. Find(ship[s].status, "RTO_DELIVERED") BY <2>1, <2>2, ApplyLemma
  <2>5. r \in Row /\ r.status = "RTO_DELIVERED" BY <2>3 DEF Onward, Row, Leg
  <2> HIDE DEF r
  <2>6. Good(s, r, "RETURNED") BY <2>1, <2>4, <2>5
  <2>7. QED BY <2>5, <2>6 DEF CaseStatuses
<1>5. ASSUME NEW s \in Shipments, FailReturn(s) PROVE Goal
  <2>1. rto[s] \in ActiveCases /\ ship' = ship /\ rto' = [rto EXCEPT ![s] = "RETURN_FAILED"]
    BY <1>5 DEF FailReturn
  <2>2. ship' = [ship EXCEPT ![s] = ship[s]] /\ ship[s] \in Row BY <2>1
  <2>3. Good(s, ship[s], "RETURN_FAILED") BY <2>1, <2>2 DEF ActiveCases, CaseStatuses
  <2>4. QED BY <2>2, <2>3 DEF CaseStatuses
<1>6. QED BY <1>1, <1>2, <1>3, <1>4, <1>5 DEF RtoNext

\* A return started from a case, by the policy of a reason or by an operator.
LEMMA InitiateLemma ==
    ASSUME NEW s \in Shipments, NEW r \in Row, NEW b, initiate(s, r, b)
    PROVE  \/ rto[s] \in ActiveCases /\ ship' = [ship EXCEPT ![s] = r] /\ rto' = rto
           \/ /\ rto[s] \notin ActiveCases /\ rto' = [rto EXCEPT ![s] = "INITIATED"]
              /\ Find(r.status, "RTO_INITIATED")
              /\ \E r2 \in Row : ship' = [ship EXCEPT ![s] = r2] /\ r2.status = "RTO_INITIATED"
<1>1. CASE rto[s] \in ActiveCases BY <1>1 DEF initiate
<1>2. CASE rto[s] \notin ActiveCases
  <2> DEFINE q == RtoRequest(b)
             r2 == Moved(r, q)
  <2>1. /\ CanApply(s, r, q) /\ ship' = [ship EXCEPT ![s] = r2]
        /\ rto' = [rto EXCEPT ![s] = "INITIATED"]
    BY <1>2 DEF initiate
  <2>2. Asks(q, "RTO_INITIATED") BY AskLemma DEF RtoRequest
  <2> HIDE DEF q
  <2>3. "RTO_INITIATED" \in Statuses BY DEF Statuses
  <2>4. Onward(r2, r, "RTO_INITIATED") BY <2>2, <2>3, MovedLemma
  <2> HIDE DEF r2
  <2>5. Find(r.status, "RTO_INITIATED") BY <2>1, <2>2, ApplyLemma
  <2>6. QED BY <1>2, <2>1, <2>4, <2>5 DEF Onward
<1>3. QED BY <1>1, <1>2

\* One more attempt, or none, on a case.
LEMMA CaseRow ==
    ASSUME NEW c \in NdrRow, NEW to \in openStatuses \cup {"RESOLVED_RTO"}, NEW i \in {0, 1},
           c.count + i <= MaxAttempts
    PROVE  LET n == UpdateNDRCase(c, to, i)
           IN  n \in NdrRow /\ n.status = to /\ n.count = c.count + i
<1> DEFINE k == c.count + i
<1>1. c.count \in Nat /\ i \in Nat BY ReasonsAssumption DEF NdrRow
<1>2. k \in 0 .. MaxAttempts BY <1>1, ReasonsAssumption
<1>3. UpdateNDRCase(c, to, i) = [c EXCEPT !.status = to, !.count = k]
  BY DEF UpdateNDRCase, NdrRow
<1> HIDE DEF k
<1>4. LET n == [c EXCEPT !.status = to, !.count = k]
      IN  n \in NdrRow /\ n.status = to /\ n.count = k
  BY <1>2 DEF NdrRow
<1>5. QED BY <1>3, <1>4 DEF k

\* What a failed attempt leaves of the parcel, its case and its return.
LEMMA OpenLemma ==
    ASSUME NEW s \in Shipments, NEW r \in Row, NEW reason \in Reason,
           ship \in [Shipments -> Row], ndr \in [Shipments -> NdrRow],
           att \in [Shipments -> AttemptRow], Counted, att[s].count < MaxAttempts,
           rto[s] \notin ActiveCases, OpenFromDeliveryFailure(s, r, reason)
    PROVE  \E r2 \in Row, n \in NdrRow :
              /\ ship' = [ship EXCEPT ![s] = r2] /\ ndr' = [ndr EXCEPT ![s] = n]
              /\ n.count <= att[s].count + 1
              /\ \/ r2.status = "NDR" /\ n.status \in openStatuses /\ rto' = rto
                 \/ r2.status = "RTO_INITIATED" /\ rto' = [rto EXCEPT ![s] = "INITIATED"]
<1> DEFINE case == IF GetActiveNDRCase(s) THEN ndr[s] ELSE CreateNDRCase(reason)
           exhausted == case.count + 1 >= case.max
           action == nextAction(reason, exhausted)
           to == nextStatus(action, exhausted)
           updated == UpdateNDRCase(case, to, 1)
           closed == UpdateNDRCase(updated, "RESOLVED_RTO", 0)
           m == Moved(r, Request("NDR", Nil))
<1>1. case \in NdrRow /\ case.count <= att[s].count
  <2>1. CASE GetActiveNDRCase(s) BY <2>1 DEF Counted
  <2>2. CASE ~GetActiveNDRCase(s)
    BY <2>2, ReasonsAssumption DEF CreateNDRCase, NdrRow, openStatuses, Reason, AttemptRow
  <2>3. QED BY <2>1, <2>2
<1>2. to \in openStatuses BY DEF nextStatus, openStatuses
<1>3. /\ CanApply(s, r, Request("NDR", Nil))
      /\ \/ initiate(s, m, TRUE) /\ ndr' = [ndr EXCEPT ![s] = closed]
         \/ ship' = [ship EXCEPT ![s] = m] /\ ndr' = [ndr EXCEPT ![s] = updated] /\ rto' = rto
  BY DEF OpenFromDeliveryFailure
<1>4. Onward(m, r, "NDR")
  <2>1. "NDR" \in Statuses BY DEF Statuses
  <2>2. Asks(Request("NDR", Nil), "NDR") BY AskLemma
  <2>3. QED BY <2>1, <2>2, MovedLemma
<1> HIDE DEF case, to, m
<1>5. case.count + 1 <= MaxAttempts /\ case.count \in Nat /\ att[s].count \in Nat
  BY <1>1, ReasonsAssumption DEF NdrRow, AttemptRow
<1>6. updated \in NdrRow /\ updated.status = to /\ updated.count = case.count + 1
  BY <1>1, <1>2, <1>5, CaseRow
<1> HIDE DEF updated
<1>7. closed \in NdrRow /\ closed.count = case.count + 1
  BY <1>5, <1>6, CaseRow
<1> HIDE DEF closed
<1>8. case.count + 1 <= att[s].count + 1 BY <1>1, <1>5
<1>9. CASE initiate(s, m, TRUE) /\ ndr' = [ndr EXCEPT ![s] = closed]
  <2>1. m \in Row BY <1>4 DEF Onward
  <2>2. /\ rto' = [rto EXCEPT ![s] = "INITIATED"]
        /\ \E r2 \in Row : ship' = [ship EXCEPT ![s] = r2] /\ r2.status = "RTO_INITIATED"
    BY <1>9, <2>1, InitiateLemma
  <2>3. QED BY <1>7, <1>8, <1>9, <2>2
<1>10. CASE ship' = [ship EXCEPT ![s] = m] /\ ndr' = [ndr EXCEPT ![s] = updated] /\ rto' = rto
  BY <1>2, <1>4, <1>6, <1>8, <1>10 DEF Onward
<1>11. QED BY <1>3, <1>9, <1>10

-----------------------------------------------------------------------------
(***************************************************************************)
(* Attempts.                                                               *)
(***************************************************************************)
Outcomes == {"DELIVERED", "FAILED", "RESCHEDULED", "CANCELLED"}

\* The request of an attempt.
LEMMA InputLemma ==
    ASSUME NEW in \in AttemptInput
    PROVE  /\ in.outcome \in Outcomes /\ in.code \in BOOLEAN /\ in.cash \in {0, 1}
           /\ in.outcome \in {"FAILED", "RESCHEDULED"} => in.reason \in Reason
  BY ReasonsAssumption DEF AttemptInput, Outcomes

\* The stop an outcome closes is no longer live.
LEMMA ItemLemma ==
    ASSUME NEW o \in Outcomes
    PROVE  itemStatus[o] \in {"DELIVERED", "FAILED", "RETURNED_TO_BRANCH"}
  BY DEF itemStatus, Outcomes

\* The row an outcome writes.
LEMMA OutcomeRow ==
    ASSUME NEW s \in Shipments, ship[s] \in Row, NEW in, NEW at \in Leg, NEW by
    PROVE  /\ applyOutcome(s, in, at, by) \in Row
           /\ applyOutcome(s, in, at, by).status = outcomeStatus(s, in.outcome)
           /\ Asks(OutcomeRequest(s, in, at, by), outcomeStatus(s, in.outcome))
<1> DEFINE to == outcomeStatus(s, in.outcome)
           q == OutcomeRequest(s, in, at, by)
           m == Moved(ship[s], q)
<1>1. to \in Statuses BY DEF outcomeStatus, Statuses
<1>2. Asks(q, to) BY AskLemma DEF OutcomeRequest
<1>3. applyOutcome(s, in, at, by) \in {[m EXCEPT !.unit = Nil, !.user = Nil],
                                     [m EXCEPT !.unit = at, !.user = Nil], m}
  BY DEF applyOutcome
<1> HIDE DEF to, q
<1>4. Onward(m, ship[s], to) BY <1>1, <1>2, MovedLemma
<1> HIDE DEF m
<1>5. /\ [m EXCEPT !.unit = Nil, !.user = Nil] \in Row
      /\ [m EXCEPT !.unit = Nil, !.user = Nil].status = to
      /\ [m EXCEPT !.unit = at, !.user = Nil] \in Row
      /\ [m EXCEPT !.unit = at, !.user = Nil].status = to
  BY <1>4 DEF Onward, Row, Leg
<1>6. QED BY <1>2, <1>3, <1>4, <1>5 DEF Onward, to, q

\* The attempts with one more.
LEMMA AttemptCount ==
    ASSUME NEW a \in AttemptRow, NEW in \in AttemptInput, a.count < MaxAttempts
    PROVE  LET b == CreateDeliveryAttempt(a, in)
           IN  /\ b \in AttemptRow /\ b.count = a.count + 1
               /\ in.outcome = "DELIVERED" => b.success /\ b.cash = in.cash
               /\ in.outcome # "DELIVERED" =>
                     b.success = a.success /\ b.verified = a.verified /\ b.cash = a.cash
<1> DEFINE k == a.count + 1
           b == CreateDeliveryAttempt(a, in)
<1>1. k \in 0 .. MaxAttempts BY ReasonsAssumption DEF AttemptRow
<1>2. b = IF in.outcome = "DELIVERED"
          THEN [count |-> k, success |-> TRUE, verified |-> in.code,
                cash |-> in.cash, loose |-> a.loose]
          ELSE [a EXCEPT !.count = k, !.loose = IF in.cash = 1 THEN 1 ELSE a.loose]
  BY DEF CreateDeliveryAttempt, AttemptRow
<1> HIDE DEF k, b
<1>3. CASE in.outcome = "DELIVERED"
  BY <1>1, <1>2, <1>3, InputLemma DEF AttemptRow, k, b
<1>4. CASE in.outcome # "DELIVERED"
  <2>1. b = [a EXCEPT !.count = k, !.loose = IF in.cash = 1 THEN 1 ELSE a.loose]
    BY <1>2, <1>4
  <2>2. /\ b \in AttemptRow /\ b.count = k
        /\ b.success = a.success /\ b.verified = a.verified /\ b.cash = a.cash
    BY <1>1, <2>1 DEF AttemptRow
  <2>3. QED BY <1>4, <2>2 DEF b, k
<1>5. QED BY <1>3, <1>4

\* Only a return that is open, and only a branch the routing knows, explain a
\* parcel that is on its way back or out with an agent.
Explained ==
    \A s \in Shipments :
        /\ rto[s] \in ActiveCases => ship[s].status \in Returning
        /\ ship[s].status = "OUT_FOR_DELIVERY" => Route[s].destBranch # Nil

Kept(a, b) == a.success = b.success /\ a.verified = b.verified /\ a.cash = b.cash

\* The four ways an attempt ends: r, v, n and a are the parcel's row, return,
\* case and attempts after it.
HandedOver(s, r, v, n, a) ==
    /\ Find(ship[s].status, r.status) /\ r.status \in {"DELIVERED", "RTO_DELIVERED"}
    /\ v = rto[s] /\ n = ndr[s]
    /\ a.success /\ (s \in CodParcels => a.cash = 1)
    /\ owed' = IF r.status = "DELIVERED" /\ s \in CodParcels THEN owed \cup {s} ELSE owed

BroughtBack(s, r, v, n, a) ==
    /\ Find(ship[s].status, r.status) /\ r.status = "DESTINATION_BRANCH_RECEIVED"
    /\ v = rto[s] /\ n = ndr[s] /\ Kept(a, att[s]) /\ owed' = owed

Failed(s, r, v, n, a) ==
    /\ ship[s].status = "OUT_FOR_DELIVERY" /\ Kept(a, att[s]) /\ owed' = owed
    /\ \/ r.status = "NDR" /\ n.status \in openStatuses /\ v = rto[s]
       \/ r.status = "RTO_INITIATED" /\ rto[s] \notin ActiveCases /\ v = "INITIATED"

\* What an attempt does to its parcel.
LEMMA AttemptRowLemma ==
    ASSUME TypeOK, Counted, Explained, NEW s \in Shipments, NEW by \in Users, NEW at \in Leg,
           NEW named \in Runs \cup {Nil}, NEW in \in AttemptInput,
           RecordAttempt(s, by, at, named, in)
    PROVE  \E r \in Row, v \in CaseStatuses, n \in NdrRow, a \in AttemptRow :
              /\ ship' = [ship EXCEPT ![s] = r] /\ rto' = [rto EXCEPT ![s] = v]
              /\ ndr' = [ndr EXCEPT ![s] = n] /\ att' = [att EXCEPT ![s] = a]
              /\ n.count <= a.count
              /\ HandedOver(s, r, v, n, a) \/ BroughtBack(s, r, v, n, a) \/ Failed(s, r, v, n, a)
<1>t. /\ ship \in [Shipments -> Row] /\ rto \in [Shipments -> CaseStatuses]
      /\ ndr \in [Shipments -> NdrRow] /\ att \in [Shipments -> AttemptRow]
  BY DEF TypeOK
<1> DEFINE Goal == \E r \in Row, v \in CaseStatuses, n \in NdrRow, a \in AttemptRow :
              /\ ship' = [ship EXCEPT ![s] = r] /\ rto' = [rto EXCEPT ![s] = v]
              /\ ndr' = [ndr EXCEPT ![s] = n] /\ att' = [att EXCEPT ![s] = a]
              /\ n.count <= a.count
              /\ HandedOver(s, r, v, n, a) \/ BroughtBack(s, r, v, n, a) \/ Failed(s, r, v, n, a)
           to == outcomeStatus(s, in.outcome)
           q == OutcomeRequest(s, in, at, by)
           m == applyOutcome(s, in, at, by)
           a == CreateDeliveryAttempt(att[s], in)
<1>1. /\ att[s].count < MaxAttempts /\ CanApply(s, ship[s], q)
      /\ in.outcome = "DELIVERED" => validateCOD(s, in.cash)
      /\ att' = [att EXCEPT ![s] = a]
      /\ onDelivered(s, q.to)
      /\ IF in.outcome \in {"FAILED", "RESCHEDULED"} /\ (Route[s].destBranch # Nil \/ at # Nil)
         THEN OpenFromDeliveryFailure(s, m, in.reason)
         ELSE ship' = [ship EXCEPT ![s] = m] /\ UNCHANGED <<ndr, rto>>
  BY DEF RecordAttempt, writeAttempt
<1>2. in.outcome \in Outcomes BY InputLemma
<1>3. m \in Row /\ m.status = to /\ Asks(q, to) BY <1>t, <1>2, OutcomeRow
<1>4. Find(ship[s].status, to) BY <1>1, <1>3, ApplyLemma
<1>5. /\ a \in AttemptRow /\ a.count = att[s].count + 1
      /\ in.outcome = "DELIVERED" => a.success /\ a.cash = in.cash
      /\ in.outcome # "DELIVERED" => Kept(a, att[s])
  BY <1>t, <1>1, AttemptCount DEF Kept
<1>6. /\ owed' = IF to = "DELIVERED" /\ s \in CodParcels THEN owed \cup {s} ELSE owed
  BY <1>1, <1>3 DEF onDelivered, Asks
<1>7. /\ in.outcome = "DELIVERED" => to \in {"DELIVERED", "RTO_DELIVERED"}
      /\ in.outcome = "CANCELLED" => to = "DESTINATION_BRANCH_RECEIVED"
      /\ in.outcome \in {"FAILED", "RESCHEDULED"} => to = "DELIVERY_FAILED"
  BY DEF outcomeStatus
<1>8. ndr[s].count <= att[s].count + 1 /\ ndr[s] \in NdrRow /\ rto[s] \in CaseStatuses
  BY <1>t, ReasonsAssumption DEF Counted, NdrRow, AttemptRow
<1> HIDE DEF to, q, m, a
<1>9. CASE in.outcome = "DELIVERED"
  <2>1. /\ ship' = [ship EXCEPT ![s] = m] /\ rto' = [rto EXCEPT ![s] = rto[s]]
        /\ ndr' = [ndr EXCEPT ![s] = ndr[s]]
    BY <1>t, <1>1, <1>9
  <2>2. s \in CodParcels => a.cash = 1 BY <1>1, <1>5, <1>9 DEF validateCOD
  <2>3. HandedOver(s, m, rto[s], ndr[s], a)
    BY <1>3, <1>4, <1>5, <1>6, <1>7, <1>9, <2>2 DEF HandedOver
  <2>4. QED BY <1>1, <1>3, <1>5, <1>8, <2>1, <2>3
<1>10. CASE in.outcome = "CANCELLED"
  <2>1. /\ ship' = [ship EXCEPT ![s] = m] /\ rto' = [rto EXCEPT ![s] = rto[s]]
        /\ ndr' = [ndr EXCEPT ![s] = ndr[s]]
    BY <1>t, <1>1, <1>10
  <2>2. owed' = owed BY <1>6, <1>7, <1>10
  <2>3. BroughtBack(s, m, rto[s], ndr[s], a)
    BY <1>3, <1>4, <1>5, <1>7, <1>10, <2>2 DEF BroughtBack
  <2>4. QED BY <1>1, <1>3, <1>5, <1>8, <2>1, <2>3
<1>11. CASE in.outcome \in {"FAILED", "RESCHEDULED"}
  <2>1. ship[s].status = "OUT_FOR_DELIVERY" BY <1>4, <1>7, <1>11, TableLemma
  <2>2. rto[s] \notin ActiveCases /\ Route[s].destBranch # Nil
    BY <2>1 DEF Explained, Returning
  <2>3. OpenFromDeliveryFailure(s, m, in.reason) /\ in.reason \in Reason
    BY <1>1, <1>11, <2>2, InputLemma
  <2>4. owed' = owed /\ Kept(a, att[s]) BY <1>5, <1>6, <1>7, <1>11
  <2>5. PICK r \in Row, n \in NdrRow :
          /\ ship' = [ship EXCEPT ![s] = r] /\ ndr' = [ndr EXCEPT ![s] = n]
          /\ n.count <= att[s].count + 1
          /\ \/ r.status = "NDR" /\ n.status \in openStatuses /\ rto' = rto
             \/ r.status = "RTO_INITIATED" /\ rto' = [rto EXCEPT ![s] = "INITIATED"]
    BY <1>t, <1>1, <1>3, <2>2, <2>3, OpenLemma
  <2>6. CASE r.status = "NDR" /\ n.status \in openStatuses /\ rto' = rto
    <3>1. Failed(s, r, rto[s], n, a) BY <2>1, <2>4, <2>6 DEF Failed
    <3>2. rto' = [rto EXCEPT ![s] = rto[s]] BY <1>t, <2>6
    <3>3. QED BY <1>1, <1>5, <1>8, <2>5, <3>1, <3>2
  <2>7. CASE r.status = "RTO_INITIATED" /\ rto' = [rto EXCEPT ![s] = "INITIATED"]
    <3>1. Failed(s, r, "INITIATED", n, a) BY <2>1, <2>2, <2>4, <2>7 DEF Failed
    <3>2. "INITIATED" \in CaseStatuses BY DEF CaseStatuses
    <3>3. QED BY <1>1, <1>5, <2>5, <2>7, <3>1, <3>2
  <2>8. QED BY <2>5, <2>6, <2>7
<1>12. QED BY <1>2, <1>9, <1>10, <1>11 DEF Outcomes

-----------------------------------------------------------------------------
(***************************************************************************)
(* What a step may do to a parcel: leave it, put it on a shelf, send it out *)
(* with an agent, miss its consignee, send it back, bring it further back,  *)
(* hand it over.                                                           *)
(***************************************************************************)
OwedSame(s) == (s \in owed') <=> (s \in owed)

Advanced(n, m) ==
    n.status = m.status \/ (n.status \in openStatuses /\ m.status \in openStatuses)

Still(s) ==
    /\ ship'[s].status = ship[s].status
    /\ rto'[s] = rto[s] \/ (rto[s] \in ActiveCases /\ rto'[s] \in ActiveCases)
    /\ \/ Advanced(ndr'[s], ndr[s])
       \/ (rto[s] \in ActiveCases /\ rto'[s] \in ActiveCases /\ ndr'[s].status = "RESOLVED_RTO")
    /\ att'[s] = att[s] /\ OwedSame(s)

Placed(s) ==
    /\ Find(ship[s].status, ship'[s].status) /\ ship'[s].status \in Floor
    /\ rto'[s] = rto[s] /\ Advanced(ndr'[s], ndr[s])
    /\ Kept(att'[s], att[s]) /\ OwedSame(s)

Sent(s) ==
    /\ Find(ship[s].status, "OUT_FOR_DELIVERY") /\ ship'[s].status = "OUT_FOR_DELIVERY"
    /\ Route[s].destBranch # Nil
    /\ rto'[s] = rto[s] /\ ndr'[s] = ndr[s] /\ att'[s] = att[s] /\ OwedSame(s)

Missed(s) ==
    /\ ship[s].status = "OUT_FOR_DELIVERY" /\ ship'[s].status = "NDR"
    /\ rto'[s] = rto[s] /\ ndr'[s].status \in openStatuses
    /\ Kept(att'[s], att[s]) /\ OwedSame(s)

SentBack(s) ==
    /\ ship[s].status = "OUT_FOR_DELIVERY" \/ Find(ship[s].status, "RTO_INITIATED")
    /\ ship'[s].status = "RTO_INITIATED"
    /\ rto[s] \notin ActiveCases /\ rto'[s] = "INITIATED"
    /\ Kept(att'[s], att[s]) /\ OwedSame(s)

Returned(s) ==
    /\ Find(ship[s].status, ship'[s].status)
    /\ ship'[s].status \in {"RTO_IN_TRANSIT", "RTO_DELIVERED"}
    /\ rto[s] \in ActiveCases /\ rto'[s] # "NONE"
    /\ ndr'[s] = ndr[s] /\ att'[s] = att[s] /\ OwedSame(s)

Handed(s) ==
    /\ Find(ship[s].status, ship'[s].status)
    /\ ship'[s].status \in {"DELIVERED", "RTO_DELIVERED"}
    /\ rto'[s] = rto[s] /\ ndr'[s] = ndr[s]
    /\ att'[s].success /\ (s \in CodParcels => att'[s].cash = 1)
    /\ (s \in owed') <=> (s \in owed \/ (ship'[s].status = "DELIVERED" /\ s \in CodParcels))

Fate(s) ==
    Still(s) \/ Placed(s) \/ Sent(s) \/ Missed(s) \/ SentBack(s) \/ Returned(s) \/ Handed(s)

\* A parcel that is out after the step was out, with the same agent, before it.
StaysOut(s) ==
    ship'[s].status = "OUT_FOR_DELIVERY" =>
        ship[s].status = "OUT_FOR_DELIVERY" /\ ship'[s].user = ship[s].user

\* The columns of the parcels keep their types.
ParcelTypes ==
    /\ ship \in [Shipments -> Row] /\ rto \in [Shipments -> CaseStatuses]
    /\ ndr \in [Shipments -> NdrRow] /\ att \in [Shipments -> AttemptRow]
    /\ owed \subseteq Shipments /\ Counted

Whole == ParcelTypes' /\ \A s \in Shipments : Fate(s)

\* Nothing happens to any parcel.
LEMMA NothingMoves ==
    ASSUME TypeOK, Counted, UNCHANGED <<ship, rto, ndr, att, owed>>
    PROVE  Whole /\ \A s \in Shipments : StaysOut(s)
  BY DEF TypeOK, Counted, Whole, ParcelTypes, Fate, Still, Advanced, OwedSame, StaysOut

\* The step writes the rows of s, and those only.
Writes(s, r, v, n, a) ==
    /\ r \in Row /\ v \in CaseStatuses /\ n \in NdrRow /\ a \in AttemptRow
    /\ n.count <= a.count
    /\ ship' = [ship EXCEPT ![s] = r] /\ rto' = [rto EXCEPT ![s] = v]
    /\ ndr' = [ndr EXCEPT ![s] = n] /\ att' = [att EXCEPT ![s] = a]
    /\ owed' \subseteq Shipments /\ \A t \in Shipments \ {s} : OwedSame(t)

\* A step that writes the rows of one parcel leaves the others as they were.
LEMMA OneParcel ==
    ASSUME TypeOK, Counted, NEW s \in Shipments, NEW r, NEW v, NEW n, NEW a,
           Writes(s, r, v, n, a)
    PROVE  /\ ship'[s] = r /\ rto'[s] = v /\ ndr'[s] = n /\ att'[s] = a
           /\ Fate(s) => Whole
           /\ StaysOut(s) => \A t \in Shipments : StaysOut(t)
<1>1. ship'[s] = r /\ rto'[s] = v /\ ndr'[s] = n /\ att'[s] = a BY DEF TypeOK, Writes
<1>2. ASSUME NEW t \in Shipments \ {s}
      PROVE  ship'[t] = ship[t] /\ rto'[t] = rto[t] /\ ndr'[t] = ndr[t] /\ att'[t] = att[t]
  BY DEF TypeOK, Writes
<1>3. ASSUME NEW t \in Shipments \ {s} PROVE Fate(t) /\ StaysOut(t)
  BY <1>2 DEF Fate, Still, Advanced, StaysOut, Writes
<1>4. ParcelTypes'
  <2>1. /\ ship' \in [Shipments -> Row] /\ rto' \in [Shipments -> CaseStatuses]
        /\ ndr' \in [Shipments -> NdrRow] /\ att' \in [Shipments -> AttemptRow]
    BY DEF TypeOK, Writes
  <2>2. \A t \in Shipments : ndr'[t].count <= att'[t].count BY <1>1, <1>2 DEF Counted, Writes
  <2>3. QED BY <2>1, <2>2 DEF ParcelTypes, Counted, Writes
<1>5. QED BY <1>1, <1>3, <1>4 DEF Whole

\* A scan.
LEMMA ScanFate ==
    ASSUME TypeOK, Counted, NEW s \in Shipments, Scan(s), UNCHANGED <<rto, ndr, att, owed>>
    PROVE  Whole /\ \A t \in Shipments : StaysOut(t)
<1>t. /\ ship \in [Shipments -> Row] /\ rto \in [Shipments -> CaseStatuses]
      /\ ndr \in [Shipments -> NdrRow] /\ att \in [Shipments -> AttemptRow]
      /\ owed \subseteq Shipments
  BY DEF TypeOK
<1>1. PICK r \in Row :
          /\ ship' = [ship EXCEPT ![s] = r]
          /\ \/ r.status = ship[s].status /\ r.user = ship[s].user
             \/ Find(ship[s].status, r.status) /\ r.status \in Floor
  BY <1>t, ScanRow
<1>2. /\ rto' = [rto EXCEPT ![s] = rto[s]] /\ ndr' = [ndr EXCEPT ![s] = ndr[s]]
      /\ att' = [att EXCEPT ![s] = att[s]] /\ \A t \in Shipments : OwedSame(t)
      /\ owed' \subseteq Shipments
  BY <1>t DEF OwedSame
<1>3. ndr[s].count <= att[s].count BY DEF Counted
<1>w. Writes(s, r, rto[s], ndr[s], att[s]) BY <1>t, <1>1, <1>2, <1>3 DEF Writes
<1>4. /\ ship'[s] = r /\ rto'[s] = rto[s] /\ ndr'[s] = ndr[s] /\ att'[s] = att[s]
      /\ Fate(s) => Whole
      /\ StaysOut(s) => \A t \in Shipments : StaysOut(t)
  BY <1>w, OneParcel
<1>5. Fate(s) BY <1>1, <1>2, <1>4 DEF Fate, Still, Placed, Advanced, Kept
<1>6. StaysOut(s) BY <1>1, <1>4 DEF StaysOut, Floor
<1>7. QED BY <1>4, <1>5, <1>6

\* A return operation.
LEMMA ReturnFate ==
    ASSUME TypeOK, Counted, Explained, RtoNext, UNCHANGED <<ndr, att, owed>>
    PROVE  Whole /\ \A t \in Shipments : StaysOut(t)
<1>t. /\ ship \in [Shipments -> Row] /\ rto \in [Shipments -> CaseStatuses]
      /\ ndr \in [Shipments -> NdrRow] /\ att \in [Shipments -> AttemptRow]
      /\ owed \subseteq Shipments
  BY DEF TypeOK
<1>1. PICK s \in Shipments, r \in Row, v \in CaseStatuses :
          /\ ship' = [ship EXCEPT ![s] = r] /\ rto' = [rto EXCEPT ![s] = v]
          /\ \/ rto[s] \in ActiveCases /\ v \in ActiveCases /\ r.status = ship[s].status
             \/ /\ rto[s] \notin ActiveCases /\ v = "INITIATED"
                /\ Find(ship[s].status, "RTO_INITIATED") /\ r.status = "RTO_INITIATED"
             \/ /\ rto[s] \in ActiveCases /\ v # "NONE"
                /\ Find(ship[s].status, r.status)
                /\ r.status \in {"RTO_IN_TRANSIT", "RTO_DELIVERED"}
  BY <1>t, RtoRow
<1>2. /\ ndr' = [ndr EXCEPT ![s] = ndr[s]] /\ att' = [att EXCEPT ![s] = att[s]]
      /\ \A t \in Shipments : OwedSame(t)
  BY <1>t DEF OwedSame
<1>3. ndr[s].count <= att[s].count /\ owed' \subseteq Shipments BY <1>t DEF Counted
<1>4. Writes(s, r, v, ndr[s], att[s]) BY <1>t, <1>1, <1>2, <1>3 DEF Writes
<1>5. /\ ship'[s] = r /\ rto'[s] = v /\ ndr'[s] = ndr[s] /\ att'[s] = att[s]
      /\ Fate(s) => Whole
      /\ StaysOut(s) => \A t \in Shipments : StaysOut(t)
  BY <1>4, OneParcel
<1>6. Fate(s) BY <1>1, <1>2, <1>5 DEF Fate, Still, SentBack, Returned, Advanced, Kept
<1>7. StaysOut(s) BY <1>1, <1>5 DEF StaysOut, Explained, Returning
<1>8. QED BY <1>5, <1>6, <1>7

\* An operator's decision on a case.
LEMMA ActionFate ==
    ASSUME TypeOK, Counted, NEW s \in Shipments, NEW action \in NdrActions,
           SetAction(s, action), UNCHANGED <<att, owed>>
    PROVE  Whole /\ \A t \in Shipments : StaysOut(t)
<1>t. /\ ship \in [Shipments -> Row] /\ rto \in [Shipments -> CaseStatuses]
      /\ ndr \in [Shipments -> NdrRow] /\ att \in [Shipments -> AttemptRow]
      /\ owed \subseteq Shipments
  BY DEF TypeOK
<1> DEFINE to == statusForAction(action)
           n == UpdateNDRCase(ndr[s], to, 0)
           z == UpdateNDRCase(n, "RESOLVED_RTO", 0)
           back == Request("DESTINATION_BRANCH_RECEIVED", Nil)
           m == Moved(ship[s], back)
<1>1. /\ ndr[s].status \in openStatuses
      /\ \/ /\ action \in {"REATTEMPT", "RESCHEDULE"}
            /\ \/ CanApply(s, ship[s], back) /\ ship' = [ship EXCEPT ![s] = m]
               \/ ship' = ship
            /\ ndr' = [ndr EXCEPT ![s] = n] /\ rto' = rto
         \/ initiate(s, ship[s], FALSE) /\ ndr' = [ndr EXCEPT ![s] = z]
         \/ ndr' = [ndr EXCEPT ![s] = n] /\ ship' = ship /\ rto' = rto
  BY DEF SetAction, GetActiveNDRCase, NdrActions
<1>2. to \in openStatuses BY DEF statusForAction, openStatuses
<1>3. Asks(back, "DESTINATION_BRANCH_RECEIVED") BY AskLemma
<1>4. "DESTINATION_BRANCH_RECEIVED" \in Statuses \cap Floor BY DEF Statuses, Floor
<1> HIDE DEF to, back
<1>5. Onward(m, ship[s], "DESTINATION_BRANCH_RECEIVED") BY <1>t, <1>3, <1>4, MovedLemma
<1> HIDE DEF m
<1>6. ndr[s].count + 0 <= MaxAttempts /\ ndr[s].count \in Nat /\ ndr[s] \in NdrRow
  BY <1>t, ReasonsAssumption DEF NdrRow
<1>7. n \in NdrRow /\ n.status = to /\ n.count = ndr[s].count BY <1>2, <1>6, CaseRow
<1> HIDE DEF n
<1>8. z \in NdrRow /\ z.status = "RESOLVED_RTO" /\ z.count = ndr[s].count
  BY <1>6, <1>7, CaseRow
<1> HIDE DEF z
<1>9. /\ ship[s] \in Row /\ rto[s] \in CaseStatuses /\ att[s] \in AttemptRow
      /\ n.count <= att[s].count /\ z.count <= att[s].count /\ owed' \subseteq Shipments
      /\ att' = [att EXCEPT ![s] = att[s]] /\ \A t \in Shipments : OwedSame(t)
  BY <1>t, <1>7, <1>8 DEF Counted, OwedSame
<1>10. ASSUME NEW r \in Row, ship' = [ship EXCEPT ![s] = r],
              ndr' = [ndr EXCEPT ![s] = n], rto' = rto,
              \/ r = ship[s]
              \/ Find(ship[s].status, r.status) /\ r.status \in Floor
       PROVE  Whole /\ \A t \in Shipments : StaysOut(t)
  <2>1. rto' = [rto EXCEPT ![s] = rto[s]] BY <1>t, <1>10
  <2>2. Writes(s, r, rto[s], n, att[s]) BY <1>7, <1>9, <1>10, <2>1 DEF Writes
  <2>3. /\ ship'[s] = r /\ rto'[s] = rto[s] /\ ndr'[s] = n /\ att'[s] = att[s]
        /\ Fate(s) => Whole
        /\ StaysOut(s) => \A t \in Shipments : StaysOut(t)
    BY <2>2, OneParcel
  <2>4. Fate(s)
    BY <1>1, <1>2, <1>7, <1>9, <1>10, <2>3 DEF Fate, Still, Placed, Advanced, Kept
  <2>5. StaysOut(s) BY <1>10, <2>3 DEF StaysOut, Floor
  <2>6. QED BY <2>3, <2>4, <2>5
<1>11. CASE ship' = ship /\ ndr' = [ndr EXCEPT ![s] = n] /\ rto' = rto
  <2>1. ship' = [ship EXCEPT ![s] = ship[s]] BY <1>t, <1>11
  <2>2. QED BY <1>9, <1>10, <1>11, <2>1
<1>12. CASE /\ CanApply(s, ship[s], back) /\ ship' = [ship EXCEPT ![s] = m]
            /\ ndr' = [ndr EXCEPT ![s] = n] /\ rto' = rto
  <2>1. Find(ship[s].status, "DESTINATION_BRANCH_RECEIVED") BY <1>3, <1>12, ApplyLemma
  <2>2. m \in Row /\ m.status = "DESTINATION_BRANCH_RECEIVED" BY <1>5 DEF Onward
  <2>3. Find(ship[s].status, m.status) /\ m.status \in Floor BY <1>4, <2>1, <2>2
  <2>4. QED BY <1>10, <1>12, <2>2, <2>3
<1>13. CASE initiate(s, ship[s], FALSE) /\ ndr' = [ndr EXCEPT ![s] = z]
  <2>1. PICK r \in Row, v \in CaseStatuses :
          /\ ship' = [ship EXCEPT ![s] = r] /\ rto' = [rto EXCEPT ![s] = v]
          /\ \/ rto[s] \in ActiveCases /\ r = ship[s] /\ v = rto[s]
             \/ /\ rto[s] \notin ActiveCases /\ v = "INITIATED"
                /\ Find(ship[s].status, "RTO_INITIATED") /\ r.status = "RTO_INITIATED"
    <3>1. CASE rto[s] \in ActiveCases /\ ship' = [ship EXCEPT ![s] = ship[s]] /\ rto' = rto
      <4>1. rto' = [rto EXCEPT ![s] = rto[s]] BY <1>t, <3>1
      <4>2. QED BY <1>9, <3>1, <4>1
    <3>2. CASE /\ rto[s] \notin ActiveCases /\ rto' = [rto EXCEPT ![s] = "INITIATED"]
               /\ Find(ship[s].status, "RTO_INITIATED")
               /\ \E r2 \in Row : /\ ship' = [ship EXCEPT ![s] = r2]
                                  /\ r2.status = "RTO_INITIATED"
      <4>1. "INITIATED" \in CaseStatuses BY DEF CaseStatuses
      <4>2. QED BY <3>2, <4>1
    <3>3. QED BY <1>9, <1>13, <3>1, <3>2, InitiateLemma
  <2>2. Writes(s, r, v, z, att[s]) BY <1>8, <1>9, <1>13, <2>1 DEF Writes
  <2>3. /\ ship'[s] = r /\ rto'[s] = v /\ ndr'[s] = z /\ att'[s] = att[s]
        /\ Fate(s) => Whole
        /\ StaysOut(s) => \A t \in Shipments : StaysOut(t)
    BY <2>2, OneParcel
  <2>4. Fate(s) BY <1>8, <1>9, <2>1, <2>3 DEF Fate, Still, SentBack, Kept
  <2>5. StaysOut(s) BY <2>1, <2>3 DEF StaysOut
  <2>6. QED BY <2>3, <2>4, <2>5
<1>14. QED BY <1>1, <1>11, <1>12, <1>13

\* An attempt; the parcel is not out after it.
LEMMA AttemptFate ==
    ASSUME TypeOK, Counted, Explained, NEW s \in Shipments, NEW by \in Users, NEW at \in Leg,
           NEW named \in Runs \cup {Nil}, NEW in \in AttemptInput,
           RecordAttempt(s, by, at, named, in)
    PROVE  /\ Whole /\ \A t \in Shipments : StaysOut(t)
           /\ ship'[s].status # "OUT_FOR_DELIVERY"
<1>1. PICK r \in Row, v \in CaseStatuses, n \in NdrRow, a \in AttemptRow :
          /\ ship' = [ship EXCEPT ![s] = r] /\ rto' = [rto EXCEPT ![s] = v]
          /\ ndr' = [ndr EXCEPT ![s] = n] /\ att' = [att EXCEPT ![s] = a]
          /\ n.count <= a.count
          /\ HandedOver(s, r, v, n, a) \/ BroughtBack(s, r, v, n, a) \/ Failed(s, r, v, n, a)
  BY AttemptRowLemma
<1>2. owed' \in {owed, owed \cup {s}} BY <1>1 DEF HandedOver, BroughtBack, Failed
<1>3. owed' \subseteq Shipments /\ \A t \in Shipments \ {s} : OwedSame(t)
  BY <1>2 DEF TypeOK, OwedSame
<1>4. Writes(s, r, v, n, a) BY <1>1, <1>3 DEF Writes
<1>5. /\ ship'[s] = r /\ rto'[s] = v /\ ndr'[s] = n /\ att'[s] = a
      /\ Fate(s) => Whole
      /\ StaysOut(s) => \A t \in Shipments : StaysOut(t)
  BY <1>4, OneParcel
<1>6. CASE HandedOver(s, r, v, n, a)
  <2>1. Handed(s) BY <1>5, <1>6 DEF HandedOver, Handed
  <2>2. ship'[s].status # "OUT_FOR_DELIVERY" BY <1>5, <1>6 DEF HandedOver
  <2>3. QED BY <1>5, <2>1, <2>2 DEF Fate, StaysOut
<1>7. CASE BroughtBack(s, r, v, n, a)
  <2>1. Placed(s) BY <1>5, <1>7 DEF BroughtBack, Placed, Floor, Advanced, OwedSame
  <2>2. ship'[s].status # "OUT_FOR_DELIVERY" BY <1>5, <1>7 DEF BroughtBack
  <2>3. QED BY <1>5, <2>1, <2>2 DEF Fate, StaysOut
<1>8. CASE Failed(s, r, v, n, a)
  <2>1. Missed(s) \/ SentBack(s) BY <1>5, <1>8 DEF Failed, Missed, SentBack, OwedSame
  <2>2. ship'[s].status # "OUT_FOR_DELIVERY" BY <1>5, <1>8 DEF Failed
  <2>3. QED BY <1>5, <2>1, <2>2 DEF Fate, StaysOut
<1>9. QED BY <1>1, <1>6, <1>7, <1>8

\* A run leaves: its pending parcels are out with its agent, the others stay.
LEMMA DispatchFate ==
    ASSUME TypeOK, Counted, NEW r \in Runs, Dispatch(r)
    PROVE  /\ Whole
           /\ \A s \in Shipments : IF stop[r][s] = "PENDING"
                                   THEN ship'[s].user = run[r].agent
                                   ELSE ship'[s] = ship[s]
<1> DEFINE q == OutForDelivery(r)
           Out(s) == [Moved(ship[s], q) EXCEPT !.user = run[r].agent]
<1>1. /\ \A s \in Shipments : stop[r][s] = "PENDING" => CanApply(s, ship[s], q)
      /\ ship' = [s \in Shipments |-> IF stop[r][s] = "PENDING" THEN Out(s) ELSE ship[s]]
      /\ UNCHANGED <<rto, ndr, att, owed>>
  BY DEF Dispatch, ListDeliveryRunShipmentIDs
<1>t. /\ ship \in [Shipments -> Row] /\ run[r].agent \in Users \cup {Nil}
  BY DEF TypeOK, RunRow
<1>2. ASSUME NEW s \in Shipments, stop[r][s] = "PENDING"
      PROVE  /\ Out(s) \in Row /\ Out(s).status = "OUT_FOR_DELIVERY"
             /\ Out(s).user = run[r].agent
             /\ Find(ship[s].status, "OUT_FOR_DELIVERY") /\ Route[s].destBranch # Nil
  <2> DEFINE m == Moved(ship[s], q)
  <2>1. Asks(q, "OUT_FOR_DELIVERY") BY AskLemma DEF OutForDelivery
  <2>2. CanApply(s, ship[s], q) BY <1>1, <1>2
  <2>3. Find(ship[s].status, "OUT_FOR_DELIVERY") BY <2>1, <2>2, ApplyLemma
  <2>4. <<ship[s].status, "OUT_FOR_DELIVERY">> \in CustodyDestinationBranch
    BY <2>3, TableLemma DEF CustodyDestinationBranch
  <2>5. q.to = "OUT_FOR_DELIVERY" /\ ~q.override /\ ~q.system
    BY DEF OutForDelivery, Request
  <2>6. Route[s].destBranch # Nil BY <2>2, <2>4, <2>5 DEF CanApply, checkCustody
  <2> HIDE DEF q
  <2>7. "OUT_FOR_DELIVERY" \in Statuses BY DEF Statuses
  <2>8. Onward(m, ship[s], "OUT_FOR_DELIVERY") BY <1>t, <2>1, <2>7, MovedLemma
  <2> HIDE DEF m
  <2>9. /\ [m EXCEPT !.user = run[r].agent] \in Row
        /\ [m EXCEPT !.user = run[r].agent].status = "OUT_FOR_DELIVERY"
        /\ [m EXCEPT !.user = run[r].agent].user = run[r].agent
    BY <1>t, <2>8 DEF Onward, Row
  <2>10. QED BY <2>3, <2>6, <2>9 DEF m
<1> HIDE DEF Out, q
<1>3. ASSUME NEW s \in Shipments
      PROVE  /\ Fate(s)
             /\ IF stop[r][s] = "PENDING" THEN ship'[s].user = run[r].agent
                                          ELSE ship'[s] = ship[s]
  <2>1. CASE stop[r][s] = "PENDING"
    <3>1. ship'[s] = Out(s) BY <1>1, <2>1
    <3>2. QED BY <1>1, <1>2, <2>1, <3>1 DEF Fate, Sent, OwedSame
  <2>2. CASE stop[r][s] # "PENDING"
    <3>1. ship'[s] = ship[s] BY <1>1, <2>2
    <3>2. QED BY <1>1, <2>2, <3>1 DEF Fate, Still, Advanced, OwedSame
  <2>3. QED BY <2>1, <2>2
<1>4. ParcelTypes'
  <2>1. ship' \in [Shipments -> Row] BY <1>t, <1>1, <1>2
  <2>2. QED BY <1>1, <2>1 DEF ParcelTypes, TypeOK, Counted
<1>5. QED BY <1>3, <1>4 DEF Whole

\* Every step.
LEMMA EveryFate ==
    ASSUME TypeOK, Counted, Explained, [Next]_vars PROVE Whole
<1>1. CASE UNCHANGED vars BY <1>1, NothingMoves DEF vars, deliveryVars
<1>2. CASE RunNext
  <2>1. ASSUME NEW r \in Runs, Dispatch(r) PROVE Whole BY <2>1, DispatchFate
  <2>2. CASE UNCHANGED <<ship, rto, ndr, att, owed>> BY <2>2, NothingMoves
  <2>3. QED BY <1>2, <2>1, <2>2 DEF RunNext, CreateRun, AddStops, Assign
<1>3. CASE AttemptNext BY <1>3, AttemptFate DEF AttemptNext
<1>4. CASE OtpNext
  <2>1. UNCHANGED <<ship, rto, ndr, att, owed>>
    BY <1>4 DEF OtpNext, IssueOTP, OtpExpires, WrongCode
  <2>2. QED BY <2>1, NothingMoves
<1>5. CASE \E s \in Shipments, action \in NdrActions :
              SetAction(s, action) /\ UNCHANGED <<deliveryVars, podVars>>
  BY <1>5, ActionFate DEF deliveryVars
<1>6. CASE UNCHANGED <<ship, rto, ndr, deliveryVars>> BY <1>6, NothingMoves DEF deliveryVars
<1>7. CASE RtoNext /\ UNCHANGED <<ndr, deliveryVars, podVars>>
  BY <1>7, ReturnFate DEF deliveryVars
<1>8. CASE \E s \in Shipments : Scan(s) /\ UNCHANGED <<rto, ndr, deliveryVars, podVars>>
  BY <1>8, ScanFate DEF deliveryVars
<1>9. QED BY <1>1, <1>2, <1>3, <1>4, <1>5, <1>6, <1>7, <1>8 DEF Next

-----------------------------------------------------------------------------
(***************************************************************************)
(* What every fate preserves.                                              *)
(***************************************************************************)

\* A returning or delivered parcel is not placed, sent out or sent back again.
LEMMA Onwards ==
    ASSUME NEW s \in Shipments, Fate(s)
    PROVE  /\ ship[s].status \in Returning =>
                 Still(s) \/ Returned(s) \/ (Handed(s) /\ ship'[s].status = "RTO_DELIVERED")
           /\ ship[s].status \in {"DELIVERED", "RTO_DELIVERED"} => Still(s)
<1>1. Placed(s) => ship[s].status \notin Returning \cup {"DELIVERED"}
  BY TableLemma DEF Placed
<1>2. Sent(s) \/ Missed(s) \/ SentBack(s) => ship[s].status \notin Returning \cup {"DELIVERED"}
  BY TableLemma DEF Sent, Missed, SentBack, Returning
<1>3. Returned(s) => ship[s].status \notin {"DELIVERED", "RTO_DELIVERED"}
  BY TableLemma DEF Returned
<1>4. Handed(s) => /\ ship[s].status \notin {"DELIVERED", "RTO_DELIVERED"}
                   /\ ship[s].status \in Returning => ship'[s].status = "RTO_DELIVERED"
  BY TableLemma DEF Handed, Returning
<1>5. QED BY <1>1, <1>2, <1>3, <1>4 DEF Fate, Returning

LEMMA ExplainedStep ==
    ASSUME Explained, \A s \in Shipments : Fate(s) PROVE Explained'
<1> SUFFICES ASSUME NEW s \in Shipments
             PROVE  /\ rto'[s] \in ActiveCases => ship'[s].status \in Returning
                    /\ ship'[s].status = "OUT_FOR_DELIVERY" => Route[s].destBranch # Nil
  BY DEF Explained
<1>1. /\ rto[s] \in ActiveCases => ship[s].status \in Returning
      /\ ship[s].status = "OUT_FOR_DELIVERY" => Route[s].destBranch # Nil
  BY DEF Explained
<1>2. CASE ship[s].status \in Returning
  BY <1>1, <1>2, Onwards DEF Still, Returned, Handed, Returning
<1>3. CASE ship[s].status \notin Returning
  <2>1. rto[s] \notin ActiveCases BY <1>1, <1>3
  <2>2. Still(s) \/ Placed(s) \/ Sent(s) \/ Missed(s) \/ SentBack(s) \/ Handed(s)
    BY <2>1 DEF Fate, Returned
  <2>3. QED
    BY <1>1, <2>1, <2>2 DEF Still, Placed, Sent, Missed, SentBack, Handed, Floor, Returning
<1>4. QED BY <1>2, <1>3

LEMMA OwnedStep ==
    ASSUME Explained, UndeliveredOwned, \A s \in Shipments : Fate(s) PROVE UndeliveredOwned'
<1> SUFFICES ASSUME NEW s \in Shipments
             PROVE  /\ ship'[s].status # "DELIVERY_FAILED"
                    /\ ship'[s].status = "NDR" => ndr'[s].status \in openStatuses
                    /\ ndr'[s].status = "RESOLVED_RTO" =>
                          rto'[s] # "NONE" /\ ship'[s].status \in Returning
  BY DEF UndeliveredOwned, FailureOwned, ReturnUnderWay, GetActiveNDRCase, Returning
<1>1. /\ rto[s] \in ActiveCases => ship[s].status \in Returning
      /\ ship[s].status # "DELIVERY_FAILED"
      /\ ship[s].status = "NDR" => ndr[s].status \in openStatuses
      /\ ndr[s].status = "RESOLVED_RTO" => rto[s] # "NONE" /\ ship[s].status \in Returning
  BY DEF Explained, UndeliveredOwned, FailureOwned, ReturnUnderWay, GetActiveNDRCase, Returning
<1>2. "RESOLVED_RTO" \notin openStatuses /\ "NONE" \notin ActiveCases
  BY DEF openStatuses, ActiveCases
<1>3. Fate(s) OBVIOUS
<1>4. CASE Still(s) BY <1>1, <1>2, <1>4 DEF Still, Advanced, Returning
<1>5. CASE Placed(s)
  <2>1. ndr[s].status # "RESOLVED_RTO" BY <1>1, <1>5, TableLemma DEF Placed
  <2>2. ndr'[s].status # "RESOLVED_RTO" BY <1>2, <1>5, <2>1 DEF Placed, Advanced
  <2>3. ship'[s].status \notin {"NDR", "DELIVERY_FAILED"} BY <1>5 DEF Placed, Floor
  <2>4. QED BY <2>2, <2>3
<1>6. CASE Sent(s)
  <2>1. ndr[s].status # "RESOLVED_RTO" BY <1>1, <1>6, TableLemma DEF Sent, Returning
  <2>2. QED BY <1>6, <2>1 DEF Sent
<1>7. CASE Missed(s) BY <1>2, <1>7 DEF Missed
<1>8. CASE SentBack(s) BY <1>8 DEF SentBack, Returning
<1>9. CASE Returned(s) BY <1>9 DEF Returned, Returning
<1>10. CASE Handed(s)
  <2>1. ndr'[s].status = "RESOLVED_RTO" => rto'[s] # "NONE" /\ ship[s].status \in Returning
    BY <1>1, <1>10 DEF Handed
  <2>2. ship[s].status \in Returning => ship'[s].status \in Returning
    BY <1>10, TableLemma DEF Handed, Returning
  <2>3. QED BY <1>10, <2>1, <2>2 DEF Handed
<1>11. QED BY <1>3, <1>4, <1>5, <1>6, <1>7, <1>8, <1>9, <1>10 DEF Fate

LEMMA CashStep ==
    ASSUME DeliveryIsOwed, ParcelTypes', \A s \in Shipments : Fate(s) PROVE DeliveryIsOwed'
<1> DEFINE Settled(s) ==
               /\ s \in owed => s \in CodParcels /\ att[s].success /\ att[s].cash = 1
               /\ s \in CodParcels =>
                     /\ s \in owed <=> ship[s].status = "DELIVERED"
                     /\ att[s].success => s \in owed \/ ship[s].status = "RTO_DELIVERED"
<1> SUFFICES ASSUME NEW s \in Shipments PROVE Settled(s)'
  BY DeliveryAssumption DEF DeliveryIsOwed, ParcelTypes
<1>1. Settled(s) BY DeliveryAssumption DEF DeliveryIsOwed
<1>2. CASE Still(s) BY <1>1, <1>2 DEF Still, OwedSame
<1>3. CASE ~Still(s)
  <2>1. ship[s].status \notin {"DELIVERED", "RTO_DELIVERED"} BY <1>3, Onwards
  <2>2. s \notin owed /\ (s \in CodParcels => ~att[s].success) BY <1>1, <2>1
  <2>3. CASE Handed(s) BY <2>2, <2>3 DEF Handed
  <2>4. CASE Placed(s) \/ Sent(s) \/ Missed(s) \/ SentBack(s) \/ Returned(s)
    <3>1. OwedSame(s) /\ att'[s].success = att[s].success
      BY <2>4 DEF Placed, Sent, Missed, SentBack, Returned, Kept
    <3>2. ship'[s].status # "DELIVERED"
      BY <2>4 DEF Placed, Sent, Missed, SentBack, Returned, Floor
    <3>3. QED BY <2>2, <3>1, <3>2 DEF OwedSame
  <2>5. QED BY <1>3, <2>3, <2>4 DEF Fate
<1>4. QED BY <1>2, <1>3

\* A proof is written from the parcel's row and attempts; afterwards the parcel
\* has come to rest, and neither changes.
LEMMA ProofStep ==
    ASSUME TypeOK, ProofOfFact, \A s \in Shipments : Fate(s), [Next]_vars PROVE ProofOfFact'
<1> DEFINE End(p) == IF p.type = "RTO_RETURN" THEN "RTO_DELIVERED" ELSE "DELIVERED"
<1>1. CASE UNCHANGED pod
  <2> SUFFICES ASSUME NEW s \in Shipments, NEW p \in pod[s]
               PROVE  ship'[s].status = End(p) /\ (p.verified => att'[s].verified)
    BY <1>1 DEF ProofOfFact
  <2>1. ship[s].status = End(p) /\ (p.verified => att[s].verified) BY DEF ProofOfFact
  <2>2. Still(s) BY <2>1, Onwards
  <2>3. QED BY <2>1, <2>2 DEF Still
<1>2. ASSUME NEW c \in Submitters, FinishSubmit(c), pod' # pod,
             UNCHANGED <<ship, rto, ndr, deliveryVars>>
      PROVE  ProofOfFact'
  <2> DEFINE s0 == submit[c].parcel
             t0 == submit[c].type
             p0 == CreateProofOfDelivery(t0, otpWasVerified(s0))
  <2>1. /\ checkDeliverableState(s0, t0) /\ pod' = [pod EXCEPT ![s0] = @ \cup {p0}]
        /\ ship' = ship /\ att' = att
    BY <1>2 DEF FinishSubmit, deliveryVars
  <2>2. ship[s0].status = End(p0) /\ (p0.verified => att[s0].verified)
    BY <2>1 DEF checkDeliverableState, CreateProofOfDelivery, otpWasVerified
  <2> HIDE DEF s0, p0
  <2>3. \A s \in Shipments : pod'[s] \subseteq IF s = s0 THEN pod[s] \cup {p0} ELSE pod[s]
    BY <2>1 DEF TypeOK
  <2>4. ASSUME NEW s \in Shipments, NEW p \in pod'[s]
        PROVE  ship'[s].status = End(p) /\ (p.verified => att'[s].verified)
    BY <2>1, <2>2, <2>3 DEF ProofOfFact
  <2>5. QED BY <2>4 DEF ProofOfFact
<1>3. QED BY <1>1, <1>2 DEF Next, PodNext, StartSubmit, vars, podVars

-----------------------------------------------------------------------------
(***************************************************************************)
(* Runs, stops, codes and proofs keep their types.                         *)
(***************************************************************************)
OtherTypes ==
    /\ run \in [Runs -> RunRow] /\ stop \in [Runs -> [Shipments -> StopStatuses]]
    /\ otp \in [Shipments -> OtpRow] /\ guesses \in [Shipments -> 0 .. MaxGuesses]
    /\ submit \in [Submitters -> Submission \cup {Nil}]
    /\ pod \in [Shipments -> SUBSET ProofRow]

\* A run's row with another status, and perhaps another agent.
LEMMA RunRowLemma ==
    ASSUME NEW row \in RunRow, NEW from, NEW to \in RunStatuses, NEW u \in Users \cup {Nil}
    PROVE  /\ UpdateDeliveryRunStatus(row, from, to) \in RunRow
           /\ UpdateDeliveryRunStatus(row, from, to).agent = row.agent
           /\ [UpdateDeliveryRunStatus(row, from, to) EXCEPT !.agent = u] \in RunRow
  BY DEF UpdateDeliveryRunStatus, RunRow

LEMMA RunTypes ==
    ASSUME TypeOK, RunNext PROVE run' \in [Runs -> RunRow] /\ UNCHANGED <<otp, guesses>>
<1>t. run \in [Runs -> RunRow] BY DEF TypeOK
<1>s. {"PLANNED", "ASSIGNED", "DISPATCHED"} \subseteq RunStatuses BY DEF RunStatuses
<1>1. ASSUME NEW r \in Runs, NEW branch \in RunBranches, NEW agent \in Users,
             NEW S \in SUBSET Shipments, CreateRun(r, branch, agent, S)
      PROVE  run' \in [Runs -> RunRow] /\ UNCHANGED <<otp, guesses>>
  <2>1. CreateDeliveryRun(branch, agent) \in RunRow
    BY <1>s, DeliveryAssumption DEF CreateDeliveryRun, RunRow, Leg
  <2>2. QED BY <1>t, <1>1, <2>1 DEF CreateRun
<1>2. ASSUME NEW r \in Runs, NEW agent \in Users, Assign(r, agent)
      PROVE  run' \in [Runs -> RunRow] /\ UNCHANGED <<otp, guesses>>
  <2> DEFINE row == [UpdateDeliveryRunStatus(run[r], run[r].status, "ASSIGNED")
                        EXCEPT !.agent = agent]
  <2>1. run' = [run EXCEPT ![r] = row] /\ UNCHANGED <<otp, guesses>> BY <1>2 DEF Assign
  <2>2. row \in RunRow BY <1>t, <1>s, RunRowLemma
  <2> HIDE DEF row
  <2>3. QED BY <1>t, <2>1, <2>2
<1>3. ASSUME NEW r \in Runs, Dispatch(r)
      PROVE  run' \in [Runs -> RunRow] /\ UNCHANGED <<otp, guesses>>
  <2> DEFINE row == UpdateDeliveryRunStatus(run[r], run[r].status, "DISPATCHED")
  <2>1. run' = [run EXCEPT ![r] = row] /\ UNCHANGED <<otp, guesses>> BY <1>3 DEF Dispatch
  <2>2. row \in RunRow BY <1>t, <1>s, RunRowLemma
  <2> HIDE DEF row
  <2>3. QED BY <1>t, <2>1, <2>2
<1>4. ASSUME NEW r \in Runs, NEW s \in Shipments, AddStops(r, s)
      PROVE  run' \in [Runs -> RunRow] /\ UNCHANGED <<otp, guesses>>
  BY <1>t, <1>4 DEF AddStops
<1>5. QED BY <1>1, <1>2, <1>3, <1>4 DEF RunNext

\* The stops of a run after some of them took a status.
LEMMA StopLemma ==
    ASSUME TypeOK, NEW r \in Runs, NEW S, NEW to \in StopStatuses,
           stop' = UpdateDeliveryRunItemStatus(r, S, to)
    PROVE  /\ stop' \in [Runs -> [Shipments -> StopStatuses]]
           /\ \A k \in Runs, s \in Shipments :
                 stop'[k][s] = IF k = r /\ s \in S THEN to ELSE stop[k][s]
<1> DEFINE row == [s \in Shipments |-> IF s \in S THEN to ELSE stop[r][s]]
<1>t. stop \in [Runs -> [Shipments -> StopStatuses]] BY DEF TypeOK
<1>1. row \in [Shipments -> StopStatuses] BY <1>t
<1>2. stop' = [stop EXCEPT ![r] = row] BY DEF UpdateDeliveryRunItemStatus
<1>3. \A s \in Shipments : row[s] = IF s \in S THEN to ELSE stop[r][s] OBVIOUS
<1> HIDE DEF row
<1>4. QED BY <1>t, <1>1, <1>2, <1>3

\* An attempt closes the stops it belongs to, of its parcel only.
LEMMA CloseLemma ==
    ASSUME TypeOK, NEW s \in Shipments, NEW items, NEW o \in Outcomes,
           closeRunItem(s, items, o)
    PROVE  /\ stop' \in [Runs -> [Shipments -> StopStatuses]] /\ run' \in [Runs -> RunRow]
           /\ \A k \in Runs, t \in Shipments :
                 stop'[k][t] = IF k \in items /\ t = s THEN itemStatus[o] ELSE stop[k][t]
           /\ \A k \in Runs :
                 /\ run'[k].agent = run[k].agent
                 /\ run[k].status \in {"DISPATCHED", "IN_PROGRESS"} =>
                       run'[k].status \in {"DISPATCHED", "IN_PROGRESS"}
<1>t. stop \in [Runs -> [Shipments -> StopStatuses]] /\ run \in [Runs -> RunRow]
  BY DEF TypeOK
<1>1. itemStatus[o] \in StopStatuses BY ItemLemma DEF StopStatuses
<1> DEFINE i == itemStatus[o]
           row(k) == IF k \in items THEN [stop[k] EXCEPT ![s] = i] ELSE stop[k]
           line(k) == IF k \in items
                      THEN UpdateDeliveryRunStatus(run[k], "DISPATCHED", "IN_PROGRESS")
                      ELSE run[k]
<1>2. stop' = [k \in Runs |-> row(k)] /\ run' = [k \in Runs |-> line(k)]
  BY DEF closeRunItem
<1> HIDE DEF i
<1>3. ASSUME NEW k \in Runs
      PROVE  /\ row(k) \in [Shipments -> StopStatuses]
             /\ \A t \in Shipments : row(k)[t] = IF k \in items /\ t = s THEN i ELSE stop[k][t]
  BY <1>t, <1>1 DEF i
<1>4. ASSUME NEW k \in Runs
      PROVE  /\ line(k) \in RunRow /\ line(k).agent = run[k].agent
             /\ run[k].status \in {"DISPATCHED", "IN_PROGRESS"} =>
                   line(k).status \in {"DISPATCHED", "IN_PROGRESS"}
  BY <1>t DEF UpdateDeliveryRunStatus, RunRow, RunStatuses
<1> HIDE DEF row, line
<1>5. QED BY <1>2, <1>3, <1>4 DEF i

LEMMA OtherStep == ASSUME TypeOK, [Next]_vars PROVE OtherTypes'
<1>t. OtherTypes BY DEF TypeOK, OtherTypes
<1>u. {"PENDING", "OUT_FOR_DELIVERY"} \subseteq StopStatuses BY DEF StopStatuses
<1>1. CASE UNCHANGED vars BY <1>t, <1>1 DEF OtherTypes, vars, deliveryVars, podVars
<1>2. CASE RunNext /\ UNCHANGED podVars
  <2>1. stop' = stop \/ \E r \in Runs, S \in SUBSET Shipments,
                           to \in {"PENDING", "OUT_FOR_DELIVERY"} :
                          stop' = UpdateDeliveryRunItemStatus(r, S, to)
    BY <1>2 DEF RunNext, CreateRun, AddStops, Assign, Dispatch, AddDeliveryRunItem,
                ListDeliveryRunShipmentIDs
  <2>2. stop' \in [Runs -> [Shipments -> StopStatuses]]
    BY <1>t, <1>u, <2>1, StopLemma DEF OtherTypes
  <2>3. QED BY <1>t, <1>2, <2>2, RunTypes DEF OtherTypes, podVars
<1>3. CASE AttemptNext /\ UNCHANGED podVars
  <2>1. PICK s \in Shipments, by \in Users, at \in Leg, named \in Runs \cup {Nil},
             in \in AttemptInput : RecordAttempt(s, by, at, named, in)
    BY <1>3 DEF AttemptNext
  <2>2. in.outcome \in Outcomes BY InputLemma
  <2>3. closeRunItem(s, findRunItem(s, named), in.outcome) BY <2>1 DEF RecordAttempt
  <2>4. stop' \in [Runs -> [Shipments -> StopStatuses]] /\ run' \in [Runs -> RunRow]
    BY <2>2, <2>3, CloseLemma
  <2>5. NoOtp \in OtpRow BY DeliveryAssumption DEF NoOtp, OtpRow
  <2>6. otp' = otp \/ otp' = [otp EXCEPT ![s] = NoOtp]
    BY <2>1 DEF RecordAttempt, ConsumeDeliveryOTP
  <2>7. otp' \in [Shipments -> OtpRow] BY <1>t, <2>5, <2>6 DEF OtherTypes
  <2>8. PICK g \in {guesses[s], 0} : guesses' = [guesses EXCEPT ![s] = g]
    BY <2>1 DEF RecordAttempt
  <2>9. g \in 0 .. MaxGuesses BY <1>t, DeliveryAssumption DEF OtherTypes
  <2>10. guesses' \in [Shipments -> 0 .. MaxGuesses] BY <1>t, <2>8, <2>9 DEF OtherTypes
  <2>11. QED BY <1>t, <1>3, <2>4, <2>7, <2>10 DEF OtherTypes, podVars
<1>4. CASE OtpNext /\ UNCHANGED podVars
  <2>1. PICK s \in Shipments : IssueOTP(s) \/ OtpExpires(s) \/ \E by \in Users : WrongCode(s, by)
    BY <1>4 DEF OtpNext
  <2>2. CreateDeliveryOTP \in OtpRow /\ [otp[s] EXCEPT !.expired = TRUE] \in OtpRow
    <3>1. CreateDeliveryOTP \in OtpRow BY DeliveryAssumption DEF CreateDeliveryOTP, OtpRow
    <3>2. otp[s] \in OtpRow BY <1>t DEF OtherTypes
    <3>3. [otp[s] EXCEPT !.expired = TRUE] \in OtpRow BY <3>2 DEF OtpRow
    <3>4. QED BY <3>1, <3>3
  <2>3. \/ otp' = otp \/ otp' = [otp EXCEPT ![s] = CreateDeliveryOTP]
        \/ otp' = [otp EXCEPT ![s] = [otp[s] EXCEPT !.expired = TRUE]]
    BY <2>1 DEF IssueOTP, OtpExpires, WrongCode
  <2>4. otp' \in [Shipments -> OtpRow] BY <1>t, <2>2, <2>3 DEF OtherTypes
  <2>5. \/ guesses' = guesses \/ guesses' = [guesses EXCEPT ![s] = 0]
        \/ guesses[s] < MaxGuesses /\ guesses' = [guesses EXCEPT ![s] = guesses[s] + 1]
    BY <2>1 DEF IssueOTP, OtpExpires, WrongCode
  <2>6. guesses' \in [Shipments -> 0 .. MaxGuesses]
    BY <1>t, <2>5, DeliveryAssumption DEF OtherTypes
  <2>7. run' = run /\ stop' = stop BY <2>1 DEF IssueOTP, OtpExpires, WrongCode
  <2>8. QED BY <1>t, <1>4, <2>4, <2>6, <2>7 DEF OtherTypes, podVars
<1>5. CASE PodNext /\ UNCHANGED <<ship, rto, ndr, deliveryVars>>
  <2>1. ASSUME NEW c \in Submitters, NEW s \in Shipments, NEW t \in PodTypes,
               StartSubmit(c, s, t)
        PROVE  OtherTypes'
    <3>1. CreateStoredObject(s, t) \in Submission BY DEF CreateStoredObject, Submission
    <3>2. QED BY <1>t, <1>5, <2>1, <3>1 DEF StartSubmit, OtherTypes, deliveryVars
  <2>2. ASSUME NEW c \in Submitters, FinishSubmit(c) PROVE OtherTypes'
    <3> DEFINE s == submit[c].parcel
               p == CreateProofOfDelivery(submit[c].type, otpWasVerified(s))
    <3>1. submit[c] \in Submission BY <1>t, <2>2 DEF OtherTypes, FinishSubmit
    <3>2. s \in Shipments /\ p \in ProofRow
      BY <3>1 DEF Submission, CreateProofOfDelivery, ProofRow, otpWasVerified
    <3>3. submit' = [submit EXCEPT ![c] = Nil] BY <2>2 DEF FinishSubmit
    <3>4. pod' = pod \/ pod' = [pod EXCEPT ![s] = @ \cup {p}] BY <2>2 DEF FinishSubmit
    <3> HIDE DEF s, p
    <3>5. submit' \in [Submitters -> Submission \cup {Nil}] BY <1>t, <3>3 DEF OtherTypes
    <3>6. pod' \in [Shipments -> SUBSET ProofRow] BY <1>t, <3>2, <3>4 DEF OtherTypes
    <3>7. QED BY <1>t, <1>5, <3>5, <3>6 DEF OtherTypes, deliveryVars
  <2>3. QED BY <1>5, <2>1, <2>2 DEF PodNext
<1>6. CASE UNCHANGED <<deliveryVars, podVars>>
  BY <1>t, <1>6 DEF OtherTypes, deliveryVars, podVars
<1>7. QED BY <1>1, <1>2, <1>3, <1>4, <1>5, <1>6 DEF Next

-----------------------------------------------------------------------------
(***************************************************************************)
(* Runs, stops and parcels in step.  That one run has a parcel is stated   *)
(* without counting: two runs that have it are the same.                   *)
(***************************************************************************)
Has(r, s) == stop[r][s] \in {"PENDING", "OUT_FOR_DELIVERY"}

OneRun == \A s \in Shipments : \A r, k \in Runs : Has(r, s) /\ Has(k, s) => r = k

\* The run that has left brings s with its agent.
Brings(r, s) ==
    /\ stop[r][s] = "OUT_FOR_DELIVERY" /\ run[r].status \in {"DISPATCHED", "IN_PROGRESS"}
    /\ run[r].agent = ship[s].user

Brought == \A s \in Shipments : ship[s].status = "OUT_FOR_DELIVERY" => \E r \in Runs : Brings(r, s)

\* A step that touches no run, and sends no parcel out.
LEMMA RunsUntouched ==
    ASSUME OneRun, Brought, UNCHANGED <<run, stop>>, \A s \in Shipments : StaysOut(s)
    PROVE  OneRun' /\ Brought'
<1>1. OneRun' BY DEF OneRun, Has
<1>2. ASSUME NEW s \in Shipments, ship'[s].status = "OUT_FOR_DELIVERY"
      PROVE  \E r \in Runs : Brings(r, s)'
  <2>1. ship[s].status = "OUT_FOR_DELIVERY" /\ ship'[s].user = ship[s].user
    BY <1>2 DEF StaysOut
  <2>2. PICK r \in Runs : Brings(r, s) BY <2>1 DEF Brought
  <2>3. QED BY <2>1, <2>2 DEF Brings
<1>3. QED BY <1>1, <1>2 DEF Brought

\* Stops of parcels no run has are added to a run that has not left.
LEMMA StopsAdded ==
    ASSUME TypeOK, OneRun, Brought, NEW r \in Runs, NEW S \in SUBSET Shipments,
           stop' = AddDeliveryRunItem(r, S), ship' = ship,
           \A s \in S : GetActiveDeliveryRunItem(s) = {},
           run[r].status \notin {"DISPATCHED", "IN_PROGRESS"},
           \A k \in Runs \ {r} : run'[k] = run[k]
    PROVE  OneRun' /\ Brought'
<1>0. "PENDING" \in StopStatuses BY DEF StopStatuses
<1>1. \A k \in Runs, s \in Shipments :
          stop'[k][s] = IF k = r /\ s \in S THEN "PENDING" ELSE stop[k][s]
  BY <1>0, StopLemma DEF AddDeliveryRunItem
<1>2. \A s \in S, k \in Runs : ~Has(k, s) BY DEF GetActiveDeliveryRunItem, Has
<1>3. ASSUME NEW s \in Shipments, NEW k \in Runs, NEW j \in Runs, Has(k, s)', Has(j, s)'
      PROVE  k = j
  <2>1. CASE s \in S BY <1>1, <1>2, <1>3, <2>1 DEF Has
  <2>2. CASE s \notin S
    <3>1. Has(k, s) /\ Has(j, s) BY <1>1, <1>3, <2>2 DEF Has
    <3>2. QED BY <3>1 DEF OneRun
  <2>3. QED BY <2>1, <2>2
<1>4. ASSUME NEW s \in Shipments, ship'[s].status = "OUT_FOR_DELIVERY"
      PROVE  \E k \in Runs : Brings(k, s)'
  <2>1. PICK k \in Runs : Brings(k, s) BY <1>4 DEF Brought
  <2>2. k # r BY <2>1 DEF Brings
  <2>3. stop'[k][s] = stop[k][s] /\ run'[k] = run[k] BY <1>1, <2>2
  <2>4. QED BY <2>1, <2>3 DEF Brings
<1>5. OneRun' BY <1>3 DEF OneRun
<1>6. Brought' BY <1>4 DEF Brought
<1>7. QED BY <1>5, <1>6

LEMMA AssignStep ==
    ASSUME OneRun, Brought, NEW r \in Runs, NEW agent, Assign(r, agent), TypeOK
    PROVE  OneRun' /\ Brought'
<1>1. /\ run[r].status \in {"PLANNED", "ASSIGNED"} /\ ship' = ship /\ stop' = stop
      /\ \A k \in Runs \ {r} : run'[k] = run[k]
  BY DEF Assign, canTransition, TypeOK
<1>2. OneRun' BY <1>1 DEF OneRun, Has
<1>3. ASSUME NEW s \in Shipments, ship'[s].status = "OUT_FOR_DELIVERY"
      PROVE  \E k \in Runs : Brings(k, s)'
  <2>1. PICK k \in Runs : Brings(k, s) BY <1>1, <1>3 DEF Brought
  <2>2. k # r BY <1>1, <2>1 DEF Brings
  <2>3. QED BY <1>1, <2>1, <2>2 DEF Brings
<1>4. QED BY <1>2, <1>3 DEF Brought

\* The run that leaves takes its pending stops with it.
LEMMA DispatchStep ==
    ASSUME TypeOK, Counted, OneRun, Brought, NEW r \in Runs, Dispatch(r)
    PROVE  OneRun' /\ Brought'
<1> DEFINE S == ListDeliveryRunShipmentIDs(r)
<1>1. /\ run[r].status \in {"PLANNED", "ASSIGNED"}
      /\ stop' = UpdateDeliveryRunItemStatus(r, S, "OUT_FOR_DELIVERY")
      /\ run' = [run EXCEPT ![r] = UpdateDeliveryRunStatus(@, @.status, "DISPATCHED")]
  BY DEF Dispatch, canTransition
<1>2. run[r] \in RunRow /\ run \in [Runs -> RunRow] BY DEF TypeOK
<1>3. /\ run'[r].status = "DISPATCHED" /\ run'[r].agent = run[r].agent
      /\ \A k \in Runs \ {r} : run'[k] = run[k]
  BY <1>1, <1>2 DEF UpdateDeliveryRunStatus, RunRow
<1>4. \A s : s \in S <=> s \in Shipments /\ stop[r][s] = "PENDING"
  BY DEF ListDeliveryRunShipmentIDs
<1>5. "OUT_FOR_DELIVERY" \in StopStatuses BY DEF StopStatuses
<1> HIDE DEF S
<1>6. \A k \in Runs, s \in Shipments :
          stop'[k][s] = IF k = r /\ s \in S THEN "OUT_FOR_DELIVERY" ELSE stop[k][s]
  BY <1>1, <1>5, StopLemma
<1>7. \A s \in Shipments : IF stop[r][s] = "PENDING" THEN ship'[s].user = run[r].agent
                                                      ELSE ship'[s] = ship[s]
  BY DispatchFate
<1>8. \A s \in Shipments, k \in Runs : Has(k, s)' => Has(k, s) BY <1>4, <1>6 DEF Has
<1>9. OneRun' BY <1>8 DEF OneRun
<1>10. ASSUME NEW s \in Shipments, ship'[s].status = "OUT_FOR_DELIVERY"
       PROVE  \E k \in Runs : Brings(k, s)'
  <2>1. CASE stop[r][s] = "PENDING"
    <3>1. stop'[r][s] = "OUT_FOR_DELIVERY" /\ ship'[s].user = run[r].agent
      BY <1>4, <1>6, <1>7, <2>1
    <3>2. Brings(r, s)' BY <1>3, <3>1 DEF Brings
    <3>3. QED BY <3>2
  <2>2. CASE stop[r][s] # "PENDING"
    <3>1. ship'[s] = ship[s] BY <1>7, <2>2
    <3>2. PICK k \in Runs : Brings(k, s) BY <1>10, <3>1 DEF Brought
    <3>3. k # r BY <1>1, <3>2 DEF Brings
    <3>4. stop'[k][s] = stop[k][s] /\ run'[k] = run[k] BY <1>3, <1>6, <3>3
    <3>5. Brings(k, s)' BY <3>1, <3>2, <3>4 DEF Brings
    <3>6. QED BY <3>5
  <2>3. QED BY <2>1, <2>2
<1>11. QED BY <1>9, <1>10 DEF Brought

\* An attempt closes stops of a parcel that is no longer out.
LEMMA AttemptStep ==
    ASSUME TypeOK, Counted, Explained, OneRun, Brought, AttemptNext
    PROVE  OneRun' /\ Brought'
<1>1. PICK s \in Shipments, by \in Users, at \in Leg, named \in Runs \cup {Nil},
           in \in AttemptInput : RecordAttempt(s, by, at, named, in)
  BY DEF AttemptNext
<1>2. /\ \A t \in Shipments : StaysOut(t)
      /\ ship'[s].status # "OUT_FOR_DELIVERY"
  BY <1>1, AttemptFate
<1>3. in.outcome \in Outcomes BY InputLemma
<1> DEFINE o == in.outcome
           items == findRunItem(s, named)
<1>4. closeRunItem(s, items, o) BY <1>1 DEF RecordAttempt
<1>5. itemStatus[o] \notin {"PENDING", "OUT_FOR_DELIVERY"} BY <1>3, ItemLemma
<1> HIDE DEF o, items
<1>6. /\ \A k \in Runs, t \in Shipments :
            stop'[k][t] = IF k \in items /\ t = s THEN itemStatus[o] ELSE stop[k][t]
      /\ \A k \in Runs :
            /\ run'[k].agent = run[k].agent
            /\ run[k].status \in {"DISPATCHED", "IN_PROGRESS"} =>
                  run'[k].status \in {"DISPATCHED", "IN_PROGRESS"}
  <2>1. o \in Outcomes BY <1>3 DEF o
  <2>2. QED BY <1>4, <2>1, CloseLemma
<1>7. \A t \in Shipments, k \in Runs : Has(k, t)' => Has(k, t) BY <1>5, <1>6 DEF Has
<1>8. OneRun' BY <1>7 DEF OneRun
<1>9. ASSUME NEW t \in Shipments, ship'[t].status = "OUT_FOR_DELIVERY"
      PROVE  \E k \in Runs : Brings(k, t)'
  <2>1. t # s /\ ship[t].status = "OUT_FOR_DELIVERY" /\ ship'[t].user = ship[t].user
    BY <1>2, <1>9 DEF StaysOut
  <2>2. PICK k \in Runs : Brings(k, t) BY <2>1 DEF Brought
  <2>3. stop'[k][t] = stop[k][t] BY <1>6, <2>1
  <2>4. Brings(k, t)' BY <1>6, <2>1, <2>2, <2>3 DEF Brings
  <2>5. QED BY <2>4
<1>10. QED BY <1>8, <1>9 DEF Brought

LEMMA RunsStep ==
    ASSUME TypeOK, Counted, Explained, OneRun, Brought, [Next]_vars
    PROVE  OneRun' /\ Brought'
<1>1. CASE UNCHANGED <<ship, rto, ndr, run, stop, att, owed>>
  BY <1>1, NothingMoves, RunsUntouched
<1>2. CASE RunNext
  <2>1. ASSUME NEW r \in Runs, NEW branch, NEW agent, NEW S \in SUBSET Shipments,
               CreateRun(r, branch, agent, S)
        PROVE  OneRun' /\ Brought'
    <3>1. /\ run[r].status = "NONE" /\ stop' = AddDeliveryRunItem(r, S) /\ ship' = ship
          /\ \A s \in S : GetActiveDeliveryRunItem(s) = {}
          /\ \A k \in Runs \ {r} : run'[k] = run[k]
      BY <2>1 DEF CreateRun, addStop, TypeOK
    <3>2. QED BY <3>1, StopsAdded
  <2>2. ASSUME NEW r \in Runs, NEW s \in Shipments, AddStops(r, s) PROVE OneRun' /\ Brought'
    <3> DEFINE S == {s}
    <3>1. /\ run[r].status \in {"PLANNED", "ASSIGNED"} /\ stop' = AddDeliveryRunItem(r, S)
          /\ \A t \in S : GetActiveDeliveryRunItem(t) = {}
          /\ ship' = ship /\ S \in SUBSET Shipments /\ run' = run
      BY <2>2 DEF AddStops, addStop
    <3> HIDE DEF S
    <3>2. QED BY <3>1, StopsAdded
  <2>3. QED BY <1>2, <2>1, <2>2, AssignStep, DispatchStep DEF RunNext
<1>3. CASE AttemptNext BY <1>3, AttemptStep
<1>4. CASE OtpNext
  <2>1. UNCHANGED <<ship, rto, ndr, run, stop, att, owed>>
    BY <1>4 DEF OtpNext, IssueOTP, OtpExpires, WrongCode
  <2>2. QED BY <1>1, <2>1
<1>5. CASE \E s \in Shipments, action \in NdrActions :
              SetAction(s, action) /\ UNCHANGED <<deliveryVars, podVars>>
  BY <1>5, ActionFate, RunsUntouched DEF deliveryVars
<1>6. CASE RtoNext /\ UNCHANGED <<ndr, deliveryVars, podVars>>
  BY <1>6, ReturnFate, RunsUntouched DEF deliveryVars
<1>7. CASE \E s \in Shipments : Scan(s) /\ UNCHANGED <<rto, ndr, deliveryVars, podVars>>
  BY <1>7, ScanFate, RunsUntouched DEF deliveryVars
<1>8. QED BY <1>1, <1>2, <1>3, <1>4, <1>5, <1>6, <1>7 DEF Next, vars, deliveryVars

\* What the two say in the words of the specification.
LEMMA InStep == ASSUME OneRun, Brought PROVE RunsInStep
<1>1. OutWithItsAgent BY DEF Brought, Brings, OutWithItsAgent
<1>2. ASSUME NEW s \in Shipments PROVE Cardinality(GetActiveDeliveryRunItem(s)) <= 1
  <2> DEFINE G == GetActiveDeliveryRunItem(s)
  <2>1. \A r \in G, k \in G : r = k BY DEF GetActiveDeliveryRunItem, OneRun, Has
  <2> HIDE DEF G
  <2>2. CASE G = {} BY <2>2, FS_EmptySet DEF G
  <2>3. CASE G # {}
    <3>1. PICK r : r \in G BY <2>3
    <3>2. G = {r} BY <2>1, <3>1
    <3>3. Cardinality({r}) = 1 BY FS_Singleton
    <3>4. QED BY <3>2, <3>3 DEF G
  <2>4. QED BY <2>2, <2>3
<1>3. QED BY <1>1, <1>2 DEF RunsInStep, OneRunPerParcel

-----------------------------------------------------------------------------
(***************************************************************************)
(* The invariant.                                                          *)
(***************************************************************************)
LastMileInv ==
    /\ TypeOK /\ Counted /\ Explained
    /\ UndeliveredOwned /\ DeliveryIsOwed /\ ProofOfFact
    /\ OneRun /\ Brought

LEMMA InvInit == ASSUME Init PROVE LastMileInv
<1>1. TypeOK /\ Counted BY TypeInit
<1>2. \A s \in Shipments : /\ ship[s].status = "DESTINATION_BRANCH_RECEIVED" /\ rto[s] = "NONE"
                           /\ ndr[s].status = "NONE" /\ pod[s] = {} /\ s \notin owed
  BY DEF Init, Arrived, RtoInit, NdrInit, NoCase, PodInit, DeliveryInit
<1>3. \A r \in Runs, s \in Shipments : stop[r][s] = "NONE" BY DEF Init, DeliveryInit
<1>4. Explained BY <1>2 DEF Explained, ActiveCases
<1>5. UndeliveredOwned BY <1>2 DEF UndeliveredOwned, FailureOwned, ReturnUnderWay
<1>6. DeliveryIsOwed
  <2>1. owed = {} /\ \A s \in Shipments : ~att[s].success BY DEF Init, DeliveryInit
  <2>2. QED BY <1>2, <2>1, DeliveryAssumption DEF DeliveryIsOwed
<1>p. ProofOfFact BY <1>2 DEF ProofOfFact
<1>7. OneRun /\ Brought BY <1>2, <1>3 DEF OneRun, Has, Brought
<1>8. QED BY <1>1, <1>4, <1>5, <1>6, <1>p, <1>7 DEF LastMileInv

LEMMA InvStep == ASSUME LastMileInv, [Next]_vars PROVE LastMileInv'
<1>1. /\ TypeOK /\ Counted /\ Explained /\ UndeliveredOwned /\ DeliveryIsOwed /\ ProofOfFact
      /\ OneRun /\ Brought
  BY DEF LastMileInv
<1>2. Whole BY <1>1, EveryFate
<1>3. ParcelTypes' /\ \A s \in Shipments : Fate(s) BY <1>2 DEF Whole
<1>4. OtherTypes' BY <1>1, OtherStep
<1>5. TypeOK' /\ Counted' BY <1>3, <1>4 DEF ParcelTypes, OtherTypes, TypeOK
<1>6. Explained' BY <1>1, <1>3, ExplainedStep
<1>7. UndeliveredOwned' BY <1>1, <1>3, OwnedStep
<1>8. DeliveryIsOwed' BY <1>1, <1>3, CashStep
<1>9. ProofOfFact' BY <1>1, <1>3, ProofStep
<1>10. OneRun' /\ Brought' BY <1>1, RunsStep
<1>11. QED BY <1>5, <1>6, <1>7, <1>8, <1>9, <1>10 DEF LastMileInv

\* Every step of the last mile keeps the invariant.
THEOREM LastMileInvariant == Spec => []LastMileInv
<1>1. Init => LastMileInv BY InvInit
<1>2. LastMileInv /\ [Next]_vars => LastMileInv' BY InvStep
<1>3. QED BY <1>1, <1>2, PTL DEF Spec

\* Every column always holds a value of its type.
THEOREM TypeCorrect == Spec => []TypeOK
<1>1. LastMileInv => TypeOK BY DEF LastMileInv
<1>2. QED BY <1>1, LastMileInvariant, PTL

\* Runs, stops and parcels always agree on who is bringing what: a parcel out
\* for delivery is with the agent of the one run that has it, however runs are
\* planned, re-assigned and dispatched (delivery.go).
THEOREM RunsAgree == Spec => []RunsInStep
<1>1. LastMileInv => RunsInStep BY InStep DEF LastMileInv
<1>2. QED BY <1>1, LastMileInvariant, PTL

\* A parcel that was not delivered always has somebody who decides what happens
\* to it: an open case or a return under way (ndr.go, rto.go).
THEOREM UndeliveredHasOwner == Spec => []UndeliveredOwned
<1>1. LastMileInv => UndeliveredOwned BY DEF LastMileInv
<1>2. QED BY <1>1, LastMileInvariant, PTL

\* The cash obligations are always exactly those of the delivered parcels with
\* cash to collect, each taken in full; the only successful attempt without one
\* ends a return, whatever cash the other attempts report (attempt.go,
\* financeops.go).
THEOREM DeliveriesOwed == Spec => []DeliveryIsOwed
<1>1. LastMileInv => DeliveryIsOwed BY DEF LastMileInv
<1>2. QED BY <1>1, LastMileInvariant, PTL

\* A proof is always of a delivery or a return that happened, and claims a code
\* only when one was proved, although its files are stored in a step of their
\* own before the parcel is looked at (pod.go).
THEOREM ProofsOfFact == Spec => []ProofOfFact
<1>1. LastMileInv => ProofOfFact BY DEF LastMileInv
<1>2. QED BY <1>1, LastMileInvariant, PTL

=============================================================================
