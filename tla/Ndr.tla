-------------------------------- MODULE Ndr ---------------------------------
(***************************************************************************)
(* Non-delivery cases (internal/ndr).  A failed attempt opens or advances  *)
(* the parcel's case in the transaction that records the attempt; the      *)
(* reason's policy decides what happens next and, when it says so, starts  *)
(* the return in the same transaction.  Operators decide with SetAction.   *)
(*                                                                         *)
(* Left out: the catalogue's administration, corrected addresses, due      *)
(* dates and the log of instructions, which no step reads.  The statuses   *)
(* RESOLVED_DELIVERED, RESOLVED_CANCELLED and CLOSED are set by nothing.   *)
(***************************************************************************)
EXTENDS Rto

CONSTANTS
    Reasons,      \* the reason catalogue: what to do, how often to try, then what
    MaxAttempts   \* bound: attempts on one parcel

NdrActions == {"REATTEMPT", "RESCHEDULE", "CONTACT_REQUIRED", "ADDRESS_CORRECTION",
               "CUSTOMER_PICKUP", "RTO", "ESCALATE"}

\* default_action, max_attempts, auto_rto_after_max
Reason == [action : NdrActions, max : Nat \ {0}, auto : BOOLEAN]

ASSUME ReasonsAssumption == Reasons \subseteq Reason /\ MaxAttempts \in Nat

VARIABLE ndr      \* ndr[s]: the parcel's latest case

openStatuses == {"OPEN", "PENDING_CUSTOMER", "SCHEDULED", "ESCALATED"}

NdrRow == [status : openStatuses \cup {"NONE", "RESOLVED_RTO"},
           count : 0 .. MaxAttempts, max : Nat]

NoCase == [status |-> "NONE", count |-> 0, max |-> 0]

NdrInit == ndr = [s \in Shipments |-> NoCase]

GetActiveNDRCase(s) == ndr[s].status \in openStatuses

\* The column defaults: a new case is open and has no attempts.
CreateNDRCase(reason) == [status |-> "OPEN", count |-> 0, max |-> reason.max]

UpdateNDRCase(c, to, increment) == [c EXCEPT !.status = to, !.count = @ + increment]

-----------------------------------------------------------------------------
\* What the reason's policy asks for after an attempt.
nextAction(reason, exhausted) ==
    IF ~exhausted THEN reason.action ELSE IF reason.auto THEN "RTO" ELSE "ESCALATE"

\* A default of ESCALATE leaves the case open until the attempts are used up.
nextStatus(action, exhausted) ==
    CASE action \in {"REATTEMPT", "RESCHEDULE"} -> "SCHEDULED"
      [] action \in {"CONTACT_REQUIRED", "ADDRESS_CORRECTION", "CUSTOMER_PICKUP"} ->
            "PENDING_CUSTOMER"
      [] action = "ESCALATE" /\ exhausted -> "ESCALATED"
      [] OTHER -> "OPEN"

statusForAction(action) ==
    CASE action \in {"REATTEMPT", "RESCHEDULE"} -> "SCHEDULED"
      [] action \in {"CONTACT_REQUIRED", "ADDRESS_CORRECTION", "CUSTOMER_PICKUP"} ->
            "PENDING_CUSTOMER"
      [] action = "ESCALATE" -> "ESCALATED"
      [] OTHER -> "OPEN"

-----------------------------------------------------------------------------
(***************************************************************************)
(* A return started from a case: row r of s is locked by the caller.  A    *)
(* parcel that has an open return keeps it, and is not moved.              *)
(***************************************************************************)
RtoRequest(byPolicy) ==
    [Request("RTO_INITIATED", Nil) EXCEPT !.reason = TRUE, !.system = byPolicy]

initiate(s, r, byPolicy) ==
    IF rto[s] \in ActiveCases
    THEN /\ ship' = [ship EXCEPT ![s] = r]
         /\ UNCHANGED rto
    ELSE /\ resolveReversePath(s) # Nil
         /\ CanApply(s, r, RtoRequest(byPolicy))
         /\ ship' = [ship EXCEPT ![s] = Moved(r, RtoRequest(byPolicy))]
         /\ rto' = [rto EXCEPT ![s] = "INITIATED"]

\* Mutant: the parcel enters NDR but its case is left as it was.
OpenNothing(s, r, reason) ==
    /\ ship' = [ship EXCEPT ![s] = Moved(r, Request("NDR", Nil))]
    /\ UNCHANGED <<ndr, rto>>

\* Called by the attempt, with the row it has just moved to DELIVERY_FAILED.
OpenFromDeliveryFailure(s, r, reason) ==
    LET case      == IF GetActiveNDRCase(s) THEN ndr[s] ELSE CreateNDRCase(reason)
        exhausted == case.count + 1 >= case.max
        action    == nextAction(reason, exhausted)
        updated   == UpdateNDRCase(case, nextStatus(action, exhausted), 1)
        toNdr     == Request("NDR", Nil)
    IN  /\ CanApply(s, r, toNdr)
        /\ IF action = "RTO"
           THEN /\ initiate(s, Moved(r, toNdr), TRUE)
                /\ ndr' = [ndr EXCEPT ![s] = UpdateNDRCase(updated, "RESOLVED_RTO", 0)]
           ELSE /\ ship' = [ship EXCEPT ![s] = Moved(r, toNdr)]
                /\ ndr' = [ndr EXCEPT ![s] = updated]
                /\ UNCHANGED rto

\* SetAction: the parcel goes back on the shelf only where the table has the
\* edge; the actor names no facility, so an edge that needs one refuses it all.
SetAction(s, action) ==
    LET case == UpdateNDRCase(ndr[s], statusForAction(action), 0)
        back == Request("DESTINATION_BRANCH_RECEIVED", Nil)
    IN  /\ GetActiveNDRCase(s)
        /\ CASE action \in {"REATTEMPT", "RESCHEDULE"} ->
                  /\ IF Find(ship[s].status, back.to)
                     THEN /\ CanApply(s, ship[s], back)
                          /\ ship' = [ship EXCEPT ![s] = Moved(ship[s], back)]
                     ELSE UNCHANGED ship
                  /\ ndr' = [ndr EXCEPT ![s] = case]
                  /\ UNCHANGED rto
             [] action = "RTO" ->
                  /\ initiate(s, ship[s], FALSE)
                  /\ ndr' = [ndr EXCEPT ![s] = UpdateNDRCase(case, "RESOLVED_RTO", 0)]
             [] OTHER ->
                  /\ ndr' = [ndr EXCEPT ![s] = case]
                  /\ UNCHANGED <<ship, rto>>

=============================================================================
