---------------------------- MODULE Idempotency ----------------------------
(***************************************************************************)
(* The idempotency executor (internal/platform/idempotency) over the table *)
(* idempotency_keys.  A client sends one request under a key and repeats   *)
(* it until it has an answer.  Claiming, taking over, reading, completing  *)
(* and releasing the key are separate statements; only the business work   *)
(* and the completion share a transaction.  The API process may die        *)
(* between any two of them, and a commit may succeed although the client   *)
(* of the transaction is told that it failed.                              *)
(*                                                                         *)
(* Time is a count of ticks; lockAge is now() - created_at of the row,     *)
(* life is expires_at - now(), age is the time since a call owned the key. *)
(***************************************************************************)
EXTENDS Naturals

CONSTANTS
    Clients,        \* one request each, repeated until it is answered
    Keys,           \* <<organization, endpoint, Idempotency-Key>>
    KeyOf,          \* the key a client sends
    Payload,        \* the body it sends; hashRequest is injective
    Payloads,
    NoOne,          \* no response stored or shown
    StaleAfter,     \* Executor.staleAfter
    TTL,            \* Executor.ttl
    RequestTimeout, \* the deadline of the request's context
    ReleaseTimeout, \* how long the release, which has no deadline, may take
    MaxFaults       \* model bound: failures, lost commits and crashes

ASSUME IdempotencyAssumption ==
    /\ KeyOf \in [Clients -> Keys]
    /\ Payload \in [Clients -> Payloads]
    /\ NoOne \notin Clients
    /\ StaleAfter \in Nat
    /\ TTL \in Nat
    /\ RequestTimeout \in Nat
    /\ ReleaseTimeout \in Nat
    /\ MaxFaults \in Nat

VARIABLES
    pc,       \* where a client's call is in Executor.Run
    age,      \* ticks since the call claimed its key
    shown,    \* the client whose response this client was given
    status,   \* idempotency_keys.status; "NONE" when there is no row
    hash,     \* request_hash, as the payload it was computed from
    resp,     \* the client whose response the row stores
    lockAge,  \* ticks since created_at, saturating past StaleAfter
    life,     \* ticks until expires_at
    executed, \* how often the guarded work of a key has committed
    purged,   \* history: keys whose row PurgeExpired has deleted
    adopted,  \* history: keys whose row a caller with another body has taken over
    faults

idempotencyVars ==
    <<pc, age, shown, status, hash, resp, lockAge, life, executed, purged,
      adopted, faults>>

rowVars == <<status, hash, resp, lockAge, life>>

\* "owner" stands for prepare and the transaction; "reuse" and "answered" are
\* final, after every other outcome the client sends its request again.
Phases == {"idle", "takeover", "read", "owner", "release", "reuse", "answered"}

IdempotencyTypeOK ==
    /\ pc \in [Clients -> Phases]
    /\ age \in [Clients -> Nat]
    /\ shown \in [Clients -> Clients \cup {NoOne}]
    /\ status \in [Keys -> {"NONE", "IN_PROGRESS", "COMPLETED"}]
    /\ hash \in [Keys -> Payloads]
    /\ resp \in [Keys -> Clients \cup {NoOne}]
    /\ lockAge \in [Keys -> Nat]
    /\ life \in [Keys -> Nat]
    /\ executed \in [Keys -> Nat]
    /\ purged \subseteq Keys
    /\ adopted \subseteq Keys
    /\ faults \in Nat

IdempotencyInit ==
    /\ pc = [c \in Clients |-> "idle"]
    /\ age = [c \in Clients |-> 0]
    /\ shown = [c \in Clients |-> NoOne]
    /\ status = [k \in Keys |-> "NONE"]
    /\ hash \in [Keys -> Payloads]
    /\ resp = [k \in Keys |-> NoOne]
    /\ lockAge = [k \in Keys |-> 0]
    /\ life = [k \in Keys |-> 0]
    /\ executed = [k \in Keys |-> 0]
    /\ purged = {}
    /\ adopted = {}
    /\ faults = 0

Goto(c, phase) == pc' = [pc EXCEPT ![c] = phase]

-----------------------------------------------------------------------------
(* claim *)

\* ClaimIdempotencyKey inserts the row: this call owns the key.
Claim(c) ==
    LET k == KeyOf[c] IN
    /\ pc[c] = "idle"
    /\ status[k] = "NONE"
    /\ status' = [status EXCEPT ![k] = "IN_PROGRESS"]
    /\ hash' = [hash EXCEPT ![k] = Payload[c]]
    /\ resp' = [resp EXCEPT ![k] = NoOne]
    /\ lockAge' = [lockAge EXCEPT ![k] = 0]
    /\ life' = [life EXCEPT ![k] = TTL]
    /\ age' = [age EXCEPT ![c] = 0]
    /\ adopted' = adopted \ {k}
    /\ Goto(c, "owner")
    /\ UNCHANGED <<shown, executed, purged, faults>>

\* ON CONFLICT DO NOTHING returned no row.
ClaimConflicts(c) ==
    /\ pc[c] = "idle"
    /\ status[KeyOf[c]] # "NONE"
    /\ Goto(c, "takeover")
    /\ UNCHANGED <<age, shown, rowVars, executed, purged, adopted, faults>>

\* Mutant: an abandoned reservation is never given up.
StaleNever(k) == FALSE

\* The WHERE clause of TakeOverStaleIdempotencyKey.
Stale(k) == status[k] = "IN_PROGRESS" /\ lockAge[k] > StaleAfter

\* TakeOverStaleIdempotencyKey: created_at moves, request_hash and expires_at
\* do not.  When nothing is stale the call goes on to replay.
TakeOver(c) ==
    LET k == KeyOf[c] IN
    /\ pc[c] = "takeover"
    /\ \/ /\ Stale(k)
          /\ lockAge' = [lockAge EXCEPT ![k] = 0]
          /\ age' = [age EXCEPT ![c] = 0]
          /\ adopted' = IF hash[k] = Payload[c] THEN adopted ELSE adopted \cup {k}
          /\ Goto(c, "owner")
       \/ /\ ~Stale(k)
          /\ Goto(c, "read")
          /\ UNCHANGED <<lockAge, age, adopted>>
    /\ UNCHANGED <<shown, status, hash, resp, life, executed, purged, faults>>

-----------------------------------------------------------------------------
(* replay *)

\* GetIdempotencyKey finds a row written for another payload.
ReplayRefused(c) ==
    LET k == KeyOf[c] IN
    /\ pc[c] = "read"
    /\ status[k] # "NONE"
    /\ hash[k] # Payload[c]
    /\ Goto(c, "reuse")
    /\ UNCHANGED <<age, shown, rowVars, executed, purged, adopted, faults>>

\* Mutant: the read goes by the key alone.
ReplayStoredAnyBody(c) ==
    /\ pc[c] = "read"
    /\ status[KeyOf[c]] = "COMPLETED"
    /\ shown' = [shown EXCEPT ![c] = resp[KeyOf[c]]]
    /\ Goto(c, "answered")
    /\ UNCHANGED <<age, rowVars, executed, purged, adopted, faults>>

\* It finds the completed row: the stored response is the answer.
ReplayStored(c) ==
    LET k == KeyOf[c] IN
    /\ pc[c] = "read"
    /\ status[k] = "COMPLETED"
    /\ hash[k] = Payload[c]
    /\ shown' = [shown EXCEPT ![c] = resp[k]]
    /\ Goto(c, "answered")
    /\ UNCHANGED <<age, rowVars, executed, purged, adopted, faults>>

\* It finds no row, or one still in progress: the client is asked to retry.
ReplayInProgress(c) ==
    LET k == KeyOf[c] IN
    /\ pc[c] = "read"
    /\ \/ status[k] = "NONE"
       \/ status[k] = "IN_PROGRESS" /\ hash[k] = Payload[c]
    /\ Goto(c, "idle")
    /\ UNCHANGED <<age, shown, rowVars, executed, purged, adopted, faults>>

-----------------------------------------------------------------------------
(* runOnce *)

\* Mutant: the response is written after the transaction, by a later statement.
CommitWorkUnrecorded(c) ==
    /\ executed' = [executed EXCEPT ![KeyOf[c]] = @ + 1]
    /\ UNCHANGED <<status, resp>>

\* The work and CompleteIdempotencyKey commit together.  The UPDATE names the
\* key only: it completes whatever row is there, and none if there is none.
CommitWork(c) ==
    LET k == KeyOf[c] IN
    /\ executed' = [executed EXCEPT ![k] = @ + 1]
    /\ \/ /\ status[k] # "NONE"
          /\ status' = [status EXCEPT ![k] = "COMPLETED"]
          /\ resp' = [resp EXCEPT ![k] = c]
       \/ /\ status[k] = "NONE"
          /\ UNCHANGED <<status, resp>>

Commit(c) ==
    /\ pc[c] = "owner"
    /\ CommitWork(c)
    /\ shown' = [shown EXCEPT ![c] = c]
    /\ Goto(c, "answered")
    /\ UNCHANGED <<age, hash, lockAge, life, purged, adopted, faults>>

\* The transaction commits but its acknowledgement is lost (deadline reached,
\* connection gone), so Run takes the error path.
CommitLost(c) ==
    /\ faults < MaxFaults
    /\ faults' = faults + 1
    /\ pc[c] = "owner"
    /\ CommitWork(c)
    /\ Goto(c, "release")
    /\ UNCHANGED <<age, shown, hash, lockAge, life, purged, adopted>>

\* prepare or the operation returns an error and nothing is written.
WorkFails(c) ==
    /\ faults < MaxFaults
    /\ faults' = faults + 1
    /\ pc[c] = "owner"
    /\ Goto(c, "release")
    /\ UNCHANGED <<age, shown, rowVars, executed, purged, adopted>>

\* FailIdempotencyKey: deletes the row while it is IN_PROGRESS, whoever owns
\* it.  The error goes back to the client, which may retry.
Release(c) ==
    LET k == KeyOf[c] IN
    /\ pc[c] = "release"
    /\ status' = [status EXCEPT ![k] = IF @ = "IN_PROGRESS" THEN "NONE" ELSE @]
    /\ Goto(c, "idle")
    /\ UNCHANGED <<age, shown, hash, resp, lockAge, life, executed, purged, adopted, faults>>

-----------------------------------------------------------------------------
(* The process, the worker and time *)

\* The API process dies during a call.
Crash(c) ==
    /\ faults < MaxFaults
    /\ faults' = faults + 1
    /\ pc[c] \in {"takeover", "read", "owner", "release"}
    /\ Goto(c, "idle")
    /\ UNCHANGED <<age, shown, rowVars, executed, purged, adopted>>

\* PurgeExpired, from the worker's maintenance loop: every expired row goes.
Purge ==
    LET expired == {k \in Keys : status[k] # "NONE" /\ life[k] = 0} IN
    /\ expired # {}
    /\ status' = [k \in Keys |-> IF k \in expired THEN "NONE" ELSE status[k]]
    /\ purged' = purged \cup expired
    /\ UNCHANGED <<pc, age, shown, hash, resp, lockAge, life, executed, adopted, faults>>

\* The deadline of the request cancels prepare and the transaction; the release
\* runs on context.WithoutCancel.
MayWait(c) ==
    /\ pc[c] = "owner" => age[c] < RequestTimeout
    /\ pc[c] = "release" => age[c] < RequestTimeout + ReleaseTimeout

Tick ==
    /\ \A c \in Clients : MayWait(c)
    /\ age' = [c \in Clients |-> IF pc[c] \in {"owner", "release"} THEN age[c] + 1 ELSE age[c]]
    /\ lockAge' = [k \in Keys |-> IF status[k] # "NONE" /\ lockAge[k] <= StaleAfter
                                  THEN lockAge[k] + 1 ELSE lockAge[k]]
    /\ life' = [k \in Keys |-> IF life[k] > 0 THEN life[k] - 1 ELSE 0]
    /\ UNCHANGED <<pc, shown, status, hash, resp, executed, purged, adopted, faults>>

-----------------------------------------------------------------------------
Call(c) ==
    \/ Claim(c) \/ ClaimConflicts(c) \/ TakeOver(c)
    \/ ReplayRefused(c) \/ ReplayStored(c) \/ ReplayInProgress(c)
    \/ Commit(c) \/ Release(c)

Fault(c) == CommitLost(c) \/ WorkFails(c) \/ Crash(c)

IdempotencyNext ==
    \/ \E c \in Clients : Call(c) \/ Fault(c)
    \/ Purge
    \/ Tick

IdempotencySpec == IdempotencyInit /\ [][IdempotencyNext]_idempotencyVars

\* A client repeats its request, a call in progress goes on, and time passes.
FairSpec == IdempotencySpec /\ WF_idempotencyVars(Tick) /\ \A c \in Clients : WF_idempotencyVars(Call(c))

-----------------------------------------------------------------------------
(* Properties *)

\* "Run executes op at most once for the supplied key" (idempotency.go):
\* through crashes, lost commits, retries and take-overs the guarded work of a
\* key commits at most once while its row is retained.
AtMostOnce == \A k \in Keys \ purged : executed[k] <= 1

\* Clients that sent the same body under one key are given the same response,
\* computed for them or replayed, and the work behind it did commit.  And it is a
\* response to that body, unless a caller with another body has taken the stale
\* reservation over: the take-over compares no digest and keeps the old one.
OneAnswer ==
    \A c \in Clients : KeyOf[c] \notin purged /\ pc[c] = "answered" =>
        /\ executed[KeyOf[c]] > 0
        /\ KeyOf[c] \notin adopted => Payload[shown[c]] = Payload[c]
        /\ \A d \in Clients :
              (KeyOf[d] = KeyOf[c] /\ Payload[d] = Payload[c] /\ pc[d] = "answered")
              => shown[d] = shown[c]

\* "Same key, different payload: a client bug that must never be answered with
\* the first request's response" (idempotency.go): whoever is answered is
\* answered for the body it sent.
AnsweredForItsBody ==
    \A c \in Clients : KeyOf[c] \notin purged /\ pc[c] = "answered" =>
        Payload[shown[c]] = Payload[c]

\* Every request is eventually answered or refused for good: a reservation its
\* owner abandoned does not block the key for ever.
EventuallyAnswered == \A c \in Clients : <>(pc[c] \in {"answered", "reuse"})

=============================================================================
