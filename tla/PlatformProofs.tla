--------------------------- MODULE PlatformProofs ---------------------------
(***************************************************************************)
(* Proofs about the services that what is retried and who is signed in     *)
(* rest on: idempotency keys, for every set of clients and keys, every     *)
(* retention and every number of faults; the outbox, for any rows, threads *)
(* and deaths; and sign-in sessions, for any number of users, requests,    *)
(* links and sessions.                                                     *)
(***************************************************************************)
EXTENDS Idempotency, Outbox, Sessions, TLAPS

-----------------------------------------------------------------------------
(***************************************************************************)
(* Idempotency keys.                                                       *)
(***************************************************************************)

ClientStep(c) == Call(c) \/ Fault(c)

\* The executor writes only statuses, phases and counters of their types.
THEOREM IdempotencyTypeCorrect == IdempotencySpec => []IdempotencyTypeOK
<1>1. IdempotencyInit => IdempotencyTypeOK
  BY IdempotencyAssumption DEF IdempotencyInit, IdempotencyTypeOK, Phases
<1>2. IdempotencyTypeOK /\ [IdempotencyNext]_idempotencyVars => IdempotencyTypeOK'
  <2> SUFFICES ASSUME IdempotencyTypeOK, [IdempotencyNext]_idempotencyVars PROVE IdempotencyTypeOK'
    OBVIOUS
  <2> USE IdempotencyAssumption DEF IdempotencyTypeOK, Phases, rowVars, Goto
  <2>1. ASSUME NEW c \in Clients, ClientStep(c) PROVE IdempotencyTypeOK'
    <3>1. CASE Claim(c)          BY <3>1 DEF Claim
    <3>2. CASE ClaimConflicts(c) BY <3>2 DEF ClaimConflicts
    <3>3. CASE TakeOver(c)       BY <3>3 DEF TakeOver
    <3>4. CASE ReplayRefused(c) \/ ReplayStored(c) \/ ReplayInProgress(c)
      BY <3>4 DEF ReplayRefused, ReplayStored, ReplayInProgress
    <3>5. CASE Commit(c)         BY <3>5 DEF Commit, CommitWork
    <3>6. CASE Release(c)        BY <3>6 DEF Release
    <3>7. CASE CommitLost(c)     BY <3>7 DEF CommitLost, CommitWork
    <3>8. CASE WorkFails(c)      BY <3>8 DEF WorkFails
    <3>9. CASE Crash(c)          BY <3>9 DEF Crash
    <3>10. QED
      BY <2>1, <3>1, <3>2, <3>3, <3>4, <3>5, <3>6, <3>7, <3>8, <3>9
      DEF ClientStep, Call, Fault
  <2>2. CASE Purge BY <2>2 DEF Purge
  <2>3. CASE Tick
    <3>1. age' \in [Clients -> Nat] BY <2>3 DEF Tick
    <3>2. lockAge' \in [Keys -> Nat] BY <2>3 DEF Tick
    <3>3. life' \in [Keys -> Nat] BY <2>3 DEF Tick
    <3>4. QED BY <2>3, <3>1, <3>2, <3>3 DEF Tick
  <2>4. CASE UNCHANGED idempotencyVars BY <2>4 DEF idempotencyVars
  <2>5. QED BY <2>1, <2>2, <2>3, <2>4 DEF IdempotencyNext, ClientStep
<1>3. QED BY <1>1, <1>2, PTL DEF IdempotencySpec

-----------------------------------------------------------------------------
(* At most once.                                                           *)
(*                                                                         *)
(* The row itself does not say who owns it.  What makes the protocol safe  *)
(* is time: a call that owns the key is exactly as old as the row's        *)
(* created_at, and it is gone before the row can be stale.                 *)

Owning(c) == pc[c] \in {"owner", "release"}

OwnerTimed(c) ==
    /\ pc[c] = "owner" => /\ status[KeyOf[c]] = "IN_PROGRESS"
                          /\ age[c] = lockAge[KeyOf[c]]
                          /\ age[c] <= RequestTimeout
    /\ pc[c] = "release" => \/ status[KeyOf[c]] = "COMPLETED"
                            \/ /\ status[KeyOf[c]] = "IN_PROGRESS"
                               /\ age[c] = lockAge[KeyOf[c]]
                               /\ age[c] <= RequestTimeout + ReleaseTimeout

ExecutedOnce(k) == executed[k] = IF status[k] = "COMPLETED" THEN 1 ELSE 0

AnswerStored(c) ==
    pc[c] = "answered" => status[KeyOf[c]] = "COMPLETED" /\ shown[c] = resp[KeyOf[c]]

\* As long as nobody has taken the row over for another body, whoever owns the
\* key or was answered under it sent the body whose digest the row has.
BodyKept(c) ==
    pc[c] \in {"owner", "answered"} /\ KeyOf[c] \notin adopted => Payload[c] = hash[KeyOf[c]]

StoredForBody(k) ==
    status[k] = "COMPLETED" /\ k \notin adopted =>
        resp[k] \in Clients /\ Payload[resp[k]] = hash[k]

\* The inductive invariant, for the keys whose row was never purged.
OwnerInv ==
    /\ IdempotencyTypeOK
    /\ \A c \in Clients : KeyOf[c] \notin purged =>
          OwnerTimed(c) /\ AnswerStored(c) /\ BodyKept(c)
    /\ \A c, d \in Clients :
        (KeyOf[c] \notin purged /\ KeyOf[c] = KeyOf[d] /\ Owning(c) /\ Owning(d)) => c = d
    /\ \A k \in Keys \ purged : ExecutedOnce(k) /\ StoredForBody(k)

\* The invariant holds initially and every step keeps it, as long as a call
\* has left the key, release included, by the time the row is stale.
LEMMA OwnerInvariant ==
    ASSUME RequestTimeout + ReleaseTimeout <= StaleAfter
    PROVE  IdempotencySpec => []OwnerInv
<1>1. IdempotencyInit => OwnerInv
  BY IdempotencyAssumption
  DEF IdempotencyInit, OwnerInv, IdempotencyTypeOK, Phases, OwnerTimed, AnswerStored, BodyKept,
      StoredForBody, Owning, ExecutedOnce
<1>2. OwnerInv /\ IdempotencyTypeOK' /\ [IdempotencyNext]_idempotencyVars => OwnerInv'
  <2> SUFFICES ASSUME OwnerInv, IdempotencyTypeOK', [IdempotencyNext]_idempotencyVars PROVE OwnerInv'
    OBVIOUS
  <2> USE IdempotencyAssumption
      DEF OwnerInv, OwnerTimed, AnswerStored, BodyKept,
      StoredForBody, Owning, ExecutedOnce, rowVars, Goto, IdempotencyTypeOK, Phases
  <2>1. ASSUME NEW c \in Clients, ClientStep(c) PROVE OwnerInv'
    <3>1. CASE Claim(c)          BY <3>1 DEF Claim
    <3>2. CASE ClaimConflicts(c) BY <3>2 DEF ClaimConflicts
    <3>3. CASE TakeOver(c)
      <4>1. CASE ~Stale(KeyOf[c]) BY <3>3, <4>1 DEF TakeOver
      <4>2. CASE Stale(KeyOf[c])
        <5>1. ASSUME KeyOf[c] \notin purged, NEW d \in Clients, KeyOf[d] = KeyOf[c], Owning(d)
              PROVE  FALSE
          BY <4>2, <5>1 DEF Stale
        <5>2. QED BY <3>3, <4>2, <5>1 DEF TakeOver, Stale
      <4>3. QED BY <4>1, <4>2
    <3>4. CASE ReplayRefused(c) \/ ReplayStored(c) \/ ReplayInProgress(c)
      BY <3>4 DEF ReplayRefused, ReplayStored, ReplayInProgress
    <3>5. CASE Commit(c)         BY <3>5 DEF Commit, CommitWork
    <3>6. CASE Release(c)        BY <3>6 DEF Release
    <3>7. CASE CommitLost(c)     BY <3>7 DEF CommitLost, CommitWork
    <3>8. CASE WorkFails(c)      BY <3>8 DEF WorkFails
    <3>9. CASE Crash(c)          BY <3>9 DEF Crash
    <3>10. QED
      BY <2>1, <3>1, <3>2, <3>3, <3>4, <3>5, <3>6, <3>7, <3>8, <3>9
      DEF ClientStep, Call, Fault
  <2>2. CASE Purge BY <2>2 DEF Purge
  <2>3. CASE Tick
    <3>1. ASSUME NEW c \in Clients, KeyOf[c] \notin purged
          PROVE  OwnerTimed(c)' /\ AnswerStored(c)' /\ BodyKept(c)'
      <4>1. /\ pc[c] = "owner" => age[c] < RequestTimeout
            /\ pc[c] = "release" => age[c] < RequestTimeout + ReleaseTimeout
        BY <2>3 DEF Tick, MayWait
      <4>2. QED BY <2>3, <3>1, <4>1 DEF Tick
    <3>2. UNCHANGED <<pc, shown, status, hash, resp, executed, purged, adopted>>
      BY <2>3 DEF Tick
    <3>3. \A k \in Keys \ purged : ExecutedOnce(k)' /\ StoredForBody(k)' BY <3>2
    <3>4. QED BY <3>1, <3>2, <3>3
  <2>4. CASE UNCHANGED idempotencyVars BY <2>4 DEF idempotencyVars
  <2>5. QED BY <2>1, <2>2, <2>3, <2>4 DEF IdempotencyNext, ClientStep
<1>3. QED BY <1>1, <1>2, IdempotencyTypeCorrect, PTL DEF IdempotencySpec

\* Run executes op at most once for a key: whatever the number of concurrent
\* retries, crashes and lost commits, provided that a call, its release
\* included, ends before its reservation counts as stale.
THEOREM AtMostOnceCorrect ==
    ASSUME RequestTimeout + ReleaseTimeout <= StaleAfter
    PROVE  IdempotencySpec => []AtMostOnce
<1>1. OwnerInv => AtMostOnce
  BY DEF OwnerInv, ExecutedOnce, AtMostOnce
<1>2. QED BY <1>1, OwnerInvariant, PTL

\* Under the same condition equal requests under a key have one committed answer,
\* and it was computed for their body unless a take-over came from another one.
THEOREM OneAnswerCorrect ==
    ASSUME RequestTimeout + ReleaseTimeout <= StaleAfter
    PROVE  IdempotencySpec => []OneAnswer
<1>1. OwnerInv => OneAnswer
  BY IdempotencyAssumption
  DEF OwnerInv, AnswerStored, ExecutedOnce, BodyKept, StoredForBody, OneAnswer, IdempotencyTypeOK
<1>2. QED BY <1>1, OwnerInvariant, PTL

-----------------------------------------------------------------------------
(***************************************************************************)
(* The outbox: the rows, the threads that send them, and what keeps a      *)
(* message from being sent twice.                                          *)
(***************************************************************************)

DeliveryRow == [event : Events \cup {NoDelivery.event}, status : DeliveryStatuses,
                tries : 0 .. (MaxCalls + 1), replay : BOOLEAN]
Ops == {"send", "accepted", "failed", "refused", "success", "failure"}
Work == {NoWork} \cup [op : Ops, job : JobIds]

OutboxRows ==
    /\ note \in [Notes -> NoteRow]
    /\ template \in BOOLEAN
    /\ key \in [status : KeyStatuses, past : BOOLEAN]
    /\ endpoint \in [status : EndpointStatuses, failures : 0 .. PauseAfter, subscribed : BOOLEAN]
    /\ delivery \in [Deliveries -> DeliveryRow]
    /\ job \in [JobIds -> JobStates]
    /\ wk \in [Workers -> Work]
    /\ crashes \in 0 .. MaxCrashes /\ retries \in 0 .. MaxRetries

\* The thread is between the claim of its row and the answer's record.
Busy(w) == wk[w].op \in {"send", "accepted", "failed", "refused"}
Row(w) == RowOf(wk[w].job)

InFlight(r) == IF r \in Notes THEN note[r].status = "SENDING" ELSE delivery[r].status = "SENDING"

\* The row a thread is sending says so, and no other thread sends it.
Claimed ==
    \A w \in Workers : Busy(w) =>
        /\ InFlight(Row(w))
        /\ \A v \in Workers : Busy(v) /\ Row(v) = Row(w) => v = w

\* notifications_dedupe_idx: one row for each key, the abandoned ones apart.
Covered(n) == note[n].status \notin {"none", "DEAD_LETTER", "CANCELLED"}
OneCovered == \A n, m \in Notes : Covered(n) /\ Covered(m) /\ note[n].key = note[m].key => n = m

OutboxInv == OutboxRows /\ Claimed /\ OneCovered

-----------------------------------------------------------------------------
\* What a thread holds.
LEMMA WorkLemma ==
    ASSUME OutboxRows, NEW w \in Workers, wk[w] # NoWork
    PROVE  /\ wk[w].op \in Ops /\ wk[w].job \in JobIds
           /\ Row(w) \in Notes \cup Deliveries
           /\ wk[w] = [op |-> wk[w].op, job |-> wk[w].job]
<1>1. wk[w] \in [op : Ops, job : JobIds]
  BY DEF OutboxRows, Work
<1>2. wk[w].job \in JobIds
  BY <1>1
<1>3. Row(w) \in Notes \cup Deliveries
  BY <1>2 DEF Row, RowOf, JobIds, NoteJobs
<1>4. QED BY <1>1, <1>2, <1>3

LEMMA BusyLemma ==
    ASSUME NEW w \in Workers
    PROVE  Busy(w) => wk[w] # NoWork
  BY DEF Busy, NoWork

-----------------------------------------------------------------------------
(***************************************************************************)
(* The rows keep their types.                                              *)
(***************************************************************************)

\* The statements on a notification's row.
LEMMA NoteStatements ==
    ASSUME OutboxRows, NEW n \in Notes
    PROVE  /\ \A k \in DedupeKeys, st \in NoteStatuses : CreateNotification(n, k, st) => note' \in [Notes -> NoteRow]
           /\ Claimable(n) /\ LockNotificationForSend(n) => note' \in [Notes -> NoteRow]
           /\ MarkNotificationSent(n) => note' \in [Notes -> NoteRow]
           /\ \A b \in BOOLEAN : MarkNotificationFailed(n, b) => note' \in [Notes -> NoteRow]
           /\ ReclaimStuckNotifications(n) \/ RetryNotification(n) \/ CancelNotification(n)
                => note' \in [Notes -> NoteRow]
<1> USE SendsAssumption DEF OutboxRows, NoteRow, NoteStatuses
<1>1. \A k \in DedupeKeys, st \in NoteStatuses : CreateNotification(n, k, st) => note' \in [Notes -> NoteRow]
  BY DEF CreateNotification
<1>2. Claimable(n) /\ LockNotificationForSend(n) => note' \in [Notes -> NoteRow]
  <2>1. note[n].tries < MaxSends => note[n].tries + 1 \in 0 .. MaxSends
    OBVIOUS
  <2>2. QED BY <2>1 DEF Claimable, LockNotificationForSend
<1>3. MarkNotificationSent(n) => note' \in [Notes -> NoteRow]
  BY DEF MarkNotificationSent
<1>4. \A b \in BOOLEAN : MarkNotificationFailed(n, b) => note' \in [Notes -> NoteRow]
  BY DEF MarkNotificationFailed
<1>5. ReclaimStuckNotifications(n) \/ RetryNotification(n) \/ CancelNotification(n)
        => note' \in [Notes -> NoteRow]
  BY DEF ReclaimStuckNotifications, RetryNotification, CancelNotification
<1>6. QED BY <1>1, <1>2, <1>3, <1>4, <1>5

\* The statements on a delivery's row.
LEMMA DeliveryStatements ==
    ASSUME OutboxRows, NEW d \in Deliveries
    PROVE  /\ \A e \in Events \cup {NoDelivery.event}, b \in BOOLEAN :
                 CreateWebhookDelivery(d, e, b) => delivery' \in [Deliveries -> DeliveryRow]
           /\ ClaimDeliveryForSend(d) \/ MarkDeliverySucceeded(d) \/ MarkDeliveryFailed(d)
              \/ ReclaimStuckDeliveries(d) => delivery' \in [Deliveries -> DeliveryRow]
<1> USE CallsAssumption DEF OutboxRows, DeliveryRow, DeliveryStatuses
<1>1. \A e \in Events \cup {NoDelivery.event}, b \in BOOLEAN :
          CreateWebhookDelivery(d, e, b) => delivery' \in [Deliveries -> DeliveryRow]
  BY DEF CreateWebhookDelivery
<1>2. ClaimDeliveryForSend(d) => delivery' \in [Deliveries -> DeliveryRow]
  <2> DEFINE t == IF delivery[d].tries > MaxCalls THEN delivery[d].tries ELSE delivery[d].tries + 1
  <2>1. t \in 0 .. (MaxCalls + 1)
    OBVIOUS
  <2>2. ClaimDeliveryForSend(d) =>
          delivery' = [delivery EXCEPT ![d] = [delivery[d] EXCEPT !.status = "SENDING", !.tries = t]]
    BY DEF ClaimDeliveryForSend
  <2> HIDE DEF t
  <2>3. [delivery[d] EXCEPT !.status = "SENDING", !.tries = t] \in DeliveryRow
    BY <2>1, ZenonT(60)
  <2> HIDE DEF DeliveryRow
  <2>4. QED BY <2>2, <2>3
<1>3. MarkDeliverySucceeded(d) \/ MarkDeliveryFailed(d) \/ ReclaimStuckDeliveries(d)
        => delivery' \in [Deliveries -> DeliveryRow]
  BY DEF MarkDeliverySucceeded, MarkDeliveryFailed, ReclaimStuckDeliveries
<1>4. QED BY <1>1, <1>2, <1>3

\* The jobs and the threads.
LEMMA JobStatements ==
    ASSUME OutboxRows
    PROVE  /\ \A j \in JobIds : Enqueue(j) => job' \in [JobIds -> JobStates]
           /\ \A w \in Workers, j \in JobIds, st \in JobStates : Finish(w, j, st) =>
                 job' \in [JobIds -> JobStates] /\ wk' \in [Workers -> Work]
           /\ \A n \in Notes : <<n, "send">> \in JobIds /\ <<n, "retry">> \in JobIds
           /\ \A d \in Deliveries : <<d, "send">> \in JobIds
<1>1. \A j \in JobIds : Enqueue(j) => job' \in [JobIds -> JobStates]
  BY DEF Enqueue, OutboxRows, JobStates
<1>2. \A w \in Workers, j \in JobIds, st \in JobStates : Finish(w, j, st) =>
         job' \in [JobIds -> JobStates] /\ wk' \in [Workers -> Work]
  BY DEF Finish, OutboxRows, JobStates, Work
<1>3. QED BY <1>1, <1>2 DEF JobIds, NoteJobs

LEMMA EndpointStatements ==
    ASSUME OutboxRows,
           \/ CreateWebhookEndpoint \/ CreateWebhookSubscription \/ DeleteWebhookSubscription
           \/ RecordWebhookSuccess \/ RecordWebhookFailure
           \/ \E to \in {"ACTIVE", "PAUSED", "DISABLED"} : SetWebhookEndpointStatus(to)
    PROVE  endpoint' \in [status : EndpointStatuses, failures : 0 .. PauseAfter, subscribed : BOOLEAN]
<1> USE CallsAssumption DEF OutboxRows, EndpointStatuses
<1>1. CASE RecordWebhookFailure
  <2> DEFINE over == endpoint.failures + 1 >= PauseAfter
             f == IF over THEN PauseAfter ELSE endpoint.failures + 1
             st == IF over THEN "PAUSED" ELSE endpoint.status
  <2>1. f \in 0 .. PauseAfter /\ st \in EndpointStatuses
    OBVIOUS
  <2>2. endpoint' = [endpoint EXCEPT !.failures = f, !.status = st]
    BY <1>1 DEF RecordWebhookFailure
  <2> HIDE DEF over, f, st
  <2>3. QED BY <2>1, <2>2
<1>2. CASE CreateWebhookEndpoint
  BY <1>2 DEF CreateWebhookEndpoint
<1>3. CASE CreateWebhookSubscription \/ DeleteWebhookSubscription
  BY <1>3 DEF CreateWebhookSubscription, DeleteWebhookSubscription
<1>4. CASE RecordWebhookSuccess
  BY <1>4 DEF RecordWebhookSuccess
<1>5. ASSUME NEW to \in {"ACTIVE", "PAUSED", "DISABLED"}, SetWebhookEndpointStatus(to)
      PROVE  endpoint' \in [status : EndpointStatuses, failures : 0 .. PauseAfter, subscribed : BOOLEAN]
  <2> DEFINE f == IF to = "ACTIVE" THEN 0 ELSE endpoint.failures
  <2>1. f \in 0 .. PauseAfter /\ to \in EndpointStatuses
    OBVIOUS
  <2>2. endpoint' = [endpoint EXCEPT !.status = to, !.failures = f]
    BY <1>5 DEF SetWebhookEndpointStatus
  <2> HIDE DEF f
  <2>3. QED BY <2>1, <2>2
<1>6. QED BY <1>1, <1>2, <1>3, <1>4, <1>5

LEMMA KeyStatements ==
    ASSUME OutboxRows,
           \/ CreateAPIKey \/ KeyTime \/ RevokeAPIKey \/ ExpireAPIKeys
           \/ \E b \in BOOLEAN : SuspendAPIKey(b)
    PROVE  key' \in [status : KeyStatuses, past : BOOLEAN]
<1>1. CASE CreateAPIKey \/ KeyTime \/ RevokeAPIKey \/ ExpireAPIKeys
  BY <1>1 DEF OutboxRows, KeyStatuses, CreateAPIKey, KeyTime, RevokeAPIKey, ExpireAPIKeys
<1>2. CASE \E b \in BOOLEAN : SuspendAPIKey(b)
  BY <1>2 DEF OutboxRows, KeyStatuses, SuspendAPIKey
<1>3. QED BY <1>1, <1>2

LEMMA OutboxRowsInit == OutboxInit => OutboxRows
<1> SUFFICES ASSUME OutboxInit PROVE OutboxRows
  OBVIOUS
<1>1. note \in [Notes -> NoteRow]
  BY SendsAssumption DEF OutboxInit, NoteInit, NoteRow, NoteStatuses
<1>2. delivery \in [Deliveries -> DeliveryRow]
  BY CallsAssumption DEF OutboxInit, WebhookInit, NoDelivery, DeliveryRow, DeliveryStatuses
<1>3. /\ key \in [status : KeyStatuses, past : BOOLEAN]
      /\ endpoint \in [status : EndpointStatuses, failures : 0 .. PauseAfter, subscribed : BOOLEAN]
  BY CallsAssumption DEF OutboxInit, WebhookInit, KeyStatuses, EndpointStatuses
<1>4. QED
  BY <1>1, <1>2, <1>3, ThreadsAssumption
  DEF OutboxInit, NoteInit, OutboxRows, Work, JobStates

\* The services' and the operators' operations.
LEMMA OutboxRowsBusiness == OutboxRows /\ Business => OutboxRows'
<1> SUFFICES ASSUME OutboxRows, Business PROVE OutboxRows'
  OBVIOUS
<1>1. ASSUME NEW n \in Notes, Retry(n) PROVE OutboxRows'
  <2>1. note' \in [Notes -> NoteRow] BY <1>1, NoteStatements DEF Retry
  <2>2. job' \in [JobIds -> JobStates] BY <1>1, JobStatements DEF Retry, OutboxRows
  <2>3. retries' \in 0 .. MaxRetries BY <1>1, ThreadsAssumption DEF Retry, OutboxRows
  <2>4. QED BY <1>1, <2>1, <2>2, <2>3 DEF Retry, OutboxRows
<1>2. ASSUME NEW n \in Notes, Cancel(n) PROVE OutboxRows'
  <2>1. note' \in [Notes -> NoteRow] BY <1>2, NoteStatements DEF Cancel
  <2>2. QED BY <1>2, <2>1 DEF Cancel, OutboxRows
<1>3. ASSUME NEW n \in Notes, NEW k \in DedupeKeys, NEW b \in BOOLEAN, ShipmentObserver(n, k, b)
      PROVE  OutboxRows'
  <2>1. StatusOf(b) \in NoteStatuses BY DEF StatusOf, NoteStatuses
  <2>2. note' \in [Notes -> NoteRow] BY <1>3, <2>1, NoteStatements DEF ShipmentObserver, Raise
  <2>3. job' \in [JobIds -> JobStates]
    BY <1>3, JobStatements DEF ShipmentObserver, Raise, OutboxRows
  <2>4. QED BY <1>3, <2>2, <2>3 DEF ShipmentObserver, Raise, OutboxRows
<1>4. ASSUME NEW d \in Deliveries, NEW e \in Events, Observer(d, e) PROVE OutboxRows'
  <2>1. delivery' \in [Deliveries -> DeliveryRow] BY <1>4, DeliveryStatements DEF Observer, Emit
  <2>2. job' \in [JobIds -> JobStates] BY <1>4, JobStatements DEF Observer, Emit
  <2>3. QED BY <1>4, <2>1, <2>2 DEF Observer, Emit, OutboxRows
<1>5. ASSUME NEW d \in Deliveries, NEW o \in Deliveries, Replay(d, o) PROVE OutboxRows'
  <2>1. delivery[o].event \in Events \cup {NoDelivery.event} BY DEF OutboxRows, DeliveryRow
  <2>2. delivery' \in [Deliveries -> DeliveryRow] BY <1>5, <2>1, DeliveryStatements DEF Replay
  <2>3. job' \in [JobIds -> JobStates] BY <1>5, JobStatements DEF Replay
  <2>4. QED BY <1>5, <2>2, <2>3 DEF Replay, OutboxRows
<1>6. CASE \/ (\E partner \in BOOLEAN : CreateEndpoint(partner)) \/ Subscribe \/ Unsubscribe
           \/ \E to \in {"ACTIVE", "PAUSED", "DISABLED"} : SetEndpointStatus(to)
  <2>1. endpoint' \in [status : EndpointStatuses, failures : 0 .. PauseAfter, subscribed : BOOLEAN]
    BY <1>6, EndpointStatements DEF CreateEndpoint, Subscribe, Unsubscribe, SetEndpointStatus
  <2>2. EndpointOnly
    BY <1>6 DEF CreateEndpoint, Subscribe, Unsubscribe, SetEndpointStatus
  <2>3. QED BY <2>1, <2>2 DEF EndpointOnly, OutboxRows
<1>7. CASE Issue \/ RevokeKey \/ ExpireKeys \/ \E b \in BOOLEAN : Suspend(b)
  <2>1. key' \in [status : KeyStatuses, past : BOOLEAN]
    BY <1>7, KeyStatements DEF Issue, RevokeKey, ExpireKeys, Suspend
  <2>2. KeyOnly
    BY <1>7 DEF Issue, RevokeKey, ExpireKeys, Suspend
  <2>3. QED BY <2>1, <2>2 DEF KeyOnly, OutboxRows
<1>8. ASSUME NEW b \in BOOLEAN, UpdateTemplate(b) PROVE OutboxRows'
  BY <1>8 DEF UpdateTemplate, SetTemplate, OutboxRows
<1>9. QED BY <1>1, <1>2, <1>3, <1>4, <1>5, <1>6, <1>7, <1>8 DEF Business

\* Threads, their death, and maintenance.
LEMMA OutboxRowsWork ==
    ASSUME OutboxRows, NEW w \in Workers,
           Thread(w) \/ ThreadDies(w) \/ \E j \in JobIds : Deliver(w, j)
    PROVE  OutboxRows'
<1>1. ASSUME NEW j \in JobIds, Deliver(w, j) PROVE OutboxRows'
  <2> DEFINE r == RowOf(j)
  <2>1. r \in Notes \cup Deliveries /\ (r \in Notes => r \notin Deliveries)
    BY RowsAssumption DEF JobIds, NoteJobs, RowOf
  <2>2. CASE IF r \in Notes THEN Claimable(r) ELSE Due(r)
    <3>1. note' \in [Notes -> NoteRow] /\ delivery' \in [Deliveries -> DeliveryRow]
      BY <1>1, <2>1, <2>2, NoteStatements, DeliveryStatements DEF Deliver, OutboxRows
    <3>2. /\ wk' = [wk EXCEPT ![w] = [op |-> "send", job |-> j]]
          /\ job' = [job EXCEPT ![j] = "running"]
      BY <1>1, <2>2 DEF Deliver
    <3>3. wk' \in [Workers -> Work] /\ job' \in [JobIds -> JobStates]
      BY <3>2 DEF OutboxRows, Work, Ops, JobStates
    <3>4. QED BY <1>1, <3>1, <3>3 DEF Deliver, OutboxRows
  <2>3. CASE ~ IF r \in Notes THEN Claimable(r) ELSE Due(r)
    <3>1. Finish(w, j, "none") /\ UNCHANGED <<note, delivery>>
      BY <1>1, <2>3 DEF Deliver
    <3>2. job' \in [JobIds -> JobStates] /\ wk' \in [Workers -> Work]
      BY <3>1, JobStatements DEF JobStates
    <3>3. QED BY <1>1, <3>1, <3>2 DEF Deliver, OutboxRows
  <2>4. QED BY <2>2, <2>3
<1>2. ASSUME NEW o \in {"accepted", "failed", "refused"}, Send(w, o) PROVE OutboxRows'
  <2>1. wk[w] # NoWork BY <1>2 DEF Send, NoWork
  <2>2. wk' \in [Workers -> Work]
    BY <1>2, <2>1, WorkLemma DEF Send, OutboxRows, Work, Ops
  <2>3. QED BY <1>2, <2>2 DEF Send, rows, OutboxRows
<1>3. CASE MarkNote(w)
  <2>1. wk[w] # NoWork /\ Row(w) \in Notes BY <1>3 DEF MarkNote, NoWork, Row
  <2>2. note' \in [Notes -> NoteRow]
    BY <1>3, <2>1, NoteStatements DEF MarkNote, Row
  <2>3. job' \in [JobIds -> JobStates] /\ wk' \in [Workers -> Work]
    BY <1>3, <2>1, WorkLemma, JobStatements DEF MarkNote, JobStates
  <2>4. QED BY <1>3, <2>2, <2>3 DEF MarkNote, OutboxRows
<1>4. CASE MarkDelivery(w)
  <2>1. wk[w] # NoWork /\ Row(w) \in Deliveries BY <1>4 DEF MarkDelivery, NoWork, Row
  <2>2. delivery' \in [Deliveries -> DeliveryRow]
    BY <1>4, <2>1, DeliveryStatements DEF MarkDelivery, Row
  <2>3. PICK o \in Ops : wk' = [wk EXCEPT ![w] = [op |-> o, job |-> wk[w].job]]
    <3>1. wk' = [wk EXCEPT ![w] = [wk[w] EXCEPT !.op = IF wk[w].op = "accepted" THEN "success" ELSE "failure"]]
      BY <1>4 DEF MarkDelivery
    <3> DEFINE q == IF wk[w].op = "accepted" THEN "success" ELSE "failure"
    <3>2. q \in Ops BY DEF Ops
    <3> HIDE DEF q
    <3>3. [[op |-> wk[w].op, job |-> wk[w].job] EXCEPT !.op = q] = [op |-> q, job |-> wk[w].job]
      OBVIOUS
    <3>4. [wk[w] EXCEPT !.op = q] = [op |-> q, job |-> wk[w].job]
      BY <2>1, <3>3, WorkLemma
    <3>5. QED BY <3>1, <3>2, <3>4 DEF q
  <2>4. wk' \in [Workers -> Work]
    BY <2>1, <2>3, WorkLemma DEF OutboxRows, Work
  <2>5. QED BY <1>4, <2>2, <2>4 DEF MarkDelivery, OutboxRows
<1>5. CASE RecordEndpoint(w)
  <2>1. wk[w] # NoWork BY <1>5 DEF RecordEndpoint, NoWork
  <2>2. endpoint' \in [status : EndpointStatuses, failures : 0 .. PauseAfter, subscribed : BOOLEAN]
    BY <1>5, EndpointStatements DEF RecordEndpoint
  <2>3. job' \in [JobIds -> JobStates] /\ wk' \in [Workers -> Work]
    BY <1>5, <2>1, WorkLemma, JobStatements DEF RecordEndpoint, JobStates
  <2>4. QED BY <1>5, <2>2, <2>3 DEF RecordEndpoint, OutboxRows
<1>6. CASE ThreadDies(w)
  <2>1. job' \in [JobIds -> JobStates] /\ wk' \in [Workers -> Work]
    BY <1>6, WorkLemma, JobStatements DEF ThreadDies, JobStates
  <2>2. crashes' \in 0 .. MaxCrashes
    BY <1>6, ThreadsAssumption DEF ThreadDies, OutboxRows
  <2>3. QED BY <1>6, <2>1, <2>2 DEF ThreadDies, rows, OutboxRows
<1>7. QED BY <1>1, <1>2, <1>3, <1>4, <1>5, <1>6 DEF Thread

LEMMA OutboxRowsMaintenance == OutboxRows /\ Maintenance => OutboxRows'
<1> SUFFICES ASSUME OutboxRows, Maintenance PROVE OutboxRows'
  OBVIOUS
<1>1. ASSUME NEW j \in JobIds, ReclaimJob(j) PROVE OutboxRows'
  BY <1>1 DEF ReclaimJob, rows, OutboxRows, JobStates
<1>2. ASSUME NEW r \in Notes \cup Deliveries, ReclaimStuck(r) PROVE OutboxRows'
  <2>1. note' \in [Notes -> NoteRow] /\ delivery' \in [Deliveries -> DeliveryRow]
    BY <1>2, NoteStatements, DeliveryStatements DEF ReclaimStuck, OutboxRows
  <2>2. QED BY <1>2, <2>1 DEF ReclaimStuck, OutboxRows
<1>3. ASSUME NEW r \in Notes \cup Deliveries, SweepDue(r) PROVE OutboxRows'
  <2>1. job' \in [JobIds -> JobStates] BY <1>3, JobStatements DEF SweepDue
  <2>2. QED BY <1>3, <2>1 DEF SweepDue, rows, OutboxRows
<1>4. QED BY <1>1, <1>2, <1>3 DEF Maintenance

-----------------------------------------------------------------------------
(***************************************************************************)
(* One sender for a row, and one live row for a key.                       *)
(***************************************************************************)

\* A step that claims nothing keeps the claims when the rows of the threads
\* that go on are still in flight.
LEMMA ClaimedKept ==
    ASSUME Claimed,
           \A w \in Workers : Busy(w)' => /\ Busy(w) /\ Row(w)' = Row(w)
                                          /\ InFlight(Row(w)) => InFlight(Row(w))'
    PROVE  Claimed'
  BY DEF Claimed

\* A step that brings no row under the index keeps it.
LEMMA CoveredKept ==
    ASSUME OneCovered, \A n \in Notes : Covered(n)' => Covered(n) /\ note'[n].key = note[n].key
    PROVE  OneCovered'
  BY DEF OneCovered

\* Nobody takes from flight a row that a thread sends.
LEMMA ClaimedBusiness == OutboxInv /\ Business => Claimed'
<1> SUFFICES ASSUME OutboxInv, Business PROVE Claimed'
  OBVIOUS
<1>1. UNCHANGED wk
  BY DEF Business, Retry, Cancel, ShipmentObserver, Raise, Observer, Emit, Replay, CreateEndpoint,
         Subscribe, Unsubscribe, SetEndpointStatus, EndpointOnly, Issue, RevokeKey, ExpireKeys,
         Suspend, KeyOnly, UpdateTemplate
<1>2. ASSUME NEW n \in Notes, note[n].status = "SENDING" PROVE note'[n].status = "SENDING"
  <2>1. ASSUME NEW m \in Notes, Retry(m) \/ Cancel(m) PROVE note'[n].status = "SENDING"
    BY <1>2, <2>1 DEF Retry, RetryNotification, Cancel, CancelNotification, OutboxInv, OutboxRows
  <2>2. ASSUME NEW m \in Notes, NEW k \in DedupeKeys, NEW b \in BOOLEAN, ShipmentObserver(m, k, b)
        PROVE  note'[n].status = "SENDING"
    BY <1>2, <2>2 DEF ShipmentObserver, Raise, Raised, CreateNotification, OutboxInv, OutboxRows
  <2>3. CASE UNCHANGED note BY <1>2, <2>3
  <2>4. QED
    BY <2>1, <2>2, <2>3
    DEF Business, Observer, Emit, Replay, CreateEndpoint, Subscribe, Unsubscribe, SetEndpointStatus,
        EndpointOnly, Issue, RevokeKey, ExpireKeys, Suspend, KeyOnly, UpdateTemplate
<1>3. ASSUME NEW d \in Deliveries, delivery[d].status = "SENDING" PROVE delivery'[d].status = "SENDING"
  <2>1. ASSUME NEW f \in Deliveries, ~Queued(f), NEW e, NEW b, CreateWebhookDelivery(f, e, b)
        PROVE  delivery'[d].status = "SENDING"
    BY <1>3, <2>1 DEF Queued, CreateWebhookDelivery, OutboxInv, OutboxRows
  <2>2. CASE UNCHANGED delivery BY <1>3, <2>2
  <2>3. QED
    BY <2>1, <2>2
    DEF Business, Retry, Cancel, ShipmentObserver, Raise, Observer, Emit, Replay, CreateEndpoint,
        Subscribe, Unsubscribe, SetEndpointStatus, EndpointOnly, Issue, RevokeKey, ExpireKeys,
        Suspend, KeyOnly, UpdateTemplate
<1>4. ASSUME NEW w \in Workers, Busy(w)'
      PROVE  Busy(w) /\ Row(w)' = Row(w) /\ (InFlight(Row(w)) => InFlight(Row(w))')
  <2>1. Busy(w) /\ Row(w)' = Row(w)
    BY <1>1, <1>4 DEF Busy, Row, RowOf
  <2>2. Row(w) \in Notes \cup Deliveries
    BY <2>1, BusyLemma, WorkLemma DEF OutboxInv
  <2>3. QED BY <1>2, <1>3, <2>1, <2>2 DEF InFlight
<1>5. QED BY <1>4, ClaimedKept DEF OutboxInv

LEMMA ClaimedMaintenance == OutboxInv /\ Maintenance => Claimed'
<1> SUFFICES ASSUME OutboxInv, Maintenance PROVE Claimed'
  OBVIOUS
<1>1. ASSUME UNCHANGED <<rows, wk>> PROVE Claimed'
  BY <1>1 DEF rows, OutboxInv, Claimed, Busy, Row, RowOf, InFlight
<1>2. ASSUME NEW r \in Notes \cup Deliveries, ReclaimStuck(r) PROVE Claimed'
  <2>1. ASSUME NEW w \in Workers, Busy(w)'
        PROVE  Busy(w) /\ Row(w)' = Row(w) /\ (InFlight(Row(w)) => InFlight(Row(w))')
    <3>1. Busy(w) /\ Row(w)' = Row(w)
      BY <1>2, <2>1 DEF ReclaimStuck, Busy, Row, RowOf
    <3>2. Row(w) \in Notes \cup Deliveries /\ Row(w) # r
      BY <1>2, <3>1, BusyLemma, WorkLemma DEF OutboxInv, ReclaimStuck, Sending, Row
    <3>3. /\ \A n \in Notes : n # r => note'[n] = note[n]
          /\ \A d \in Deliveries : d # r => delivery'[d] = delivery[d]
      BY <1>2 DEF ReclaimStuck, ReclaimStuckNotifications, ReclaimStuckDeliveries, OutboxInv, OutboxRows
    <3>4. QED BY <3>1, <3>2, <3>3 DEF InFlight
  <2>2. QED BY <2>1, ClaimedKept DEF OutboxInv
<1>3. QED BY <1>1, <1>2 DEF Maintenance, ReclaimJob, SweepDue

LEMMA ClaimedWork ==
    ASSUME OutboxInv, NEW w \in Workers,
           Thread(w) \/ ThreadDies(w) \/ \E j \in JobIds : Deliver(w, j)
    PROVE  Claimed'
<1> USE DEF OutboxInv
<1>1. ASSUME UNCHANGED <<note, delivery>>,
             \A v \in Workers : Busy(v)' => Busy(v) /\ Row(v)' = Row(v)
      PROVE  Claimed'
  BY <1>1, ClaimedKept DEF InFlight
<1>2. ASSUME NEW j \in JobIds, Deliver(w, j) PROVE Claimed'
  <2> DEFINE r == RowOf(j)
  <2>1. r \in Notes \cup Deliveries /\ (r \in Notes => r \notin Deliveries)
    BY RowsAssumption DEF JobIds, NoteJobs, RowOf
  <2>2. CASE IF r \in Notes THEN Claimable(r) ELSE Due(r)
    <3>1. ~InFlight(r)
      BY <2>2 DEF Claimable, Due, InFlight
    <3>2. wk' = [wk EXCEPT ![w] = [op |-> "send", job |-> j]]
      BY <1>2, <2>2 DEF Deliver
    <3>3. /\ IF r \in Notes THEN LockNotificationForSend(r) /\ UNCHANGED delivery
                            ELSE ClaimDeliveryForSend(r) /\ UNCHANGED note
      BY <1>2, <2>2 DEF Deliver
    <3>4. InFlight(r)' /\ \A q \in Notes \cup Deliveries : q # r => (InFlight(q) <=> InFlight(q)')
      <4>1. CASE r \in Notes
        BY <3>3, <4>1 DEF LockNotificationForSend, InFlight, OutboxRows, NoteRow
      <4>2. CASE r \notin Notes
        BY <2>1, <3>3, <4>2 DEF ClaimDeliveryForSend, InFlight, OutboxRows, DeliveryRow
      <4>3. QED BY <4>1, <4>2
    <3>5. Busy(w)' /\ Row(w)' = r
      BY <3>2 DEF Busy, Row, OutboxRows
    <3>6. ASSUME NEW v \in Workers, v # w
          PROVE  (Busy(v)' <=> Busy(v)) /\ Row(v)' = Row(v)
      BY <3>2, <3>6 DEF Busy, Row, RowOf, OutboxRows
    <3>7. ASSUME NEW v \in Workers, Busy(v) PROVE Row(v) \in Notes \cup Deliveries /\ Row(v) # r
      BY <3>1, <3>7, BusyLemma, WorkLemma DEF Claimed
    <3> HIDE DEF r
    <3>8. ASSUME NEW v \in Workers, Busy(v)' PROVE InFlight(Row(v))'
      <4>1. CASE v = w BY <3>4, <3>5, <4>1
      <4>2. CASE v # w
        <5>1. Busy(v) /\ Row(v)' = Row(v) BY <3>6, <3>8, <4>2
        <5>2. InFlight(Row(v)) /\ Row(v) # r /\ Row(v) \in Notes \cup Deliveries
          BY <3>7, <5>1 DEF Claimed
        <5>3. InFlight(Row(v))' <=> InFlight(Row(v))
          BY <3>4, <5>1, <5>2 DEF InFlight
        <5>4. QED BY <5>2, <5>3
      <4>3. QED BY <4>1, <4>2
    <3>9. ASSUME NEW v \in Workers, NEW u \in Workers, Busy(v)', Busy(u)', Row(u)' = Row(v)'
          PROVE  u = v
      <4>1. v # w => Busy(v) /\ Row(v)' = Row(v) /\ Row(v) # r BY <3>6, <3>7, <3>9
      <4>2. u # w => Busy(u) /\ Row(u)' = Row(u) /\ Row(u) # r BY <3>6, <3>7, <3>9
      <4>3. QED BY <3>5, <3>9, <4>1, <4>2 DEF Claimed
    <3>10. QED BY <3>8, <3>9 DEF Claimed
  <2>3. CASE ~ IF r \in Notes THEN Claimable(r) ELSE Due(r)
    <3>1. Finish(w, j, "none") /\ UNCHANGED <<note, delivery>>
      BY <1>2, <2>3 DEF Deliver
    <3>2. QED BY <1>1, <3>1 DEF Finish, Busy, Row, RowOf, NoWork, OutboxRows
  <2>4. QED BY <2>2, <2>3
<1>3. ASSUME NEW o \in {"accepted", "failed", "refused"}, Send(w, o) PROVE Claimed'
  BY <1>1, <1>3 DEF Send, rows, Busy, Row, RowOf, OutboxRows
<1>4. CASE RecordEndpoint(w)
  BY <1>1, <1>4 DEF RecordEndpoint, Finish, Busy, Row, RowOf, NoWork, OutboxRows
<1>5. CASE ThreadDies(w)
  BY <1>1, <1>5 DEF ThreadDies, rows, Finish, Busy, Row, RowOf, NoWork, OutboxRows
<1>6. ASSUME \A v \in Workers : v # w => wk'[v] = wk[v], ~Busy(w)', Busy(w),
             \A n \in Notes : n # Row(w) => note'[n] = note[n],
             \A d \in Deliveries : d # Row(w) => delivery'[d] = delivery[d]
      PROVE  Claimed'
  <2>1. ASSUME NEW v \in Workers, Busy(v)'
        PROVE  Busy(v) /\ Row(v)' = Row(v) /\ (InFlight(Row(v)) => InFlight(Row(v))')
    <3>1. v # w /\ Busy(v) /\ Row(v)' = Row(v)
      BY <1>6, <2>1 DEF Busy, Row, RowOf
    <3>2. Row(v) # Row(w) /\ Row(v) \in Notes \cup Deliveries
      BY <1>6, <3>1, BusyLemma, WorkLemma DEF Claimed
    <3>3. QED BY <1>6, <3>1, <3>2 DEF InFlight
  <2>2. QED BY <2>1, ClaimedKept
<1>7. CASE MarkNote(w)
  <2>1. Busy(w) /\ Row(w) \in Notes BY <1>7 DEF MarkNote, Busy, Row
  <2>2. \A n \in Notes : n # Row(w) => note'[n] = note[n]
    BY <1>7 DEF MarkNote, MarkNotificationSent, MarkNotificationFailed, Row, OutboxRows
  <2>3. wk' = [wk EXCEPT ![w] = NoWork] /\ UNCHANGED delivery
    BY <1>7 DEF MarkNote, Finish
  <2>4. ~Busy(w)' /\ \A v \in Workers : v # w => wk'[v] = wk[v]
    BY <2>3 DEF Busy, NoWork, OutboxRows
  <2>5. QED BY <1>6, <2>1, <2>2, <2>3, <2>4
<1>8. CASE MarkDelivery(w)
  <2>1. Busy(w) BY <1>8 DEF MarkDelivery, Busy
  <2>2. \A d \in Deliveries : d # Row(w) => delivery'[d] = delivery[d]
    BY <1>8 DEF MarkDelivery, MarkDeliverySucceeded, MarkDeliveryFailed, Row, OutboxRows
  <2>3. wk' = [wk EXCEPT ![w] = [wk[w] EXCEPT !.op = IF wk[w].op = "accepted" THEN "success" ELSE "failure"]]
        /\ UNCHANGED note
    BY <1>8 DEF MarkDelivery
  <2>4. wk[w] = [op |-> wk[w].op, job |-> wk[w].job]
    BY <2>1, BusyLemma, WorkLemma
  <2>5. wk'[w].op \in {"success", "failure"}
    BY <2>3, <2>4 DEF OutboxRows
  <2>6. ~Busy(w)' /\ \A v \in Workers : v # w => wk'[v] = wk[v]
    BY <2>3, <2>5 DEF Busy, OutboxRows
  <2>7. QED BY <1>6, <2>1, <2>2, <2>3, <2>6
<1>9. QED BY <1>2, <1>3, <1>4, <1>5, <1>7, <1>8 DEF Thread

\* The index: a row comes under it when no other is, and an answer finds its
\* row in flight.
LEMMA CoveredStep == OutboxInv /\ OutboxNext => OneCovered'
<1> SUFFICES ASSUME OutboxInv, OutboxNext PROVE OneCovered'
  OBVIOUS
<1> USE DEF OutboxInv
<1>1. ASSUME UNCHANGED note PROVE OneCovered'
  BY <1>1 DEF OneCovered, Covered
<1>2. ASSUME NEW n \in Notes,
             \A m \in Notes : m # n => note'[m] = note[m],
             Covered(n) \/ ~Covered(n)', note'[n].key = note[n].key
      PROVE  OneCovered'
  BY <1>2, CoveredKept DEF Covered
<1>3. ASSUME NEW n \in Notes, FindNotificationByDedupe(note'[n].key) = {},
             \A m \in Notes : m # n => note'[m] = note[m]
      PROVE  OneCovered'
  <2>1. ASSUME NEW m \in Notes, m # n, Covered(m) PROVE note[m].key # note'[n].key
    BY <1>3, <2>1 DEF FindNotificationByDedupe, Raised, Covered
  <2>2. QED BY <1>3, <2>1 DEF OneCovered, Covered
<1>4. ASSUME NEW n \in Notes, NEW k \in DedupeKeys, NEW b \in BOOLEAN, ShipmentObserver(n, k, b)
      PROVE  OneCovered'
  <2>1. note'[n].key = k /\ \A m \in Notes : m # n => note'[m] = note[m]
    BY <1>4 DEF ShipmentObserver, Raise, CreateNotification, OutboxRows
  <2>2. QED BY <1>3, <1>4, <2>1 DEF ShipmentObserver, Raise
<1>5. ASSUME NEW n \in Notes, Retry(n) PROVE OneCovered'
  <2>1. note'[n].key = note[n].key /\ \A m \in Notes : m # n => note'[m] = note[m]
    BY <1>5 DEF Retry, RetryNotification, OutboxRows, NoteRow
  <2>2. QED BY <1>3, <1>5, <2>1 DEF Retry, RetryNotification
<1>6. ASSUME NEW n \in Notes, Cancel(n) PROVE OneCovered'
  <2>1. /\ note'[n].key = note[n].key /\ note'[n].status = "CANCELLED"
        /\ \A m \in Notes : m # n => note'[m] = note[m]
    BY <1>6 DEF Cancel, CancelNotification, OutboxRows, NoteRow
  <2>2. QED BY <1>2, <2>1 DEF Covered
<1>7. ASSUME NEW n \in Notes, Claimable(n), LockNotificationForSend(n) PROVE OneCovered'
  <2>1. note'[n].key = note[n].key /\ \A m \in Notes : m # n => note'[m] = note[m]
    BY <1>7 DEF LockNotificationForSend, OutboxRows, NoteRow
  <2>2. QED BY <1>2, <1>7, <2>1 DEF Covered, Claimable
<1>8. ASSUME NEW n \in Notes, note[n].status = "SENDING",
             \/ MarkNotificationSent(n) \/ ReclaimStuckNotifications(n)
             \/ \E b \in BOOLEAN : MarkNotificationFailed(n, b)
      PROVE  OneCovered'
  <2>1. note'[n].key = note[n].key /\ \A m \in Notes : m # n => note'[m] = note[m]
    BY <1>8 DEF MarkNotificationSent, MarkNotificationFailed, ReclaimStuckNotifications, OutboxRows, NoteRow
  <2>2. QED BY <1>2, <1>8, <2>1 DEF Covered
<1>9. ASSUME NEW w \in Workers, MarkNote(w) PROVE OneCovered'
  <2>1. Busy(w) /\ Row(w) \in Notes BY <1>9 DEF MarkNote, Busy, Row
  <2>2. note[Row(w)].status = "SENDING" BY <2>1 DEF Claimed, InFlight
  <2>3. MarkNotificationSent(Row(w)) \/ \E b \in BOOLEAN : MarkNotificationFailed(Row(w), b)
    BY <1>9 DEF MarkNote, Row
  <2>4. QED BY <1>8, <2>1, <2>2, <2>3
<1>10. ASSUME NEW w \in Workers, NEW j \in JobIds, Deliver(w, j) PROVE OneCovered'
  BY <1>1, <1>7, <1>10 DEF Deliver
<1>11. CASE Maintenance
  BY <1>1, <1>8, <1>11 DEF Maintenance, ReclaimJob, rows, SweepDue, ReclaimStuck, ReclaimStuckNotifications
<1>12. CASE Business
  BY <1>1, <1>4, <1>5, <1>6, <1>12
  DEF Business, Observer, Emit, Replay, CreateEndpoint, Subscribe, Unsubscribe, SetEndpointStatus,
      EndpointOnly, Issue, RevokeKey, ExpireKeys, Suspend, KeyOnly, UpdateTemplate
<1>13. ASSUME NEW w \in Workers, Thread(w) \/ ThreadDies(w) PROVE OneCovered'
  BY <1>1, <1>9, <1>13 DEF Thread, Send, rows, MarkDelivery, RecordEndpoint, ThreadDies
<1>14. QED BY <1>10, <1>11, <1>12, <1>13 DEF OutboxNext

-----------------------------------------------------------------------------
\* The inductive invariant of the outbox.
LEMMA OutboxInvariant == OutboxSpec => []OutboxInv
<1>1. OutboxInit => OutboxInv
  BY OutboxRowsInit DEF OutboxInit, NoteInit, OutboxInv, Claimed, Busy, NoWork, OneCovered, Covered
<1>2. OutboxInv /\ [OutboxNext]_outboxVars => OutboxInv'
  <2> SUFFICES ASSUME OutboxInv, [OutboxNext]_outboxVars PROVE OutboxInv'
    OBVIOUS
  <2>1. CASE Business
    BY <2>1, OutboxRowsBusiness, ClaimedBusiness, CoveredStep DEF OutboxInv, OutboxNext
  <2>2. CASE Maintenance
    BY <2>2, OutboxRowsMaintenance, ClaimedMaintenance, CoveredStep DEF OutboxInv, OutboxNext
  <2>3. ASSUME NEW w \in Workers, Thread(w) \/ ThreadDies(w) \/ \E j \in JobIds : Deliver(w, j)
        PROVE  OutboxInv'
    BY <2>3, OutboxRowsWork, ClaimedWork, CoveredStep DEF OutboxInv, OutboxNext
  <2>4. CASE UNCHANGED outboxVars
    BY <2>4 DEF outboxVars, OutboxInv, OutboxRows, Claimed, Busy, Row, RowOf, InFlight, OneCovered, Covered
  <2>5. QED BY <2>1, <2>2, <2>3, <2>4 DEF OutboxNext
<1>3. QED BY <1>1, <1>2, PTL DEF OutboxSpec

\* The outbox writes only values of their types, and no notification is tried
\* more often than its budget allows.
THEOREM OutboxTypeCorrect == OutboxSpec => []OutboxTypeOK
<1>1. OutboxInv => OutboxTypeOK
  BY DEF OutboxInv, OutboxRows, OutboxTypeOK, DeliveryRow
<1>2. QED BY <1>1, OutboxInvariant, PTL

\* Whatever the jobs of a row, the deaths of threads and the operators' retries:
\* a row has one sender, and an event is told to its recipient once.
THEOREM ToldByOneCorrect == OutboxSpec => []ToldByOne
<1>1. OutboxInv => OneSender
  <2> SUFFICES ASSUME OutboxInv PROVE OneSender
    OBVIOUS
  <2>1. ASSUME NEW w \in Workers, NEW r \in Notes \cup Deliveries, Sending(w, r)
        PROVE  r = Row(w)
    BY <2>1 DEF Sending, Row
  <2>2. QED BY <2>1 DEF OneSender, OutboxInv, Claimed, InFlight, Busy
<1>2. OutboxInv => ToldOnce
  BY DEF OutboxInv, OneCovered, Covered, ToldOnce
<1>3. QED BY <1>1, <1>2, OutboxInvariant, PTL DEF ToldByOne

-----------------------------------------------------------------------------
(***************************************************************************)
(* Sign-in sessions: the types, and that a login never has two live        *)
(* sessions.                                                               *)
(***************************************************************************)

USE DEF Ids, Idle, NoSession, Becomes, Done, DropChain, DropUser

-----------------------------------------------------------------------------
(***************************************************************************)
(* The inductive invariant.                                                *)
(***************************************************************************)
LinkRow == [user : Users \cup {NoUser}, used : BOOLEAN]
SessionRow == [user : Users \cup {NoUser}, chain : 0 .. MaxSessions, revoked : Reasons \cup {None}]

\* What a request may have to do next.
Drop == [op : {"drop"}, chain : 0 .. MaxSessions, user : Users \cup {NoUser}, own : Ids \cup {0}]
Request ==
    {Idle} \cup [op : {"rehash", "login", "opened", "deactivate"}, user : Users]
           \cup [op : {"rotate", "rotated", "forget", "fill"}, s : Ids]
           \cup Drop \cup [op : {"revoking"}, found : SUBSET Ids, then : Drop]

Rows ==
    /\ user \in [Users -> UserRow]
    /\ link \in [Links -> LinkRow]
    /\ sess \in [Ids -> SessionRow]
    /\ cache \subseteq Ids
    /\ thr \in [Threads -> Request]

\* Ids are given in order.
InOrder == \A s \in Ids : Opened(s) => \A r \in 1 .. (s - 1) : Opened(r)

\* A chain is named after its first session and belongs to one user.
Chains == \A s \in Ids : Opened(s) => /\ sess[s].chain \in 1 .. s
                                      /\ sess[sess[s].chain].user = sess[s].user

\* A row that a rotation holds is live, and one rotation holds it.
HeldByOne ==
    \A t \in Threads : thr[t].op = "rotated" =>
        /\ Live(thr[t].s)
        /\ \A v \in Threads : thr[v].op = "rotated" /\ thr[v].s = thr[t].s => v = t

Inv == Rows /\ InOrder /\ Chains /\ HeldByOne /\ OneLivePerChain

-----------------------------------------------------------------------------
(***************************************************************************)
(* The rows.                                                               *)
(***************************************************************************)

\* What a request in progress carries.
LEMMA RequestLemma ==
    ASSUME NEW r \in Request
    PROVE  /\ r.op \in {"rehash", "login", "opened", "deactivate"} => r.user \in Users
           /\ r.op = "drop" => r.own \in Ids \cup {0}
           /\ r.op \in {"rotate", "rotated", "forget", "fill"} => r.s \in Ids
           /\ r.op = "revoking" => r.found \subseteq Ids /\ r.then \in Drop
  BY DEF Request, Drop

\* The requests the operations leave behind.
LEMMA NextRequests ==
    /\ Idle \in Request /\ Idle.op = "idle"
    /\ \A u \in Users, o \in {"rehash", "login", "opened", "deactivate"} :
          [op |-> o, user |-> u] \in Request
    /\ \A s \in Ids, o \in {"rotate", "rotated", "forget", "fill"} : [op |-> o, s |-> s] \in Request
    /\ \A d \in Drop : d \in Request /\ d.op = "drop"
    /\ \A c \in 0 .. MaxSessions, own \in Ids \cup {0} : DropChain(c, own) \in Drop
    /\ \A u \in Users \cup {NoUser} : DropUser(u) \in Drop
  BY SessionsAssumption DEF Request, Drop

LEMMA RevokingLemma ==
    ASSUME NEW S \in SUBSET Ids, NEW d \in Drop
    PROVE  Revoking(S, d) \in Request /\ Revoking(S, d).op = "revoking"
<1>1. {s \in S : Live(s)} \in SUBSET Ids
  OBVIOUS
<1>2. QED BY <1>1 DEF Revoking, Request

\* The statements on users keep their rows well formed.
LEMMA UserLemma ==
    ASSUME user \in [Users -> UserRow], NEW u \in Users,
           \/ RecordLoginFailure(u) \/ RecordLoginSuccess(u) \/ UpdateUserPassword(u)
           \/ SetUserStatus(u, "ACTIVE") \/ SetUserStatus(u, "INACTIVE")
           \/ LockEnds(u) \/ UnlockExpiredUserLocks(u) \/ AssignUserRole(u) \/ RevokeUserRole(u)
    PROVE  user' \in [Users -> UserRow]
<1>1. /\ user[u] \in UserRow /\ MaxFailures \in 0 .. MaxFailures /\ 0 \in 0 .. MaxFailures
      /\ user[u].fails + 1 < MaxFailures => user[u].fails + 1 \in 0 .. MaxFailures
  BY UsersAssumption DEF UserRow
<1>2. CASE RecordLoginFailure(u)
  <2> DEFINE over == user[u].fails + 1 >= MaxFailures
             n == IF over THEN MaxFailures ELSE user[u].fails + 1
             e == IF over THEN "future" ELSE user[u].until
             st == IF over /\ user[u].status = "ACTIVE" THEN "LOCKED" ELSE user[u].status
  <2>1. n \in 0 .. MaxFailures /\ e \in Untils /\ st \in UserStatuses
    BY <1>1, UsersAssumption DEF UserRow, UserStatuses, Untils
  <2>2. user' = [user EXCEPT ![u].fails = n, ![u].until = e, ![u].status = st]
    BY <1>2 DEF RecordLoginFailure
  <2> HIDE DEF over, n, e, st
  <2>3. QED BY <1>1, <2>1, <2>2 DEF UserRow
<1>3. CASE RecordLoginSuccess(u)
  BY <1>1, <1>3 DEF RecordLoginSuccess, UserRow, UserStatuses, Untils
<1>4. CASE UpdateUserPassword(u)
  BY <1>1, <1>4 DEF UpdateUserPassword, UserRow, UserStatuses, Untils
<1>5. CASE SetUserStatus(u, "ACTIVE") \/ SetUserStatus(u, "INACTIVE")
  BY <1>1, <1>5 DEF SetUserStatus, UserRow, UserStatuses, Untils
<1>6. CASE LockEnds(u) \/ UnlockExpiredUserLocks(u)
  BY <1>1, <1>6 DEF LockEnds, UnlockExpiredUserLocks, UserRow, UserStatuses, Untils
<1>7. CASE AssignUserRole(u) \/ RevokeUserRole(u)
  <2>1. [user[u] EXCEPT !.admin = TRUE] \in UserRow /\ [user[u] EXCEPT !.admin = FALSE] \in UserRow
    BY <1>1 DEF UserRow
  <2>2. \/ user' = [user EXCEPT ![u] = [user[u] EXCEPT !.admin = TRUE]]
        \/ user' = [user EXCEPT ![u] = [user[u] EXCEPT !.admin = FALSE]]
    BY <1>7 DEF AssignUserRole, RevokeUserRole
  <2>3. QED BY <2>1, <2>2
<1>8. QED BY <1>2, <1>3, <1>4, <1>5, <1>6, <1>7

LEMMA LinkLemma ==
    ASSUME link \in [Links -> LinkRow], NEW u \in Users, NEW l \in Links
    PROVE  /\ InvalidateUserResetTokens(OpenLinks(u)) \in [Links -> LinkRow]
           /\ CreatePasswordResetToken(InvalidateUserResetTokens(OpenLinks(u)), l, u)
                \in [Links -> LinkRow]
           /\ [link EXCEPT ![l].used = TRUE] \in [Links -> LinkRow]
<1>1. InvalidateUserResetTokens(OpenLinks(u)) \in [Links -> LinkRow]
  BY DEF InvalidateUserResetTokens, LinkRow
<1>2. QED BY <1>1 DEF CreatePasswordResetToken, LinkRow

-----------------------------------------------------------------------------
(***************************************************************************)
(* The statements on sessions.                                             *)
(***************************************************************************)

\* The next id is above every open session's.
LEMMA NewSessionLemma ==
    ASSUME Rows, InOrder, NEW s \in Ids, NewSession(s), NEW r \in Ids, Opened(r)
    PROVE  r < s
  BY SessionsAssumption DEF InOrder, NewSession

\* A revocation of several sessions ends the ones that are live and found.
LEMMA RevokeLemma ==
    ASSUME Inv, NEW t \in Threads, Revoke(t)
    PROVE  /\ sess' \in [Ids -> SessionRow]
           /\ \A s \in Ids : /\ sess'[s].user = sess[s].user /\ sess'[s].chain = sess[s].chain
                             /\ sess'[s].revoked \in {sess[s].revoked, "ENDED"}
                             /\ s \notin thr[t].found => sess'[s] = sess[s]
                             /\ ~Live(s) => sess'[s] = sess[s]
  BY DEF Inv, Rows, Revoke, RevokeFound, SessionRow, Reasons

\* openSession adds a session that is a chain of its own.
LEMMA OpenLemma ==
    ASSUME Inv, NEW t \in Threads, NEW n \in Ids, openSession(t, n)
    PROVE  /\ sess' \in [Ids -> SessionRow]
           /\ thr[t].user \in Users
           /\ sess'[n].user \in Users /\ sess'[n].chain = n
           /\ \A s \in Ids : s # n => sess'[s] = sess[s]
<1>1. thr[t].user \in Users
  BY RequestLemma DEF Inv, Rows, openSession
<1>2. QED BY <1>1, SessionsAssumption DEF Inv, Rows, openSession, CreateSession, SessionRow

\* A rotation revokes the parent and adds a live session to its chain.
LEMMA RotateLemma ==
    ASSUME Inv, NEW t \in Threads, NEW n \in Ids, CommitRotation(t, n)
    PROVE  /\ thr[t].s \in Ids /\ Live(thr[t].s) /\ thr[t].s < n
           /\ sess' \in [Ids -> SessionRow]
           /\ sess'[n].user = sess[thr[t].s].user /\ sess'[n].chain = sess[thr[t].s].chain
           /\ sess'[thr[t].s].user = sess[thr[t].s].user
           /\ sess'[thr[t].s].chain = sess[thr[t].s].chain
           /\ sess'[thr[t].s].revoked = "ROTATED"
           /\ \A s \in Ids : s # n /\ s # thr[t].s => sess'[s] = sess[s]
<1> DEFINE p == thr[t].s
<1>1. p \in Ids /\ Live(p)
  BY RequestLemma DEF Inv, Rows, HeldByOne, CommitRotation
<1>2. p < n
  BY <1>1, NewSessionLemma DEF Inv, Live, CommitRotation
<1>3. /\ sess[p] \in SessionRow
      /\ [sess[p] EXCEPT !.revoked = "ROTATED"] \in SessionRow
      /\ [user |-> sess[p].user, chain |-> sess[p].chain, revoked |-> None] \in SessionRow
  BY <1>1 DEF Inv, Rows, SessionRow, Reasons
<1>4. sess' = [[sess EXCEPT ![p] = [sess[p] EXCEPT !.revoked = "ROTATED"]] EXCEPT
                 ![n] = [user |-> sess[p].user, chain |-> sess[p].chain, revoked |-> None]]
  BY <1>1 DEF CommitRotation, CreateSession, RevokeSession, Inv, Rows
<1> HIDE DEF p
<1>5. sess' \in [Ids -> SessionRow]
  BY <1>1, <1>3, <1>4 DEF Inv, Rows
<1>6. /\ sess'[n].user = sess[p].user /\ sess'[n].chain = sess[p].chain
      /\ sess'[p].user = sess[p].user /\ sess'[p].chain = sess[p].chain
      /\ sess'[p].revoked = "ROTATED"
  BY <1>1, <1>2, <1>3, <1>4 DEF Inv, Rows, SessionRow
<1>7. \A s \in Ids : s # n /\ s # p => sess'[s] = sess[s]
  BY <1>4 DEF Inv, Rows
<1>8. QED BY <1>1, <1>2, <1>5, <1>6, <1>7 DEF p

-----------------------------------------------------------------------------
(***************************************************************************)
(* Every step keeps the rows.                                              *)
(***************************************************************************)

LEMMA RowsInit ==
    ASSUME SessionsInit
    PROVE  Rows
<1>1. user \in [Users -> UserRow] /\ link \in [Links -> LinkRow]
  <2>1. /\ [status |-> "ACTIVE", fails |-> 0, until |-> "null", admin |-> TRUE] \in UserRow
        /\ [user |-> NoUser, used |-> FALSE] \in LinkRow
    BY UsersAssumption DEF UserRow, UserStatuses, Untils, LinkRow
  <2>2. QED BY <2>1 DEF SessionsInit, UsersInit
<1>2. sess \in [Ids -> SessionRow] /\ cache \subseteq Ids
  BY SessionsAssumption DEF SessionsInit, SessionRow
<1>3. QED BY <1>1, <1>2, NextRequests DEF SessionsInit, Rows

\* An open session's chain can be the subject of a drop.
LEMMA DropLemma ==
    ASSUME Inv, NEW s \in Ids, Opened(s)
    PROVE  /\ \A own \in Ids \cup {0} : DropChain(sess[s].chain, own) \in Drop
           /\ sess[s].user \in Users
           /\ Chain(sess[s].chain) \subseteq Ids /\ OfUser(sess[s].user) \subseteq Ids
<1>1. sess[s].chain \in 0 .. MaxSessions /\ sess[s].user \in Users
  BY DEF Inv, Rows, SessionRow, Opened
<1>2. QED BY <1>1, NextRequests DEF Chain, OfUser

LEMMA RowsStart ==
    ASSUME Inv, NEW t \in Threads, Start(t)
    PROVE  /\ Rows' /\ sess' = sess /\ cache' = cache
           /\ \/ thr' = thr
              \/ \E r \in Request : /\ thr' = [thr EXCEPT ![t] = r]
                                    /\ r.op # "rotated"
<1> DEFINE Goal(r) == /\ r \in Request /\ r.op # "rotated" /\ thr' = [thr EXCEPT ![t] = r]
<1>1. ASSUME NEW u \in Users, LoginFails(t, u)
      PROVE  Rows' /\ sess' = sess /\ cache' = cache /\ thr' = thr
  BY <1>1, UserLemma DEF LoginFails, Inv, Rows
<1>2. ASSUME NEW u \in Users, \/ Login(t, u) \/ CheckDeactivation(t, u)
      PROVE  user' = user /\ link' = link /\ sess' = sess /\ cache' = cache /\ \E r : Goal(r)
  <2>2. PICK o \in {"rehash", "login", "deactivate"} :
            thr' = [thr EXCEPT ![t] = [op |-> o, user |-> u]]
    BY <1>2 DEF Login, CheckDeactivation
  <2>3. Goal([op |-> o, user |-> u])
    BY <2>2, NextRequests
  <2>4. QED BY <1>2, <2>3 DEF Login, CheckDeactivation
<1>3. ASSUME NEW u \in Users, \/ ChangePassword(t, u) \/ RevokeSessions(t, u)
                              \/ Activate(t, u) \/ ChangeRole(t, u)
      PROVE  /\ user' \in [Users -> UserRow] /\ link' \in [Links -> LinkRow]
             /\ sess' = sess /\ cache' = cache /\ \E r : Goal(r)
  <2>1. user' \in [Users -> UserRow]
    BY <1>3, UserLemma DEF ChangePassword, RevokeSessions, Activate, ChangeRole, Inv, Rows
  <2>2. link' \in [Links -> LinkRow]
    <3>1. link' \in {link, InvalidateUserResetTokens(OpenLinks(u))}
      BY <1>3 DEF ChangePassword, RevokeSessions, Activate, ChangeRole
    <3>2. InvalidateUserResetTokens(OpenLinks(u)) \in [Links -> LinkRow]
      BY DEF InvalidateUserResetTokens, LinkRow, Inv, Rows
    <3>3. QED BY <3>1, <3>2 DEF Inv, Rows
  <2>3. DropUser(u) \in Drop /\ OfUser(u) \subseteq Ids
    BY NextRequests DEF OfUser
  <2>4. \/ thr' = [thr EXCEPT ![t] = Revoking(OfUser(u), DropUser(u))]
        \/ thr' = [thr EXCEPT ![t] = DropUser(u)]
    BY <1>3 DEF ChangePassword, RevokeSessions, Activate, ChangeRole
  <2>5. Goal(Revoking(OfUser(u), DropUser(u))) \/ Goal(DropUser(u))
    BY <2>3, <2>4, RevokingLemma, NextRequests
  <2>6. QED BY <1>3, <2>1, <2>2, <2>5 DEF ChangePassword, RevokeSessions, Activate, ChangeRole
<1>4. ASSUME NEW s \in Ids, Refresh(t, s)
      PROVE  user' = user /\ link' = link /\ sess' = sess /\ cache' = cache /\ \E r : Goal(r)
  <2>1. Opened(s) BY <1>4 DEF Refresh
  <2>2. \/ thr' = [thr EXCEPT ![t] = Revoking(Chain(sess[s].chain), DropChain(sess[s].chain, 0))]
        \/ thr' = [thr EXCEPT ![t] = [op |-> "rotate", s |-> s]]
    BY <1>4 DEF Refresh
  <2>3. \/ Goal(Revoking(Chain(sess[s].chain), DropChain(sess[s].chain, 0)))
        \/ Goal([op |-> "rotate", s |-> s])
    BY <2>1, <2>2, DropLemma, RevokingLemma, NextRequests
  <2>4. QED BY <1>4, <2>3 DEF Refresh
<1>5. ASSUME NEW s \in Ids, NEW all \in BOOLEAN, NEW k \in Ids \cup {0}, Logout(t, s, all, k)
      PROVE  user' = user /\ link' = link /\ sess' = sess /\ cache' = cache /\ \E r : Goal(r)
  <2>1. Opened(s)
    BY <1>5 DEF Logout
  <2>2. \E S \in SUBSET Ids, d \in Drop : thr' = [thr EXCEPT ![t] = Revoking(S, d)]
    <3>1. CASE all
      <4>1. DropChain(0, s) \in Drop /\ OfUser(sess[s].user) \in SUBSET Ids
        BY NextRequests, SessionsAssumption DEF OfUser
      <4>2. thr' = [thr EXCEPT ![t] = Revoking(OfUser(sess[s].user), DropChain(0, s))]
        BY <1>5, <3>1 DEF Logout
      <4>3. QED BY <4>1, <4>2
    <3>2. CASE ~all /\ k # 0
      <4>1. k \in Ids /\ Opened(k) BY <1>5, <3>2 DEF Logout
      <4>2. DropChain(sess[k].chain, s) \in Drop /\ Chain(sess[k].chain) \in SUBSET Ids
        BY <4>1, DropLemma
      <4>3. thr' = [thr EXCEPT ![t] = Revoking(Chain(sess[k].chain), DropChain(sess[k].chain, s))]
        BY <1>5, <3>2 DEF Logout
      <4>4. QED BY <4>2, <4>3
    <3>3. CASE ~all /\ k = 0
      <4>1. DropChain(sess[s].chain, 0) \in Drop /\ {s} \in SUBSET Ids
        BY <2>1, DropLemma
      <4>2. thr' = [thr EXCEPT ![t] = Revoking({s}, DropChain(sess[s].chain, 0))]
        BY <1>5, <3>3 DEF Logout, RevokingOwn
      <4>3. QED BY <4>1, <4>2
    <3>4. QED BY <3>1, <3>2, <3>3
  <2>3. PICK S \in SUBSET Ids, d \in Drop : thr' = [thr EXCEPT ![t] = Revoking(S, d)]
    BY <2>2
  <2>4. Goal(Revoking(S, d))
    BY <2>3, RevokingLemma
  <2>5. QED BY <1>5, <2>4 DEF Logout
<1>6. ASSUME NEW s \in Ids, ResolveReads(t, s)
      PROVE  user' = user /\ link' = link /\ sess' = sess /\ cache' = cache /\ \E r : Goal(r)
  <2>1. Goal([op |-> "fill", s |-> s])
    BY <1>6, NextRequests DEF ResolveReads
  <2>2. QED BY <1>6, <2>1 DEF ResolveReads
<1>7. ASSUME NEW l \in Links, ResetPassword(t, l)
      PROVE  /\ user' \in [Users -> UserRow] /\ link' \in [Links -> LinkRow]
             /\ sess' = sess /\ cache' = cache /\ \E r : Goal(r)
  <2> DEFINE u == link[l].user
  <2>1. u \in Users
    BY <1>7 DEF ResetPassword, ConsumePasswordResetToken, Inv, Rows, LinkRow
  <2>2. user' \in [Users -> UserRow]
    BY <1>7, <2>1, UserLemma DEF ResetPassword, Inv, Rows
  <2>3. link' \in [Links -> LinkRow]
    BY <1>7, <2>1, LinkLemma DEF ResetPassword, Inv, Rows
  <2>4. DropUser(u) \in Drop /\ OfUser(u) \subseteq Ids
    BY <2>1, NextRequests DEF OfUser
  <2>5. Goal(Revoking(OfUser(u), DropUser(u)))
    BY <1>7, <2>4, RevokingLemma DEF ResetPassword
  <2>6. QED BY <1>7, <2>2, <2>3, <2>5 DEF ResetPassword
<1>8. ASSUME /\ user' \in [Users -> UserRow] /\ link' \in [Links -> LinkRow]
             /\ sess' = sess /\ cache' = cache /\ \E r : Goal(r)
      PROVE  /\ Rows'
             /\ \E r \in Request : /\ thr' = [thr EXCEPT ![t] = r]
                                   /\ r.op # "rotated"
  BY <1>8 DEF Inv, Rows
<1>9. QED BY <1>1, <1>2, <1>3, <1>4, <1>5, <1>6, <1>7, <1>8 DEF Start, Inv, Rows

\* After a drop the request is over, or ends the caller's own session.
LEMMA DropStep ==
    ASSUME Inv, NEW t \in Threads, dropSessionCache(t)
    PROVE  \E r \in Request : thr' = [thr EXCEPT ![t] = r] /\ r.op # "rotated"
<1>1. thr[t].own \in Ids \cup {0}
  BY RequestLemma DEF dropSessionCache, Inv, Rows
<1>2. CASE thr[t].own = 0
  BY <1>2, NextRequests DEF dropSessionCache
<1>3. CASE thr[t].own # 0
  <2> DEFINE s == thr[t].own
  <2>1. s \in Ids /\ sess[s].chain \in 0 .. MaxSessions
    BY <1>1, <1>3 DEF Inv, Rows, SessionRow
  <2>2. DropChain(sess[s].chain, 0) \in Drop /\ {s} \in SUBSET Ids
    BY <2>1, NextRequests
  <2>3. Revoking({s}, DropChain(sess[s].chain, 0)) \in Request
        /\ Revoking({s}, DropChain(sess[s].chain, 0)).op = "revoking"
    BY <2>2, RevokingLemma
  <2>4. QED BY <1>3, <2>3 DEF dropSessionCache, RevokingOwn
<1>4. QED BY <1>2, <1>3

LEMMA RowsContinue ==
    ASSUME Inv, NEW t \in Threads, Continue(t)
    PROVE  Rows'
<1>1. thr[t] \in Request
  BY DEF Inv, Rows
<1>2. CASE Revoke(t)
  <2>1. thr[t].then \in Request
    BY <1>1, <1>2, RequestLemma, NextRequests DEF Revoke
  <2>2. QED BY <1>2, <2>1, RevokeLemma DEF Revoke, Inv, Rows
<1>3. CASE invalidateSessionCache(t)
  BY <1>3, NextRequests DEF invalidateSessionCache, Inv, Rows
<1>d. CASE dropSessionCache(t)
  <2>1. PICK r \in Request : thr' = [thr EXCEPT ![t] = r]
    BY <1>d, DropStep
  <2>2. QED BY <1>d, <2>1 DEF dropSessionCache, Inv, Rows
<1>u. CASE Rehash(t) \/ RecordLogin(t)
  <2>1. thr[t].user \in Users
    BY <1>1, <1>u, RequestLemma DEF Rehash, RecordLogin
  <2>2. user' \in [Users -> UserRow]
    BY <1>u, <2>1, UserLemma DEF Rehash, RecordLogin, Inv, Rows
  <2>3. \E r \in Request : thr' = [thr EXCEPT ![t] = r]
    BY <1>u, <2>1, NextRequests DEF Rehash, RecordLogin
  <2>4. QED BY <1>u, <2>2, <2>3 DEF Rehash, RecordLogin, Inv, Rows
<1>4. CASE Rotate(t)
  <2>1. thr[t].s \in Ids
    BY <1>1, <1>4, RequestLemma DEF Rotate
  <2>2. QED BY <1>4, <2>1, NextRequests DEF Rotate, Inv, Rows
<1>5. CASE Deactivate(t)
  <2>1. thr[t].user \in Users
    BY <1>1, <1>5, RequestLemma DEF Deactivate
  <2>2. /\ DropUser(thr[t].user) \in Drop /\ OfUser(thr[t].user) \subseteq Ids
    BY <2>1, NextRequests DEF OfUser
  <2>3. Revoking(OfUser(thr[t].user), DropUser(thr[t].user)) \in Request
    BY <2>2, RevokingLemma
  <2>4. user' \in [Users -> UserRow]
    BY <1>5, <2>1, UserLemma DEF Deactivate, Inv, Rows
  <2>5. QED BY <1>5, <2>3, <2>4 DEF Deactivate, Inv, Rows
<1>6. CASE SetJSON(t)
  <2>1. thr[t].s \in Ids
    BY <1>1, <1>6, RequestLemma DEF SetJSON
  <2>2. QED BY <1>6, <2>1, NextRequests DEF SetJSON, Inv, Rows
<1>7. ASSUME NEW n \in Ids, openSession(t, n)
      PROVE  Rows'
  <2>1. [op |-> "opened", user |-> thr[t].user] \in Request
    BY <1>7, OpenLemma, NextRequests
  <2>2. QED BY <1>7, <2>1, OpenLemma DEF openSession, Inv, Rows
<1>8. ASSUME NEW n \in Ids, CommitRotation(t, n)
      PROVE  Rows'
  <2>1. thr[t].s \in Ids /\ sess' \in [Ids -> SessionRow]
    BY <1>8, RotateLemma
  <2>2. [op |-> "forget", s |-> thr[t].s] \in Request
    BY <2>1, NextRequests
  <2>3. QED BY <1>8, <2>1, <2>2 DEF CommitRotation, Inv, Rows
<1>9. QED BY <1>2, <1>3, <1>d, <1>u, <1>4, <1>5, <1>6, <1>7, <1>8 DEF Continue

-----------------------------------------------------------------------------
(***************************************************************************)
(* Every step keeps the invariant.                                         *)
(***************************************************************************)

LEMMA SessionsInvInit ==
    ASSUME SessionsInit
    PROVE  Inv
<1>1. \A s \in Ids : ~Opened(s)
  BY DEF SessionsInit, Opened
<1>2. QED BY <1>1, RowsInit DEF SessionsInit, Inv, InOrder, Chains, HeldByOne, OneLivePerChain, Live

\* A step that writes no session keeps it, if the row it takes is live and free.
LEMMA SameSessions ==
    ASSUME Inv, Rows', sess' = sess, NEW t \in Threads, NEW r, thr' = [thr EXCEPT ![t] = r],
           r.op = "rotated" => Live(r.s) /\ ~Held(r.s)
    PROVE  Inv'
<1>1. InOrder' /\ Chains' /\ OneLivePerChain'
  BY DEF Inv, InOrder, Chains, OneLivePerChain, Opened, Live
<1>2. HeldByOne'
  BY DEF Inv, Rows, HeldByOne, Held, Live, Opened
<1>3. QED BY <1>1, <1>2 DEF Inv

LEMMA InvRevoke ==
    ASSUME Inv, NEW t \in Threads, Revoke(t)
    PROVE  Inv'
<1>1. Rows'
  BY RowsContinue DEF Continue
<1>2. \A s \in Ids : /\ Opened(s)' <=> Opened(s)
                     /\ Live(s)' => Live(s)
                     /\ sess'[s].chain = sess[s].chain /\ sess'[s].user = sess[s].user
                     /\ s \notin thr[t].found => sess'[s] = sess[s]
  BY RevokeLemma, SessionsAssumption DEF Opened, Live, Reasons, Inv, Rows, SessionRow
<1>3. InOrder' /\ OneLivePerChain'
  BY <1>2, SessionsAssumption DEF Inv, InOrder, OneLivePerChain
<1>4. Chains'
  BY <1>2, SessionsAssumption DEF Inv, Chains
<1>5. HeldByOne'
  <2>1. thr[t].then.op = "drop"
    BY RequestLemma, NextRequests DEF Inv, Rows, Revoke
  <2>2. ASSUME NEW v \in Threads, thr'[v].op = "rotated"
        PROVE  v # t /\ thr'[v] = thr[v] /\ thr[v].s \in Ids /\ thr[v].s \notin thr[t].found
    BY <2>1, <2>2, RequestLemma DEF Inv, Rows, Revoke, Held
  <2>3. QED BY <1>2, <2>2 DEF Inv, HeldByOne, Live, Opened
<1>6. QED BY <1>1, <1>3, <1>4, <1>5 DEF Inv

LEMMA InvOpen ==
    ASSUME Inv, NEW t \in Threads, NEW n \in Ids, openSession(t, n)
    PROVE  Inv'
<1>1. Rows'
  BY RowsContinue DEF Continue
<1>2. /\ ~Opened(n) /\ \A r \in 1 .. (n - 1) : Opened(r)
      /\ \A r \in Ids : Opened(r) => r < n
  BY NewSessionLemma DEF openSession, NewSession, Inv
<1>3. \A s \in Ids : s # n => /\ sess'[s] = sess[s] /\ (Opened(s)' <=> Opened(s))
                             /\ (Live(s)' <=> Live(s))
  BY OpenLemma DEF Opened, Live
<1>4. Opened(n)' /\ sess'[n].chain = n
  <2>1. sess'[n].user \in Users /\ sess'[n].chain = n
    BY OpenLemma
  <2>2. QED BY <2>1, UsersAssumption DEF Opened
<1>5. InOrder'
  BY <1>2, <1>3, <1>4, SessionsAssumption DEF Inv, InOrder
<1>6. Chains'
  BY <1>2, <1>3, <1>4, SessionsAssumption DEF Inv, Chains
<1>7. OneLivePerChain'
  <2>1. \A s \in Ids : s # n /\ Live(s)' => sess'[s].chain < n
    BY <1>2, <1>3, SessionsAssumption DEF Live, Inv, Chains
  <2>2. QED BY <1>3, <1>4, <2>1, SessionsAssumption DEF Inv, OneLivePerChain
<1>8. HeldByOne'
  <2>1. ASSUME NEW v \in Threads, thr'[v].op = "rotated"
        PROVE  v # t /\ thr'[v] = thr[v] /\ thr[v].s \in Ids /\ thr[v].s # n
    BY <1>2, <2>1, RequestLemma DEF Inv, Rows, openSession, HeldByOne, Live
  <2>2. QED BY <1>3, <2>1 DEF Inv, HeldByOne
<1>9. QED BY <1>1, <1>5, <1>6, <1>7, <1>8 DEF Inv

LEMMA InvRotate ==
    ASSUME Inv, NEW t \in Threads, NEW n \in Ids, CommitRotation(t, n)
    PROVE  Inv'
<1>0. PICK p \in Ids : p = thr[t].s
  BY RotateLemma
<1>1. Rows'
  BY RowsContinue DEF Continue
<1>2. /\ ~Opened(n) /\ \A r \in 1 .. (n - 1) : Opened(r)
      /\ \A r \in Ids : Opened(r) => r < n
  BY NewSessionLemma DEF CommitRotation, NewSession, Inv
<1>3. \A s \in Ids : s # n /\ s # p =>
          sess'[s] = sess[s] /\ (Opened(s)' <=> Opened(s)) /\ (Live(s)' <=> Live(s))
  BY <1>0, RotateLemma DEF Opened, Live
<1>4. /\ p \in Ids /\ p # n /\ Live(p) /\ Opened(p)' /\ ~Live(p)'
      /\ sess'[p].chain = sess[p].chain /\ sess'[p].user = sess[p].user
  <2>1. p \in Ids /\ p # n /\ Live(p) /\ sess[p] \in SessionRow
    BY <1>0, RotateLemma DEF Inv, Rows
  <2>2. sess'[p].chain = sess[p].chain /\ sess'[p].user = sess[p].user /\ sess'[p].revoked # None
    BY <1>0, RotateLemma, SessionsAssumption DEF Reasons
  <2>3. QED BY <2>1, <2>2 DEF Opened, Live
<1>5. /\ Opened(n)' /\ sess'[n].chain = sess[p].chain /\ sess'[n].user = sess[p].user
  <2>1. sess'[n].chain = sess[p].chain /\ sess'[n].user = sess[p].user
    BY <1>0, RotateLemma
  <2>2. QED BY <1>4, <2>1 DEF Opened, Live
<1>6. Opened(p) /\ sess[p].chain \in 1 .. p /\ sess[sess[p].chain].user = sess[p].user /\ p < n
  BY <1>2, <1>4 DEF Live, Inv, Chains
<1>7. InOrder'
  <2>1. \A r \in Ids : Opened(r)' <=> r = n \/ Opened(r)
    BY <1>3, <1>4, <1>5, <1>6
  <2>2. ASSUME NEW s \in Ids, Opened(s)', NEW r \in 1 .. (s - 1)
        PROVE  Opened(r)'
    <3>1. r \in Ids /\ s <= n
      BY <1>2, <2>1, <2>2, SessionsAssumption
    <3>2. Opened(r)
      BY <1>2, <2>1, <2>2, <3>1 DEF Inv, InOrder
    <3>3. QED BY <2>1, <3>1, <3>2
  <2>3. QED BY <2>2 DEF InOrder
<1>8. Chains'
  <2>1. \A c \in Ids : c # n => sess'[c].user = sess[c].user
    BY <1>3, <1>4
  <2>2. ASSUME NEW s \in Ids, Opened(s)', s # n
        PROVE  /\ sess'[s].chain \in 1 .. s
               /\ sess'[sess'[s].chain].user = sess'[s].user
    <3>1. Opened(s) /\ sess'[s].chain = sess[s].chain /\ sess'[s].user = sess[s].user
      BY <1>3, <1>4, <1>6, <2>2
    <3>2. s < n /\ sess[s].chain \in 1 .. s
      BY <1>2, <3>1 DEF Inv, Chains
    <3>3. sess[s].chain \in Ids /\ sess[s].chain # n
      BY <3>2, SessionsAssumption
    <3>4. QED BY <2>1, <3>1, <3>2, <3>3 DEF Inv, Chains
  <2>3. /\ sess'[n].chain \in 1 .. n
        /\ sess'[sess'[n].chain].user = sess'[n].user
    BY <1>4, <1>5, <1>6, <2>1, SessionsAssumption
  <2>4. QED BY <2>2, <2>3 DEF Chains
<1>9. OneLivePerChain'
  <2>1. \A s \in Ids : Live(s)' /\ s # n => Live(s) /\ s # p /\ sess'[s].chain = sess[s].chain
    BY <1>3, <1>4
  <2>2. \A s \in Ids : Live(s)' /\ s # n => sess'[s].chain # sess'[n].chain
    BY <1>4, <1>5, <2>1 DEF Inv, OneLivePerChain
  <2>3. \A s, r \in Ids : Live(s)' /\ Live(r)' /\ s # n /\ r # n /\ sess'[s].chain = sess'[r].chain
                          => s = r
    BY <2>1 DEF Inv, OneLivePerChain
  <2>4. QED BY <2>2, <2>3 DEF OneLivePerChain
<1>10. HeldByOne'
  <2>1. ASSUME NEW v \in Threads, thr'[v].op = "rotated"
        PROVE  /\ v # t /\ thr'[v] = thr[v] /\ thr[v].s \in Ids
               /\ thr[v].s # n /\ thr[v].s # p
    BY <1>0, <1>2, <2>1, RequestLemma DEF Inv, Rows, CommitRotation, HeldByOne, Live
  <2>2. QED BY <1>3, <2>1 DEF Inv, HeldByOne
<1>11. QED BY <1>1, <1>7, <1>8, <1>9, <1>10 DEF Inv

LEMMA SessionsInvStep ==
    ASSUME Inv, [SessionsNext]_sessionsVars
    PROVE  Inv'
<1>1. ASSUME NEW t \in Threads, Start(t) PROVE Inv'
  <2>1. CASE thr' = thr
    <3>1. thr' = [thr EXCEPT ![t] = thr[t]]
      BY <2>1 DEF Inv, Rows
    <3>2. Rows' /\ sess' = sess
      BY <1>1, RowsStart
    <3>3. InOrder' /\ Chains' /\ OneLivePerChain' /\ HeldByOne'
      BY <2>1, <3>2 DEF Inv, InOrder, Chains, OneLivePerChain, HeldByOne, Opened, Live
    <3>4. QED BY <3>2, <3>3 DEF Inv
  <2>2. CASE \E r \in Request : thr' = [thr EXCEPT ![t] = r] /\ r.op # "rotated"
    BY <1>1, <2>2, RowsStart, SameSessions
  <2>3. QED BY <1>1, <2>1, <2>2, RowsStart
<1>2. ASSUME NEW t \in Threads, Continue(t) PROVE Inv'
  <2>1. Rows'
    BY <1>2, RowsContinue
  <2>2. CASE invalidateSessionCache(t) \/ SetJSON(t) \/ Rehash(t) \/ RecordLogin(t)
    BY <2>1, <2>2, SameSessions, NextRequests
        DEF invalidateSessionCache, SetJSON, Rehash, RecordLogin
  <2>d. CASE dropSessionCache(t)
    <3>1. PICK r \in Request : thr' = [thr EXCEPT ![t] = r] /\ r.op # "rotated"
      BY <2>d, DropStep
    <3>2. QED BY <2>1, <2>d, <3>1, SameSessions DEF dropSessionCache
  <2>3. CASE Rotate(t)
    <3>1. CASE Live(thr[t].s)
      BY <2>1, <2>3, <3>1, SameSessions DEF Rotate
    <3>2. CASE ~Live(thr[t].s)
      BY <2>1, <2>3, <3>2, SameSessions, NextRequests DEF Rotate
    <3>3. QED BY <3>1, <3>2
  <2>4. CASE Deactivate(t)
    BY <2>1, <2>4, SameSessions DEF Deactivate, Revoking
  <2>5. QED BY <1>2, <2>2, <2>d, <2>3, <2>4, InvRevoke, InvOpen, InvRotate DEF Continue
<1>3. ASSUME UNCHANGED <<sess, thr>>, user' \in [Users -> UserRow], link' \in [Links -> LinkRow],
             cache' \subseteq Ids
      PROVE  Inv'
  <2>1. Rows'
    BY <1>3 DEF Inv, Rows
  <2>2. InOrder' /\ Chains' /\ OneLivePerChain' /\ HeldByOne'
    BY <1>3 DEF Inv, InOrder, Chains, OneLivePerChain, HeldByOne, Opened, Live
  <2>3. QED BY <2>1, <2>2 DEF Inv
<1>4. ASSUME NEW s \in Ids, Expire(s) PROVE Inv'
  BY <1>3, <1>4 DEF Expire, Inv, Rows
<1>5. ASSUME NEW u \in Users, Clock(u) PROVE Inv'
  <2>1. user' \in [Users -> UserRow]
    BY <1>5, UserLemma DEF Clock, Inv, Rows
  <2>2. QED BY <1>3, <1>5, <2>1 DEF Clock, Inv, Rows
<1>6. ASSUME NEW u \in Users, NEW l \in Links, RequestPasswordReset(u, l) PROVE Inv'
  <2>1. link' \in [Links -> LinkRow]
    BY <1>6, LinkLemma DEF RequestPasswordReset, Inv, Rows
  <2>2. QED BY <1>3, <1>6, <2>1 DEF RequestPasswordReset, Inv, Rows
<1>7. CASE UNCHANGED sessionsVars
  BY <1>3, <1>7 DEF sessionsVars, Inv, Rows
<1>8. QED BY <1>1, <1>2, <1>4, <1>5, <1>6, <1>7 DEF SessionsNext

\* Rows are well formed, ids are given in order, a chain belongs to one user,
\* and a row is held by one rotation, for which it is live.
THEOREM SessionsInvariant == SessionsSpec => []Inv
<1>1. SessionsInit => Inv
  BY SessionsInvInit
<1>2. Inv /\ [SessionsNext]_sessionsVars => Inv'
  BY SessionsInvStep
<1>3. QED BY <1>1, <1>2, PTL DEF SessionsSpec

\* Every column of users, links, sessions and cache holds a value of its type,
\* and a chain is named after the login that started it, of the same user.
THEOREM SessionsTypeCorrect == SessionsSpec => []SessionsTypeOK
<1>1. Inv => SessionsTypeOK
  BY DEF Inv, Rows, Chains, SessionsTypeOK, LinkRow, SessionRow
<1>2. QED BY <1>1, SessionsInvariant, PTL

\* A login never has two sessions that are not revoked (Refresh), however its
\* rotations, reuses, logouts and revocations interleave.
THEOREM OneLive == SessionsSpec => []OneLivePerChain
<1>1. Inv => OneLivePerChain
  BY DEF Inv
<1>2. QED BY <1>1, SessionsInvariant, PTL

=============================================================================
