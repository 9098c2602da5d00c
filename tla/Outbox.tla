------------------------------- MODULE Outbox -------------------------------
(***************************************************************************)
(* The outbox: notifications and webhook deliveries are rows written with  *)
(* the event that causes them, and worker threads send them from the job   *)
(* queue.  A thread claims the row, calls the provider or the partner, and *)
(* records the answer; its process may die between any two of these.       *)
(*                                                                         *)
(* Jobs are taken from module Jobs as what they promise: a queued job is   *)
(* run, a job of a dead process is queued again or, when its own attempts  *)
(* are used up, dropped.  The rows' stale window (15 minutes) is far over  *)
(* a send's time-out (20 seconds), so only rows of dead threads are taken  *)
(* back.                                                                   *)
(***************************************************************************)
EXTENDS Integers, FiniteSets

-----------------------------------------------------------------------------
(***************************************************************************)
(* Notification rows (internal/notification): raised once per dedupe key   *)
(* inside the caller's transaction, claimed by one worker at a time, and   *)
(* put back or dead-lettered when the provider refuses.  The recipient's   *)
(* address, the channel's sender and the wording are one input: whether    *)
(* the message can be sent.  Preferences are left out: SetPreference never *)
(* writes one (see the README).                                            *)
(***************************************************************************)
CONSTANTS
    Notes,        \* bound: the rows ever created
    DedupeKeys,   \* dedupe keys: one shipment, status and channel each
    MaxSends      \* MaxAttempts of a notification

ASSUME SendsAssumption == MaxSends \in Nat \ {0}

VARIABLES
    note,        \* note[n]: the row's key, status and attempt count
    template     \* whether an active template serves the event

NoteStatuses == {"none", "PENDING", "SENDING", "SENT", "DEAD_LETTER", "CANCELLED", "SUPPRESSED"}
NoteRow == [key : DedupeKeys, status : NoteStatuses, tries : 0 .. MaxSends]

NoteInit ==
    /\ \E k \in DedupeKeys : note = [n \in Notes |-> [key |-> k, status |-> "none", tries |-> 0]]
    /\ template \in BOOLEAN

Raised(n) == note[n].status # "none"

\* The rows notifications_dedupe_idx covers: at most one for each key.
FindNotificationByDedupe(k) ==
    {n \in Notes : Raised(n) /\ note[n].key = k /\ note[n].status \notin {"DEAD_LETTER", "CANCELLED"}}

-----------------------------------------------------------------------------
(***************************************************************************)
(* Statements on one row.                                                  *)
(***************************************************************************)
CreateNotification(n, k, initial) ==
    note' = [note EXCEPT ![n] = [key |-> k, status |-> initial, tries |-> 0]]

\* Mutant: a row that is being sent can be claimed again.
ClaimableAgain(n) == note[n].status \in {"PENDING", "SENDING"} /\ note[n].tries < MaxSends

\* PENDING to SENDING and nothing else.
Claimable(n) == note[n].status = "PENDING" /\ note[n].tries < MaxSends

LockNotificationForSend(n) == note' = [note EXCEPT ![n].status = "SENDING", ![n].tries = @ + 1]

MarkNotificationSent(n) == note' = [note EXCEPT ![n].status = "SENT"]

MarkNotificationFailed(n, retryable) ==
    note' = [note EXCEPT ![n].status =
                IF retryable /\ note[n].tries < MaxSends THEN "PENDING" ELSE "DEAD_LETTER"]

\* The sweep of abandoned rows passes over the ones out of attempts.
ReclaimStuckNotifications(n) ==
    /\ note[n].status = "SENDING" /\ note[n].tries < MaxSends
    /\ note' = [note EXCEPT ![n].status = "PENDING"]

ListDueNotifications == {n \in Notes : Claimable(n)}

\* The row leaves the dead letters, which the index refuses while another
\* row holds the key.
RetryNotification(n) ==
    /\ note[n].status = "DEAD_LETTER"
    /\ FindNotificationByDedupe(note[n].key) = {}
    /\ note' = [note EXCEPT ![n].status = "PENDING", ![n].tries = 0]

CancelNotification(n) ==
    /\ note[n].status \in {"PENDING", "DEAD_LETTER"}
    /\ note' = [note EXCEPT ![n].status = "CANCELLED"]

\* CreateTemplate and UpdateTemplate: one active template serves an event.
SetTemplate(active) == template # active /\ template' = active

\* ResolveTemplate and the checks before it: why a message is suppressed.
StatusOf(sendable) == IF sendable /\ template THEN "PENDING" ELSE "SUPPRESSED"

-----------------------------------------------------------------------------
(***************************************************************************)
(* Partner endpoints, their API key and the deliveries queued for them     *)
(* (internal/partner).  One endpoint and one key; a payload is fixed when  *)
(* its event is emitted and is not modelled.                               *)
(***************************************************************************)
CONSTANTS
    Deliveries,    \* bound: the deliveries ever queued
    Events,        \* business events, each with a stable id
    MaxCalls,      \* the endpoint's max_attempts
    PauseAfter     \* consecutive failures that pause an endpoint

ASSUME CallsAssumption == MaxCalls \in Nat \ {0} /\ PauseAfter \in Nat \ {0}

\* Two tables: no row is in both.
ASSUME RowsAssumption == Notes \cap Deliveries = {}

VARIABLES
    key,         \* the API key: status and whether its expiry has passed
    endpoint,    \* status, consecutive failures, whether it is subscribed
    delivery     \* delivery[d]: event, status, attempt count, whether a replay

KeyStatuses == {"none", "ACTIVE", "SUSPENDED", "REVOKED", "EXPIRED"}
EndpointStatuses == {"none", "ACTIVE", "PAUSED", "DISABLED"}
DeliveryStatuses == {"none", "PENDING", "SENDING", "DELIVERED", "DEAD_LETTER"}

NoDelivery == [event |-> CHOOSE e \in Events : TRUE, status |-> "none", tries |-> 0, replay |-> FALSE]

WebhookInit ==
    /\ key = [status |-> "none", past |-> FALSE]
    /\ endpoint = [status |-> "none", failures |-> 0, subscribed |-> FALSE]
    /\ delivery = [d \in Deliveries |-> NoDelivery]

-----------------------------------------------------------------------------
(***************************************************************************)
(* The API key.                                                            *)
(***************************************************************************)
CreateAPIKey == key.status = "none" /\ key' = [key EXCEPT !.status = "ACTIVE"]

\* The expiry is an instant that passes.
KeyTime == key.status # "none" /\ ~key.past /\ key' = [key EXCEPT !.past = TRUE]

RevokeAPIKey == key.status \notin {"none", "REVOKED"} /\ key' = [key EXCEPT !.status = "REVOKED"]

SuspendAPIKey(suspend) ==
    /\ key.status = IF suspend THEN "ACTIVE" ELSE "SUSPENDED"
    /\ key' = [key EXCEPT !.status = IF suspend THEN "SUSPENDED" ELSE "ACTIVE"]

ExpireAPIKeys == key.status = "ACTIVE" /\ key.past /\ key' = [key EXCEPT !.status = "EXPIRED"]

Verify == key.status = "ACTIVE" /\ ~key.past

-----------------------------------------------------------------------------
(***************************************************************************)
(* The endpoint.                                                           *)
(***************************************************************************)
\* With a first subscription: the handler asks for one at least.
CreateWebhookEndpoint ==
    /\ endpoint.status = "none"
    /\ endpoint' = [status |-> "ACTIVE", failures |-> 0, subscribed |-> TRUE]

SetWebhookEndpointStatus(to) ==
    /\ endpoint.status # "none"
    /\ endpoint' = [endpoint EXCEPT !.status = to,
                                    !.failures = IF to = "ACTIVE" THEN 0 ELSE @]

\* CreateWebhookSubscription, DeleteWebhookSubscription.
CreateWebhookSubscription == endpoint.status # "none" /\ endpoint' = [endpoint EXCEPT !.subscribed = TRUE]
DeleteWebhookSubscription == endpoint.subscribed /\ endpoint' = [endpoint EXCEPT !.subscribed = FALSE]

ListEndpointsForEvent == endpoint.status = "ACTIVE" /\ endpoint.subscribed

RecordWebhookSuccess == endpoint' = [endpoint EXCEPT !.failures = 0]

\* Whatever the status was: a disabled endpoint becomes a paused one.
\* A count beyond the limit is the limit.
RecordWebhookFailure ==
    LET over == endpoint.failures + 1 >= PauseAfter
    IN  endpoint' = [endpoint EXCEPT !.failures = IF over THEN PauseAfter ELSE @ + 1,
                                     !.status = IF over THEN "PAUSED" ELSE @]

-----------------------------------------------------------------------------
(***************************************************************************)
(* Deliveries.                                                             *)
(***************************************************************************)
Queued(d) == delivery[d].status # "none"

\* webhook_deliveries_event_idx: one delivery for an event, its replays apart.
FindDeliveryByEvent(e) == {d \in Deliveries : Queued(d) /\ delivery[d].event = e /\ ~delivery[d].replay}

CreateWebhookDelivery(d, e, replay) ==
    delivery' = [delivery EXCEPT ![d] = [event |-> e, status |-> "PENDING", tries |-> 0, replay |-> replay]]

\* ListDueWebhookDeliveries, and the guard of ClaimDeliveryForSend.
Due(d) == delivery[d].status = "PENDING"

\* The claim has no budget: attempts beyond the last are counted as one.
ClaimDeliveryForSend(d) ==
    delivery' = [delivery EXCEPT ![d].status = "SENDING",
                                 ![d].tries = IF @ > MaxCalls THEN @ ELSE @ + 1]

MarkDeliverySucceeded(d) == delivery' = [delivery EXCEPT ![d].status = "DELIVERED"]

MarkDeliveryFailed(d) ==
    delivery' = [delivery EXCEPT ![d].status = IF delivery[d].tries < MaxCalls THEN "PENDING"
                                                                                ELSE "DEAD_LETTER"]

\* Mutant: the sweep keeps the notification's limit on attempts.
ReclaimStuckDeliveriesBudgeted(d) ==
    /\ delivery[d].status = "SENDING" /\ delivery[d].tries < MaxCalls
    /\ delivery' = [delivery EXCEPT ![d].status = "PENDING"]

ReclaimStuckDeliveries(d) ==
    /\ delivery[d].status = "SENDING"
    /\ delivery' = [delivery EXCEPT ![d].status = "PENDING"]

-----------------------------------------------------------------------------
(***************************************************************************)
(* The threads and their jobs.                                             *)
(***************************************************************************)
CONSTANTS
    Workers,       \* threads
    MaxCrashes,    \* bound: deaths of a thread
    MaxRetries     \* bound: operators' retries

ASSUME ThreadsAssumption == MaxCrashes \in Nat /\ MaxRetries \in Nat

VARIABLES
    job,        \* job[j]: the state of each possible job
    wk,         \* wk[w]: what a thread is doing
    crashes, retries

outboxVars == <<note, template, key, endpoint, delivery, job, wk, crashes, retries>>
rows == <<note, template, key, endpoint, delivery>>

\* A row's first job, whose dedupe key is the row's id, and the job of a retry,
\* whose key is new every time.
NoteJobs == Notes \X {"send", "retry"}
JobIds == NoteJobs \cup (Deliveries \X {"send"})
RowOf(j) == j[1]
JobStates == {"none", "queued", "running", "stale"}
NoWork == [op |-> "idle"]

OutboxInit ==
    /\ NoteInit /\ WebhookInit
    /\ job = [j \in JobIds |-> "none"]
    /\ wk = [w \in Workers |-> NoWork]
    /\ crashes = 0 /\ retries = 0

\* Enqueue with its dedupe key: a live job with the key is left alone.
Enqueue(j) == job' = [job EXCEPT ![j] = IF @ = "none" THEN "queued" ELSE @]

-----------------------------------------------------------------------------
(***************************************************************************)
(* What the services do in their callers' transactions, and operators.     *)
(***************************************************************************)

\* Raise: an existing message with the key is the answer.
Raise(n, k, sendable) ==
    /\ ~Raised(n) /\ FindNotificationByDedupe(k) = {}
    /\ CreateNotification(n, k, StatusOf(sendable))
    /\ IF StatusOf(sendable) = "PENDING" THEN Enqueue(<<n, "send">>) ELSE UNCHANGED job
    /\ UNCHANGED <<template, key, endpoint, delivery, wk, crashes, retries>>

\* Retry: the statement, and then a job that may not be enqueued.
Retry(n) ==
    /\ retries < MaxRetries /\ retries' = retries + 1
    /\ RetryNotification(n)
    /\ Enqueue(<<n, "retry">>) \/ UNCHANGED job
    /\ UNCHANGED <<template, key, endpoint, delivery, wk, crashes>>

Cancel(n) == CancelNotification(n) /\ UNCHANGED <<template, key, endpoint, delivery, job, wk, crashes, retries>>

\* CreateTemplate and UpdateTemplate.
UpdateTemplate(active) ==
    /\ SetTemplate(active)
    /\ UNCHANGED <<note, key, endpoint, delivery, job, wk, crashes, retries>>

\* A milestone of a shipment raises one message for each channel, under a key
\* made of the shipment, the status and the channel.
ShipmentObserver(n, k, sendable) == Raise(n, k, sendable)

\* Emit, for the one endpoint there is.
Emit(d, e) ==
    /\ ListEndpointsForEvent
    /\ ~Queued(d) /\ FindDeliveryByEvent(e) = {}
    /\ CreateWebhookDelivery(d, e, FALSE)
    /\ Enqueue(<<d, "send">>)
    /\ UNCHANGED <<note, template, key, endpoint, wk, crashes, retries>>

\* The observers of shipments, pickups, proofs and cash emit one event each,
\* under the id of the row that records it.
Observer(d, e) == Emit(d, e)

\* Replay: a new row for what is not in flight.
Replay(d, original) ==
    /\ ~Queued(d) /\ Queued(original)
    /\ delivery[original].status # "SENDING"
    /\ CreateWebhookDelivery(d, delivery[original].event, TRUE)
    /\ Enqueue(<<d, "send">>)
    /\ UNCHANGED <<note, template, key, endpoint, wk, crashes, retries>>

\* What an endpoint's or a key's operation leaves alone.
EndpointOnly == UNCHANGED <<note, template, key, delivery, job, wk, crashes, retries>>
KeyOnly == UNCHANGED <<note, template, endpoint, delivery, job, wk, crashes, retries>>

\* By a partner, who has presented a key, or by one of the organization's users.
CreateEndpoint(partner) == (partner => Verify) /\ CreateWebhookEndpoint /\ EndpointOnly
SetEndpointStatus(to) == SetWebhookEndpointStatus(to) /\ EndpointOnly
Subscribe == CreateWebhookSubscription /\ EndpointOnly
Unsubscribe == DeleteWebhookSubscription /\ EndpointOnly

Issue == CreateAPIKey /\ KeyOnly
RevokeKey == RevokeAPIKey /\ KeyOnly
Suspend(suspend) == SuspendAPIKey(suspend) /\ KeyOnly
ExpireKeys == (KeyTime \/ ExpireAPIKeys) /\ KeyOnly

-----------------------------------------------------------------------------
(***************************************************************************)
(* Deliver, of both services, by a thread.                                 *)
(***************************************************************************)
Finish(w, j, state) == /\ wk' = [wk EXCEPT ![w] = NoWork]
                     /\ job' = [job EXCEPT ![j] = state]

\* A row that cannot be claimed leaves the job nothing to do.
Deliver(w, j) ==
    LET r == RowOf(j)
        claimable == IF r \in Notes THEN Claimable(r) ELSE Due(r)
    IN  /\ wk[w] = NoWork /\ job[j] = "queued"
        /\ IF claimable
           THEN /\ IF r \in Notes THEN LockNotificationForSend(r) /\ UNCHANGED delivery
                                  ELSE ClaimDeliveryForSend(r) /\ UNCHANGED note
                /\ wk' = [wk EXCEPT ![w] = [op |-> "send", job |-> j]]
                /\ job' = [job EXCEPT ![j] = "running"]
           ELSE UNCHANGED <<note, delivery>> /\ Finish(w, j, "none")
        /\ UNCHANGED <<template, key, endpoint, crashes, retries>>

\* The provider or the partner answers, or does not within the time-out.
Send(w, outcome) ==
    /\ wk[w].op = "send"
    /\ outcome = "refused" => RowOf(wk[w].job) \in Notes
    /\ wk' = [wk EXCEPT ![w] = [op |-> outcome, job |-> wk[w].job]]
    /\ UNCHANGED <<rows, job, crashes, retries>>

\* The answer for a notification is recorded: SENT, or MarkNotificationFailed
\* and the job again (RetryAfter), unless its own attempts are used up.
MarkNote(w) ==
    /\ wk[w].op \in {"accepted", "failed", "refused"} /\ RowOf(wk[w].job) \in Notes
    /\ LET n == RowOf(wk[w].job)
       IN  /\ IF wk[w].op = "accepted" THEN MarkNotificationSent(n)
                                       ELSE MarkNotificationFailed(n, wk[w].op = "failed")
           /\ \/ Finish(w, wk[w].job, "none")
              \/ wk[w].op = "failed" /\ Finish(w, wk[w].job, "queued")
    /\ UNCHANGED <<template, key, endpoint, delivery, crashes, retries>>

\* The answer for a delivery is recorded on its row ...
MarkDelivery(w) ==
    /\ wk[w].op \in {"accepted", "failed"} /\ RowOf(wk[w].job) \in Deliveries
    /\ LET d == RowOf(wk[w].job)
       IN  IF wk[w].op = "accepted" THEN MarkDeliverySucceeded(d) ELSE MarkDeliveryFailed(d)
    /\ wk' = [wk EXCEPT ![w].op = IF @ = "accepted" THEN "success" ELSE "failure"]
    /\ UNCHANGED <<note, template, key, endpoint, job, crashes, retries>>

\* ... and then on the endpoint.
RecordEndpoint(w) ==
    /\ wk[w].op \in {"success", "failure"}
    /\ IF wk[w].op = "success" THEN RecordWebhookSuccess ELSE RecordWebhookFailure
    /\ \/ Finish(w, wk[w].job, "none")
       \/ wk[w].op = "failure" /\ delivery[RowOf(wk[w].job)].status # "DEAD_LETTER"
          /\ Finish(w, wk[w].job, "queued")
    /\ UNCHANGED <<note, template, key, delivery, crashes, retries>>

ThreadDies(w) ==
    /\ crashes < MaxCrashes /\ crashes' = crashes + 1
    /\ wk[w] # NoWork
    /\ Finish(w, wk[w].job, "stale")
    /\ UNCHANGED <<rows, retries>>

-----------------------------------------------------------------------------
(***************************************************************************)
(* The queue's and the worker's maintenance.                               *)
(***************************************************************************)

\* The queue takes back the job of a dead process, or gives it up.
ReclaimJob(j) ==
    /\ job[j] = "stale"
    /\ job' = [job EXCEPT ![j] = "queued"] \/ job' = [job EXCEPT ![j] = "none"]
    /\ UNCHANGED <<rows, wk, crashes, retries>>

\* The thread that sends a row, if it lives.
Sending(w, r) == wk[w] # NoWork /\ RowOf(wk[w].job) = r

ReclaimStuck(r) ==
    /\ ~ \E w \in Workers : Sending(w, r)
    /\ IF r \in Notes THEN ReclaimStuckNotifications(r) /\ UNCHANGED delivery
                      ELSE ReclaimStuckDeliveries(r) /\ UNCHANGED note
    /\ UNCHANGED <<template, key, endpoint, job, wk, crashes, retries>>

\* SweepDue, of one row: a row that is due and has no job gets one.
SweepDue(r) ==
    /\ IF r \in Notes THEN r \in ListDueNotifications ELSE Due(r)
    /\ job[<<r, "send">>] = "none"
    /\ Enqueue(<<r, "send">>)
    /\ UNCHANGED <<rows, wk, crashes, retries>>

Thread(w) ==
    \/ \E outcome \in {"accepted", "failed", "refused"} : Send(w, outcome)
    \/ MarkNote(w) \/ MarkDelivery(w) \/ RecordEndpoint(w)

Maintenance ==
    \/ \E j \in JobIds : ReclaimJob(j)
    \/ \E r \in Notes \cup Deliveries : ReclaimStuck(r) \/ SweepDue(r)

Business ==
    \/ \E n \in Notes : \/ Retry(n) \/ Cancel(n)
                        \/ \E k \in DedupeKeys, sendable \in BOOLEAN : ShipmentObserver(n, k, sendable)
    \/ \E d \in Deliveries : (\E e \in Events : Observer(d, e)) \/ \E o \in Deliveries : Replay(d, o)
    \/ (\E partner \in BOOLEAN : CreateEndpoint(partner)) \/ Subscribe \/ Unsubscribe
    \/ \E to \in {"ACTIVE", "PAUSED", "DISABLED"} : SetEndpointStatus(to)
    \/ Issue \/ RevokeKey \/ ExpireKeys
    \/ \E b \in BOOLEAN : Suspend(b) \/ UpdateTemplate(b)

OutboxNext ==
    \/ Business \/ Maintenance
    \/ \E w \in Workers : Thread(w) \/ ThreadDies(w) \/ \E j \in JobIds : Deliver(w, j)

\* Threads go on, every queued job is picked up, and maintenance runs on its
\* timer; nobody has to raise, retry, cancel or crash anything.
Fairness ==
    /\ \A w \in Workers : WF_outboxVars(Thread(w))
    /\ \A j \in JobIds : WF_outboxVars(\E w \in Workers : Deliver(w, j)) /\ WF_outboxVars(ReclaimJob(j))
    /\ \A r \in Notes \cup Deliveries : WF_outboxVars(ReclaimStuck(r)) /\ WF_outboxVars(SweepDue(r))

OutboxSpec == OutboxInit /\ [][OutboxNext]_outboxVars /\ Fairness

-----------------------------------------------------------------------------
(***************************************************************************)
(* What must hold.                                                         *)
(***************************************************************************)

\* Every column holds a value of its type, and no notification is tried more
\* often than its budget allows.
OutboxTypeOK ==
    /\ note \in [Notes -> NoteRow]
    /\ template \in BOOLEAN
    /\ key.status \in KeyStatuses /\ key.past \in BOOLEAN
    /\ endpoint.status \in EndpointStatuses /\ endpoint.failures \in 0 .. PauseAfter
    /\ \A d \in Deliveries : delivery[d].status \in DeliveryStatuses
                             /\ delivery[d].tries \in 0 .. (MaxCalls + 1)
    /\ job \in [JobIds -> JobStates]
    /\ crashes \in 0 .. MaxCrashes /\ retries \in 0 .. MaxRetries

\* "would let a second worker pick up a message the first is still delivering"
\* (LockNotificationForSend): two threads never send one row at a time, however
\* many jobs the row has, and the row being sent says so.
OneSender ==
    \A w, v \in Workers : \A r \in Notes \cup Deliveries :
        Sending(w, r) /\ wk[w].op \in {"send", "accepted", "failed", "refused"} =>
            /\ IF r \in Notes THEN note[r].status = "SENDING" ELSE delivery[r].status = "SENDING"
            /\ Sending(v, r) /\ wk[v].op \in {"send", "accepted", "failed", "refused"} => v = w

\* "collapses repeated raises of the same event onto one message" (DedupeKey):
\* one event tells the recipient once, even if its first message was
\* dead-lettered, raised again and then retried.
ToldOnce == \A n, m \in Notes : note[n].status = "SENT" /\ note[m].status = "SENT"
                                /\ note[n].key = note[m].key => n = m

\* A message reaches its recipient once: no row has two senders, and no event
\* two messages that were sent.
ToldByOne == OneSender /\ ToldOnce

\* "a worker that dies mid-send leaves its row SENDING forever without this"
\* (ReclaimStuck): every delivery is delivered or dead-lettered in the end,
\* whichever threads die while they send it.
DeliverySettles ==
    \A d \in Deliveries : Queued(d) ~> delivery[d].status \in {"DELIVERED", "DEAD_LETTER"}

\* "A worker that crashes mid-send leaves a row stuck in SENDING. That is
\* recovered by ReclaimStuckNotifications" (LockNotificationForSend): the same
\* for notifications.  It is not so for a crash during the last attempt.
NotificationSettles == \A n \in Notes : note[n].status = "SENDING" ~> note[n].status # "SENDING"

=============================================================================
