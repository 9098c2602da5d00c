-------------------------------- MODULE Jobs --------------------------------
(***************************************************************************)
(* The PostgreSQL-backed job queue (internal/platform/jobs) and its        *)
(* statements (db/queries/platform.sql).  A row of the jobs table is       *)
(* claimed by a worker in a batch, waits for a concurrency slot, is        *)
(* executed, and is then completed, rescheduled or dead-lettered.  Workers *)
(* crash, drain and restart; the maintenance ticker releases rows whose    *)
(* lock is older than StuckAfter.                                          *)
(*                                                                         *)
(* Time is a count of ticks.  Only ages are kept, so the model has no      *)
(* clock: lockAge is now() - locked_at, delay is run_at - now(), and the   *)
(* age of an execution is the time its handler has been running.           *)
(***************************************************************************)
EXTENDS Naturals, FiniteSets

CONSTANTS
    Jobs,          \* rows that may be inserted into the jobs table
    Workers,       \* worker processes
    Keys,          \* dedupe keys
    NoKey,         \* a job submitted without a dedupe key
    DedupeKey,     \* the dedupe_key each job is submitted with
    MaxAttempts,   \* jobs.max_attempts
    Concurrency,   \* WorkerConfig.Concurrency, the size of the semaphore
    BatchSize,     \* WorkerConfig.BatchSize, the LIMIT of the claim
    StuckAfter,    \* WorkerConfig.StuckAfter, in ticks
    JobTimeout,    \* the deadline of jobCtx, in ticks
    AttemptsMax,   \* bound of the forced-dead loop (50 in the code)
    Backoffs,      \* intervals a failed attempt may be rescheduled after
    Delays,        \* how far ahead the run_at of a submitted job may lie
    AttemptsBound, \* model bound: no row is claimed more often than this
    MaxFaults      \* model bound: crashes and lost statements in a behaviour

ASSUME JobsAssumption ==
    /\ IsFiniteSet(Jobs)
    /\ NoKey \notin Keys
    /\ DedupeKey \in [Jobs -> Keys \cup {NoKey}]
    /\ MaxAttempts \in Nat \ {0}
    /\ Concurrency \in Nat \ {0}
    /\ BatchSize \in Nat \ {0}
    /\ StuckAfter \in Nat
    /\ JobTimeout \in Nat
    /\ AttemptsMax \in Nat
    /\ Backoffs \subseteq Nat
    /\ Delays \subseteq Nat
    /\ AttemptsBound \in Nat
    /\ MaxFaults \in Nat

VARIABLES
    status,    \* jobs.status; "NONE" before the row is inserted
    attempts,  \* jobs.attempts
    delay,     \* ticks until run_at
    lockAge,   \* ticks since locked_at, saturating past StuckAfter
    mode,      \* life of each worker process
    batch,     \* claims a worker holds and has not dispatched yet
    execs,     \* goroutines inside Worker.execute
    permanent, \* history: jobs a handler has failed with ErrPermanent
    overtaken, \* history: jobs released as stuck while a worker still held them
    ran,       \* history: the <<job, attempt>> pairs whose handler was started
    unrun,     \* history: those a worker gave back, or lost, without starting it
    released,  \* history: how often each job was released as stuck
    faults     \* crashes and lost statements so far

rowVars == <<status, attempts, delay, lockAge>>
history == <<overtaken, ran, unrun, released>>

vars ==
    <<status, attempts, delay, lockAge, mode, batch, execs, permanent, overtaken, ran,
      unrun, released, faults>>

Statuses == {"NONE", "PENDING", "RUNNING", "SUCCEEDED", "DEAD"}
Live == {"PENDING", "RUNNING"}
Modes == {"up", "draining", "down"}

\* A claim is the snapshot of the row that ClaimJobs returned to a worker.
Claims == Jobs \X Nat

\* One goroutine: its claim, whether it is in the handler or in fail()'s
\* forced-dead loop, the handler's age, and the loop counter.
Executions ==
    [worker : Workers, job : Jobs, attempt : Nat,
     phase : {"handler", "forcing"}, age : Nat, tries : Nat]

TypeOK ==
    /\ status \in [Jobs -> Statuses]
    /\ attempts \in [Jobs -> Nat]
    /\ delay \in [Jobs -> Nat]
    /\ lockAge \in [Jobs -> Nat]
    /\ mode \in [Workers -> Modes]
    /\ batch \in [Workers -> SUBSET Claims]
    /\ execs \subseteq Executions
    /\ permanent \subseteq Jobs
    /\ overtaken \subseteq Jobs
    /\ ran \subseteq Claims
    /\ unrun \subseteq Claims
    /\ released \in [Jobs -> Nat]
    /\ faults \in Nat

Init ==
    /\ status = [j \in Jobs |-> "NONE"]
    /\ attempts = [j \in Jobs |-> 0]
    /\ delay = [j \in Jobs |-> 0]
    /\ lockAge = [j \in Jobs |-> 0]
    /\ mode = [w \in Workers |-> "up"]
    /\ batch = [w \in Workers |-> {}]
    /\ execs = {}
    /\ permanent = {}
    /\ overtaken = {}
    /\ ran = {}
    /\ unrun = {}
    /\ released = [j \in Jobs |-> 0]
    /\ faults = 0

-----------------------------------------------------------------------------
(* Statements of db/queries/platform.sql *)

\* Mutant: the partial index covers pending rows only.
DedupeConflictPendingOnly(j) ==
    /\ DedupeKey[j] # NoKey
    /\ \E k \in Jobs \ {j} : DedupeKey[k] = DedupeKey[j] /\ status[k] = "PENDING"

\* Another live row holds the key: the partial unique index jobs_dedupe_idx.
DedupeConflict(j) ==
    /\ DedupeKey[j] # NoKey
    /\ \E k \in Jobs \ {j} : DedupeKey[k] = DedupeKey[j] /\ status[k] \in Live

\* Mutant: one attempt more than the budget.
RetryStatusLate(j) == IF attempts[j] > MaxAttempts THEN "DEAD" ELSE "PENDING"

\* The status RetryJob leaves behind.  It does not look at the current status
\* and it does not change attempts: only a claim does.
RetryStatus(j) == IF attempts[j] >= MaxAttempts THEN "DEAD" ELSE "PENDING"

\* Making the row live again under a key some other live row has taken since
\* violates the unique index.
RetryRejected(j) == RetryStatus(j) \in Live /\ DedupeConflict(j)

RetryJob(j, backoff) ==
    IF RetryRejected(j)
    THEN UNCHANGED rowVars
    ELSE /\ status' = [status EXCEPT ![j] = RetryStatus(j)]
         /\ delay' = [delay EXCEPT ![j] = IF RetryStatus(j) = "DEAD" THEN @ ELSE backoff]
         /\ lockAge' = [lockAge EXCEPT ![j] = 0]
         /\ UNCHANGED attempts

\* Unconditional: neither the status nor locked_by is compared.
CompleteJob(j) ==
    /\ status' = [status EXCEPT ![j] = "SUCCEEDED"]
    /\ lockAge' = [lockAge EXCEPT ![j] = 0]
    /\ UNCHANGED <<attempts, delay>>

\* Mutant: the claim takes rows that are running as well.
RunnableLive == {j \in Jobs : status[j] \in Live /\ delay[j] = 0 /\ attempts[j] < AttemptsBound}

Runnable == {j \in Jobs : status[j] = "PENDING" /\ delay[j] = 0 /\ attempts[j] < AttemptsBound}

\* Mutant: the maintenance ticker releases nothing.
StuckNever == {}

Stuck == {j \in Jobs : status[j] = "RUNNING" /\ lockAge[j] > StuckAfter}

-----------------------------------------------------------------------------
(* Submitting *)

\* enqueue: INSERT ... ON CONFLICT (dedupe_key) DO NOTHING.  A conflict leaves
\* the table as it was, so only the effective insert is a step.  The job is due
\* at once or at the run_at of its options.
Enqueue(j) ==
    /\ status[j] = "NONE"
    /\ ~DedupeConflict(j)
    /\ status' = [status EXCEPT ![j] = "PENDING"]
    /\ \E d \in Delays : delay' = [delay EXCEPT ![j] = d]
    /\ UNCHANGED <<attempts, lockAge, mode, batch, execs, permanent, history, faults>>

-----------------------------------------------------------------------------
(* Worker.Run *)

Running(w) == {e \in execs : e.worker = w}

\* Everything a worker is still holding: claims waiting for a slot and
\* goroutines in flight, as <<job, attempt>> pairs.
Held(w) == batch[w] \cup {<<e.job, e.attempt>> : e \in Running(w)}

\* Mutant: the claim does not count the attempt.
ClaimUncounted(w) ==
    /\ mode[w] = "up"
    /\ batch[w] = {}
    /\ \E S \in SUBSET Runnable :
        /\ S # {}
        /\ Cardinality(S) <= BatchSize
        /\ status' = [j \in Jobs |-> IF j \in S THEN "RUNNING" ELSE status[j]]
        /\ lockAge' = [j \in Jobs |-> IF j \in S THEN 0 ELSE lockAge[j]]
        /\ batch' = [batch EXCEPT ![w] = {<<j, attempts[j]>> : j \in S}]
    /\ UNCHANGED <<attempts, delay, mode, execs, permanent, history, faults>>

\* claim: one statement, FOR UPDATE SKIP LOCKED.  Rows another statement holds
\* are skipped, so any nonempty part of the runnable rows may come back.
Claim(w) ==
    /\ mode[w] = "up"
    /\ batch[w] = {}
    /\ \E S \in SUBSET Runnable :
        /\ S # {}
        /\ Cardinality(S) <= BatchSize
        /\ status' = [j \in Jobs |-> IF j \in S THEN "RUNNING" ELSE status[j]]
        /\ attempts' = [j \in Jobs |-> IF j \in S THEN attempts[j] + 1 ELSE attempts[j]]
        /\ lockAge' = [j \in Jobs |-> IF j \in S THEN 0 ELSE lockAge[j]]
        /\ batch' = [batch EXCEPT ![w] = {<<j, attempts[j] + 1>> : j \in S}]
    /\ UNCHANGED <<delay, mode, execs, permanent, history, faults>>

\* sem <- struct{}{} succeeds and the job's goroutine starts.  The select also
\* takes this branch while draining when a slot is free.
Dispatch(w, c) ==
    /\ mode[w] # "down"
    /\ c \in batch[w]
    /\ Cardinality(Running(w)) < Concurrency
    /\ batch' = [batch EXCEPT ![w] = @ \ {c}]
    /\ execs' = execs \cup {[worker |-> w, job |-> c[1], attempt |-> c[2],
                             phase |-> "handler", age |-> 0, tries |-> 0]}
    /\ ran' = ran \cup {c}
    /\ UNCHANGED <<rowVars, mode, permanent, overtaken, unrun, released, faults>>

\* The ctx.Done() branch of the dispatch loop: release the claim with RetryJob.
Requeue(w, c) ==
    /\ mode[w] = "draining"
    /\ c \in batch[w]
    /\ batch' = [batch EXCEPT ![w] = @ \ {c}]
    /\ RetryJob(c[1], 0)
    /\ unrun' = unrun \cup {c}
    /\ UNCHANGED <<mode, execs, permanent, overtaken, ran, released, faults>>

\* reclaimStuck: the maintenance ticker, served by the same select as the claim.
ReclaimStuck(w) ==
    /\ mode[w] = "up"
    /\ batch[w] = {}
    /\ Stuck # {}
    /\ status' = [j \in Jobs |-> IF j \in Stuck THEN "PENDING" ELSE status[j]]
    /\ lockAge' = [j \in Jobs |-> IF j \in Stuck THEN 0 ELSE lockAge[j]]
    /\ released' = [j \in Jobs |-> IF j \in Stuck THEN released[j] + 1 ELSE released[j]]
    /\ overtaken' = overtaken \cup {j \in Stuck : \E v \in Workers : \E c \in Held(v) : c[1] = j}
    /\ UNCHANGED <<attempts, delay, mode, batch, execs, permanent, ran, unrun, faults>>

-----------------------------------------------------------------------------
(* Worker.execute and Worker.fail *)

\* The handler returns nil and CompleteJob is recorded.
HandlerSucceeds(e) ==
    /\ e \in execs /\ e.phase = "handler"
    /\ CompleteJob(e.job)
    /\ execs' = execs \ {e}
    /\ UNCHANGED <<mode, batch, permanent, history, faults>>

\* The handler returns nil or an error, but the statement that should record it
\* fails: execute and fail only log, so the row stays as it is.
OutcomeNotRecorded(e) ==
    /\ faults < MaxFaults
    /\ e \in execs
    /\ faults' = faults + 1
    /\ execs' = execs \ {e}
    /\ UNCHANGED <<rowVars, mode, batch, permanent, history>>

\* A retryable error: fail() reschedules with the queue's backoff or with the
\* interval the handler asked for (RetryAfter).
HandlerFails(e) ==
    /\ e \in execs /\ e.phase = "handler"
    /\ \E backoff \in Backoffs : RetryJob(e.job, backoff)
    /\ execs' = execs \ {e}
    /\ UNCHANGED <<mode, batch, permanent, history, faults>>

\* ErrPermanent, or no handler registered: the same RetryJob, and when the row
\* is not DEAD afterwards the goroutine goes on to the forced-dead loop.
HandlerFailsPermanently(e) ==
    /\ e \in execs /\ e.phase = "handler"
    /\ \E backoff \in Backoffs : RetryJob(e.job, backoff)
    /\ permanent' = permanent \cup {e.job}
    /\ execs' = IF RetryRejected(e.job) \/ RetryStatus(e.job) = "DEAD"
                THEN execs \ {e}
                ELSE (execs \ {e}) \cup {[e EXCEPT !.phase = "forcing"]}
    /\ UNCHANGED <<mode, batch, faults, history>>

\* One turn of the forced-dead loop; other workers run between two turns.
ForceDead(e) ==
    /\ e \in execs /\ e.phase = "forcing"
    /\ IF e.tries < AttemptsMax THEN RetryJob(e.job, 0) ELSE UNCHANGED rowVars
    /\ execs' = IF \/ e.tries >= AttemptsMax
                   \/ RetryRejected(e.job)
                   \/ RetryStatus(e.job) = "DEAD"
                THEN execs \ {e}
                ELSE (execs \ {e}) \cup {[e EXCEPT !.tries = @ + 1]}
    /\ UNCHANGED <<mode, batch, permanent, history, faults>>

-----------------------------------------------------------------------------
(* The worker process *)

\* SIGTERM cancels ctx: no more claims, in-flight jobs are drained.
Shutdown(w) ==
    /\ mode[w] = "up"
    /\ faults < MaxFaults
    /\ faults' = faults + 1
    /\ mode' = [mode EXCEPT ![w] = "draining"]
    /\ UNCHANGED <<rowVars, batch, execs, permanent, history>>

\* wg.Wait() returns.
Stop(w) ==
    /\ mode[w] = "draining"
    /\ batch[w] = {}
    /\ Running(w) = {}
    /\ mode' = [mode EXCEPT ![w] = "down"]
    /\ UNCHANGED <<rowVars, batch, execs, permanent, history, faults>>

\* The process dies with everything it holds in memory.
Crash(w) ==
    /\ mode[w] # "down"
    /\ faults < MaxFaults
    /\ faults' = faults + 1
    /\ mode' = [mode EXCEPT ![w] = "down"]
    /\ batch' = [batch EXCEPT ![w] = {}]
    /\ execs' = execs \ Running(w)
    /\ unrun' = unrun \cup batch[w]
    /\ UNCHANGED <<rowVars, permanent, overtaken, ran, released>>

Restart(w) ==
    /\ mode[w] = "down"
    /\ mode' = [mode EXCEPT ![w] = "up"]
    /\ UNCHANGED <<rowVars, batch, execs, permanent, history, faults>>

\* Handing a claim to a free slot, and the turns of the forced-dead loop, take no
\* time on the scale of a tick.
DispatchPending ==
    \E w \in Workers : batch[w] # {} /\ Cardinality(Running(w)) < Concurrency

\* Time passes.  A handler honours the deadline of jobCtx, so no tick happens
\* while one has reached it.
Tick ==
    /\ ~DispatchPending
    /\ \A e \in execs : e.phase = "handler" /\ e.age < JobTimeout
    /\ delay' = [j \in Jobs |-> IF delay[j] > 0 THEN delay[j] - 1 ELSE 0]
    /\ lockAge' = [j \in Jobs |-> IF status[j] = "RUNNING" /\ lockAge[j] <= StuckAfter
                                  THEN lockAge[j] + 1 ELSE lockAge[j]]
    /\ execs' = {[e EXCEPT !.age = @ + 1] : e \in execs}
    /\ UNCHANGED <<status, attempts, mode, batch, permanent, history, faults>>

-----------------------------------------------------------------------------
Execute(e) ==
    \/ HandlerSucceeds(e)
    \/ HandlerFails(e)
    \/ HandlerFailsPermanently(e)
    \/ ForceDead(e)

WorkerStep(w) ==
    \/ Claim(w)
    \/ \E c \in batch[w] : Dispatch(w, c) \/ Requeue(w, c)
    \/ ReclaimStuck(w)
    \/ Stop(w)

Next ==
    \/ \E j \in Jobs : Enqueue(j)
    \/ \E w \in Workers : WorkerStep(w)
    \/ \E e \in execs : Execute(e) \/ OutcomeNotRecorded(e)
    \/ \E w \in Workers : Shutdown(w) \/ Crash(w) \/ Restart(w)
    \/ Tick

Spec == Init /\ [][Next]_vars

\* The runtime keeps scheduling the poll loop and the job goroutines, the
\* container supervisor restarts a worker that is down, and time passes.
Fairness ==
    /\ WF_vars(Tick)
    /\ \A w \in Workers : WF_vars(WorkerStep(w)) /\ WF_vars(Claim(w)) /\ WF_vars(Restart(w))
    /\ WF_vars(\E e \in execs : Execute(e))

FairSpec == Spec /\ Fairness

-----------------------------------------------------------------------------
(* Properties *)

\* No attempt of a job is handed out twice: an <<job, attempt>> pair is held by
\* at most one worker, waiting or in flight but not both, and never lies beyond
\* the attempts the row has counted.  This is what the single claiming statement
\* (FOR UPDATE SKIP LOCKED and the attempts increment in one UPDATE) is for.
HandedOnce ==
    /\ \A v, w \in Workers : v # w => Held(v) \cap Held(w) = {}
    /\ \A e, f \in execs : <<e.job, e.attempt>> = <<f.job, f.attempt>> => e = f
    /\ \A e \in execs : <<e.job, e.attempt>> \notin batch[e.worker]
    /\ \A w \in Workers : \A c \in Held(w) : c[2] <= attempts[c[1]]

\* The budget is the budget, although only claims count attempts and neither a
\* late RetryJob nor ReleaseStuckJobs looks at who holds the row.  A handler is
\* started under no attempt number beyond max_attempts, but for one more each
\* time the job's lock expired (jobs.go: "retry with backoff until max_attempts,
\* after which the job is dead-lettered").  And a dead-lettered job has been tried that often: every
\* attempt of the budget was a handler run, except those that a draining or dying
\* worker gave up, and those an overtaken worker still has waiting.
WithinBudget ==
    /\ \A r \in ran : r[2] <= MaxAttempts + released[r[1]]
    /\ \A j \in Jobs : status[j] = "DEAD" =>
          \A n \in 1..MaxAttempts :
             \/ <<j, n>> \in ran \cup unrun
             \/ j \in overtaken \cup permanent /\ \E w \in Workers : <<j, n>> \in batch[w]

\* Whatever interleaving of enqueue, late completion and retry, at most one
\* pending or running row carries a dedupe key (jobs_dedupe_idx).
OneLivePerKey ==
    \A j, k \in Jobs :
        /\ j # k
        /\ DedupeKey[j] = DedupeKey[k]
        /\ DedupeKey[j] # NoKey
        => ~(status[j] \in Live /\ status[k] \in Live)

Settled == {"SUCCEEDED", "DEAD"}

\* A job that has neither failed permanently nor been released under a living
\* holder never has two handlers running at once.
OneHandler ==
    \A e, f \in execs :
        (e.job = f.job /\ e.job \notin permanent \cup overtaken) => e = f

\* One run of a job at a time decides it: no second handler starts, and the
\* recorded outcome is final, through crashes, drains, lost statements and
\* releases of what a dead worker held.  The two ways out are named: the
\* forced-dead loop of a permanent failure, and a lock that expires while its
\* holder lives, as the default settings allow (a deadline of 30 minutes, a lock
\* of 15), after which a late CompleteJob or RetryJob, comparing neither status
\* nor owner, rewrites the outcome.
OneRunDecides ==
    [][/\ OneHandler'
       /\ \A j \in Jobs \ (permanent' \cup overtaken') :
             status[j] \in Settled => status'[j] = status[j]]_vars

\* Every submitted job eventually succeeds or is dead-lettered, although a
\* worker may crash, drain or lose the statement that records an outcome.
EventuallySettled ==
    \A j \in Jobs : status[j] \in Live ~> status[j] \in Settled

\* ErrPermanent "must not be retried [...] The job is dead-lettered
\* immediately" (jobs.go): no claim of a job after its permanent failure.
PermanentNotRetried ==
    [][\A j \in permanent : ~(status[j] = "PENDING" /\ status'[j] = "RUNNING")]_vars

=============================================================================
