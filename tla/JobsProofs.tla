----------------------------- MODULE JobsProofs -----------------------------
(* Proofs about the job queue, for any number of jobs and workers. *)
EXTENDS Jobs, FiniteSetTheorems, TLAPS

USE DEF history

LEMMA RetryJobType ==
    ASSUME TypeOK, NEW j \in Jobs, NEW b \in Nat, RetryJob(j, b)
    PROVE  /\ status' \in [Jobs -> Statuses]
           /\ attempts' \in [Jobs -> Nat]
           /\ delay' \in [Jobs -> Nat]
           /\ lockAge' \in [Jobs -> Nat]
    BY DEF TypeOK, RetryJob, RetryStatus, rowVars, Statuses

\* The queue's state stays well formed under every interleaving of claims,
\* executions, maintenance and crashes (Worker.Run and platform.sql).
THEOREM TypeCorrect == Spec => []TypeOK
<1>1. Init => TypeOK
    BY DEF Init, TypeOK, Statuses, Modes
<1>2. TypeOK /\ [Next]_vars => TypeOK'
    <2> SUFFICES ASSUME TypeOK, [Next]_vars PROVE TypeOK'
        OBVIOUS
    <2> USE JobsAssumption
    <2>1. ASSUME NEW j \in Jobs, Enqueue(j) PROVE TypeOK'
        BY <2>1 DEF Enqueue, TypeOK, Statuses
    <2>2. ASSUME NEW w \in Workers, Claim(w) PROVE TypeOK'
        <3>1. PICK S \in SUBSET Runnable :
                /\ status' = [j \in Jobs |-> IF j \in S THEN "RUNNING" ELSE status[j]]
                /\ attempts' = [j \in Jobs |-> IF j \in S THEN attempts[j] + 1 ELSE attempts[j]]
                /\ lockAge' = [j \in Jobs |-> IF j \in S THEN 0 ELSE lockAge[j]]
                /\ batch' = [batch EXCEPT ![w] = {<<j, attempts[j] + 1>> : j \in S}]
            BY <2>2 DEF Claim
        <3>2. S \subseteq Jobs
            BY DEF Runnable
        <3>3. {<<j, attempts[j] + 1>> : j \in S} \subseteq Claims
            BY <3>2 DEF TypeOK, Claims
        <3> QED BY <2>2, <3>1, <3>2, <3>3 DEF Claim, TypeOK, Statuses
    <2>3. ASSUME NEW w \in Workers, NEW c \in batch[w], Dispatch(w, c) PROVE TypeOK'
        <3>1. c[1] \in Jobs /\ c[2] \in Nat
            BY DEF TypeOK, Claims
        <3>2. [worker |-> w, job |-> c[1], attempt |-> c[2],
               phase |-> "handler", age |-> 0, tries |-> 0] \in Executions
            BY <3>1 DEF Executions
        <3> QED BY <2>3, <3>2 DEF Dispatch, TypeOK, rowVars
    <2>4. ASSUME NEW w \in Workers, NEW c \in batch[w], Requeue(w, c) PROVE TypeOK'
        <3>1. c[1] \in Jobs
            BY DEF TypeOK, Claims
        <3> QED BY <2>4, <3>1, RetryJobType DEF Requeue, TypeOK
    <2>5. ASSUME NEW w \in Workers, ReclaimStuck(w) PROVE TypeOK'
        BY <2>5 DEF ReclaimStuck, Stuck, TypeOK, Statuses
    <2>6. ASSUME NEW w \in Workers, Stop(w) PROVE TypeOK'
        BY <2>6 DEF Stop, TypeOK, Modes, rowVars
    <2>7. ASSUME NEW e \in execs, HandlerSucceeds(e) PROVE TypeOK'
        BY <2>7 DEF HandlerSucceeds, CompleteJob, TypeOK, Executions, Statuses
    <2>8. ASSUME NEW e \in execs, HandlerFails(e) PROVE TypeOK'
        BY <2>8, RetryJobType DEF HandlerFails, TypeOK, Executions
    <2>9. ASSUME NEW e \in execs, HandlerFailsPermanently(e) PROVE TypeOK'
        <3>1. [e EXCEPT !.phase = "forcing"] \in Executions
            BY DEF TypeOK, Executions
        <3>2. e.job \in Jobs
            BY DEF TypeOK, Executions
        <3> QED BY <2>9, <3>1, <3>2, RetryJobType DEF HandlerFailsPermanently, TypeOK
    <2>10. ASSUME NEW e \in execs, ForceDead(e) PROVE TypeOK'
        <3>1. [e EXCEPT !.tries = @ + 1] \in Executions
            BY DEF TypeOK, Executions
        <3>2. e.job \in Jobs
            BY DEF TypeOK, Executions
        <3> QED BY <2>10, <3>1, <3>2, RetryJobType DEF ForceDead, TypeOK, rowVars
    <2>11. ASSUME NEW e \in execs, OutcomeNotRecorded(e) PROVE TypeOK'
        BY <2>11 DEF OutcomeNotRecorded, TypeOK, rowVars
    <2>12. ASSUME NEW w \in Workers, Shutdown(w) PROVE TypeOK'
        BY <2>12 DEF Shutdown, TypeOK, Modes, rowVars
    <2>13. ASSUME NEW w \in Workers, Crash(w) PROVE TypeOK'
        BY <2>13 DEF Crash, TypeOK, Modes, rowVars
    <2>14. ASSUME NEW w \in Workers, Restart(w) PROVE TypeOK'
        BY <2>14 DEF Restart, TypeOK, Modes, rowVars
    <2>15. ASSUME Tick PROVE TypeOK'
        <3>1. \A e \in execs : [e EXCEPT !.age = @ + 1] \in Executions
            BY DEF TypeOK, Executions
        <3> QED BY <2>15, <3>1 DEF Tick, TypeOK
    <2>16. CASE UNCHANGED vars
        BY <2>16 DEF vars, TypeOK
    <2> QED
        BY <2>1, <2>2, <2>3, <2>4, <2>5, <2>6, <2>7, <2>8, <2>9, <2>10, <2>11,
           <2>12, <2>13, <2>14, <2>15, <2>16
        DEF Next, WorkerStep, Execute
<1> QED BY <1>1, <1>2, PTL DEF Spec

-----------------------------------------------------------------------------
LEMMA RetryJobKey ==
    ASSUME TypeOK, OneLivePerKey, NEW j \in Jobs, NEW b \in Nat, RetryJob(j, b)
    PROVE  OneLivePerKey'
<1>1. CASE RetryRejected(j)
    BY <1>1 DEF RetryJob, rowVars, OneLivePerKey
<1>2. CASE ~RetryRejected(j)
    <2>1. status' = [status EXCEPT ![j] = RetryStatus(j)]
        BY <1>2 DEF RetryJob
    <2>2. \A k \in Jobs \ {j} : status'[k] = status[k]
        BY <2>1 DEF TypeOK
    <2>3. status'[j] = RetryStatus(j)
        BY <2>1 DEF TypeOK
    <2> QED BY <1>2, <2>2, <2>3 DEF RetryRejected, DedupeConflict, OneLivePerKey
<1> QED BY <1>1, <1>2

\* jobs_dedupe_idx is preserved by every statement that can make a row live
\* again, including a RetryJob that arrives after the row was settled.
THEOREM KeyCorrect == Spec => []OneLivePerKey
<1>1. Init => OneLivePerKey
    BY DEF Init, OneLivePerKey, Live
<1>2. TypeOK /\ OneLivePerKey /\ [Next]_vars => OneLivePerKey'
    <2> SUFFICES ASSUME TypeOK, OneLivePerKey, [Next]_vars PROVE OneLivePerKey'
        OBVIOUS
    <2> USE JobsAssumption
    <2>0. \A e \in execs : e.job \in Jobs
        BY DEF TypeOK, Executions
    <2>1. ASSUME NEW j \in Jobs, Enqueue(j) PROVE OneLivePerKey'
        BY <2>1 DEF Enqueue, DedupeConflict, OneLivePerKey, TypeOK
    <2>2. ASSUME NEW w \in Workers, Claim(w) PROVE OneLivePerKey'
        <3>1. \A j \in Jobs : status'[j] \in Live => status[j] \in Live
            BY <2>2 DEF Claim, Runnable, Live
        <3> QED BY <3>1 DEF OneLivePerKey
    <2>3. ASSUME NEW w \in Workers, NEW c \in batch[w], Requeue(w, c) PROVE OneLivePerKey'
        BY <2>3, RetryJobKey DEF Requeue, TypeOK, Claims
    <2>4. ASSUME NEW w \in Workers, ReclaimStuck(w) PROVE OneLivePerKey'
        <3>1. \A j \in Jobs : status'[j] \in Live => status[j] \in Live
            BY <2>4 DEF ReclaimStuck, Stuck, Live
        <3> QED BY <3>1 DEF OneLivePerKey
    <2>5. ASSUME NEW e \in execs, Execute(e) PROVE OneLivePerKey'
        <3>1. CASE HandlerSucceeds(e)
            <4>1. \A j \in Jobs : status'[j] \in Live => status[j] \in Live
                BY <2>0, <3>1 DEF HandlerSucceeds, CompleteJob, TypeOK, Live
            <4> QED BY <4>1 DEF OneLivePerKey
        <3>2. CASE HandlerFails(e)
            BY <2>0, <3>2, RetryJobKey DEF HandlerFails
        <3>3. CASE HandlerFailsPermanently(e)
            BY <2>0, <3>3, RetryJobKey DEF HandlerFailsPermanently
        <3>4. CASE ForceDead(e)
            <4>1. CASE RetryJob(e.job, 0)
                BY <2>0, <4>1, RetryJobKey
            <4>2. CASE UNCHANGED rowVars
                BY <4>2 DEF rowVars, OneLivePerKey
            <4> QED BY <3>4, <4>1, <4>2 DEF ForceDead
        <3> QED BY <2>5, <3>1, <3>2, <3>3, <3>4 DEF Execute
    <2>6. ASSUME UNCHANGED rowVars PROVE OneLivePerKey'
        BY <2>6 DEF rowVars, OneLivePerKey
    <2>7. ASSUME Tick PROVE OneLivePerKey'
        BY <2>7 DEF Tick, OneLivePerKey
    <2> QED
        BY <2>1, <2>2, <2>3, <2>4, <2>5, <2>6, <2>7
        DEF Next, WorkerStep, Dispatch, Stop, OutcomeNotRecorded, Shutdown, Crash,
            Restart, vars, rowVars
<1> QED BY <1>1, <1>2, TypeCorrect, PTL DEF Spec

-----------------------------------------------------------------------------
\* A step that adds no claim and no goroutine, keeps the attempts, and maps
\* every goroutine left to one with the same identity keeps HandedOnce.
LEMMA HandedShrinks ==
    ASSUME TypeOK, HandedOnce, attempts' = attempts,
           \A w \in Workers : batch'[w] \subseteq batch[w],
           execs' \subseteq execs
    PROVE  HandedOnce'
<1>1. \A w \in Workers : Held(w)' \subseteq Held(w)
    BY DEF Held, Running
<1>2. \A e \in execs : e.worker \in Workers
    BY DEF TypeOK, Executions
<1> QED BY <1>1, <1>2 DEF HandedOnce

\* The same when one goroutine e is replaced by f with e's identity.
LEMMA HandedReplaces ==
    ASSUME TypeOK, HandedOnce, attempts' = attempts, batch' = batch,
           NEW e \in execs, NEW f,
           f.worker = e.worker, f.job = e.job, f.attempt = e.attempt,
           execs' = (execs \ {e}) \cup {f}
    PROVE  HandedOnce'
<1>1. \A w \in Workers : Held(w)' \subseteq Held(w)
    BY DEF Held, Running
<1> QED BY <1>1 DEF HandedOnce

\* No attempt of a job is ever in the hands of two workers, or twice in the
\* hands of one: the guarantee of the single claiming UPDATE.
THEOREM HandedCorrect == Spec => []HandedOnce
<1>1. Init => HandedOnce
    BY DEF Init, HandedOnce, Held, Running
<1>2. TypeOK /\ HandedOnce /\ [Next]_vars => HandedOnce'
    <2> SUFFICES ASSUME TypeOK, HandedOnce, [Next]_vars PROVE HandedOnce'
        OBVIOUS
    <2> USE JobsAssumption
    <2>1. ASSUME NEW w \in Workers, Claim(w) PROVE HandedOnce'
        <3>1. PICK S \in SUBSET Runnable :
                /\ attempts' = [j \in Jobs |-> IF j \in S THEN attempts[j] + 1 ELSE attempts[j]]
                /\ batch' = [batch EXCEPT ![w] = {<<j, attempts[j] + 1>> : j \in S}]
            BY <2>1 DEF Claim
        <3>2. S \subseteq Jobs /\ execs' = execs
            BY <2>1 DEF Runnable, Claim
        <3> DEFINE New == {<<j, attempts[j] + 1>> : j \in S}
        <3>3. /\ Held(w)' = New \cup Held(w)
              /\ \A v \in Workers \ {w} : Held(v)' = Held(v)
            BY <2>1, <3>1, <3>2 DEF Claim, Held, Running, TypeOK
        <3>4. \A v \in Workers : Held(v) \cap New = {}
            <4> SUFFICES ASSUME NEW v \in Workers, NEW j \in S, <<j, attempts[j] + 1>> \in Held(v)
                         PROVE FALSE
                OBVIOUS
            <4>1. attempts[j] + 1 <= attempts[j]
                BY DEF HandedOnce
            <4> QED BY <3>2, <4>1 DEF TypeOK
        <3>5. \A v, u \in Workers : v # u => Held(v)' \cap Held(u)' = {}
            BY <3>3, <3>4 DEF HandedOnce
        <3>6. \A e, f \in execs' : <<e.job, e.attempt>> = <<f.job, f.attempt>> => e = f
            BY <3>2 DEF HandedOnce
        <3>7. \A e \in execs' : <<e.job, e.attempt>> \notin batch'[e.worker]
            <4> SUFFICES ASSUME NEW e \in execs PROVE <<e.job, e.attempt>> \notin batch'[e.worker]
                BY <3>2
            <4>1. e.worker \in Workers /\ <<e.job, e.attempt>> \in Held(e.worker)
                BY DEF TypeOK, Executions, Held, Running
            <4>2. batch'[w] = New
                BY <3>1 DEF TypeOK
            <4>3. e.worker # w => batch'[e.worker] = batch[e.worker]
                BY <3>1, <4>1 DEF TypeOK
            <4> QED BY <3>4, <4>1, <4>2, <4>3 DEF HandedOnce
        <3>8. \A v \in Workers : \A c \in Held(v)' : c[2] <= attempts'[c[1]]
            <4>1. \A c \in New : c[2] <= attempts'[c[1]]
                BY <3>1, <3>2 DEF TypeOK
            <4>2. \A v \in Workers : \A c \in Held(v) : c \in Claims
                BY DEF TypeOK, Held, Running, Executions, Claims
            <4>3. \A j \in Jobs : attempts'[j] >= attempts[j] /\ attempts'[j] \in Nat
                BY <3>1 DEF TypeOK
            <4>4. \A v \in Workers : \A c \in Held(v) : c[2] <= attempts'[c[1]]
                BY <4>2, <4>3 DEF HandedOnce, Claims, TypeOK
            <4> QED BY <3>3, <4>1, <4>4
        <3> QED BY <3>5, <3>6, <3>7, <3>8 DEF HandedOnce
    <2>2. ASSUME NEW w \in Workers, NEW c \in batch[w], Dispatch(w, c) PROVE HandedOnce'
        <3> DEFINE n == [worker |-> w, job |-> c[1], attempt |-> c[2],
                         phase |-> "handler", age |-> 0, tries |-> 0]
        <3>1. /\ batch' = [batch EXCEPT ![w] = @ \ {c}]
              /\ execs' = execs \cup {n}
              /\ attempts' = attempts
            BY <2>2 DEF Dispatch, rowVars
        <3>2. n.worker = w /\ <<n.job, n.attempt>> = c
            BY DEF TypeOK, Claims
        <3>3. /\ batch'[w] = batch[w] \ {c}
              /\ \A v \in Workers \ {w} : batch'[v] = batch[v]
            BY <3>1 DEF TypeOK
        <3>4. \A v \in Workers : Held(v)' \subseteq Held(v)
            BY <3>1, <3>2, <3>3 DEF Held, Running
        <3>5. \A e \in execs : e.worker \in Workers /\ <<e.job, e.attempt>> \in Held(e.worker)
            BY DEF TypeOK, Executions, Held, Running
        <3>6. \A e \in execs : <<e.job, e.attempt>> # c
            <4> SUFFICES ASSUME NEW e \in execs, <<e.job, e.attempt>> = c PROVE FALSE
                OBVIOUS
            <4>1. c \in Held(w) /\ c \in Held(e.worker)
                BY <3>5 DEF Held
            <4>2. e.worker = w
                BY <3>5, <4>1 DEF HandedOnce
            <4> QED BY <4>2 DEF HandedOnce
        <3>7. \A e, f \in execs' : <<e.job, e.attempt>> = <<f.job, f.attempt>> => e = f
            BY <3>1, <3>2, <3>6 DEF HandedOnce
        <3>8. \A e \in execs' : <<e.job, e.attempt>> \notin batch'[e.worker]
            BY <3>1, <3>2, <3>3, <3>5 DEF HandedOnce
        <3> HIDE DEF n
        <3> QED BY <3>1, <3>4, <3>7, <3>8 DEF HandedOnce
    <2>3. ASSUME NEW w \in Workers, NEW c \in batch[w], Requeue(w, c) PROVE HandedOnce'
        <3>1. attempts' = attempts
            BY <2>3 DEF Requeue, RetryJob, rowVars
        <3> QED BY <2>3, <3>1, HandedShrinks DEF Requeue, TypeOK
    <2>4. ASSUME NEW w \in Workers, ReclaimStuck(w) \/ Stop(w) PROVE HandedOnce'
        BY <2>4, HandedShrinks DEF ReclaimStuck, Stop, rowVars
    <2>5. ASSUME NEW e \in execs, Execute(e) PROVE HandedOnce'
        <3>1. attempts' = attempts /\ batch' = batch
            BY <2>5 DEF Execute, HandlerSucceeds, HandlerFails, HandlerFailsPermanently,
                        ForceDead, CompleteJob, RetryJob, rowVars
        <3>2. CASE execs' = execs \ {e}
            BY <3>1, <3>2, HandedShrinks
        <3>3. CASE execs' = (execs \ {e}) \cup {[e EXCEPT !.phase = "forcing"]}
            <4>1. /\ [e EXCEPT !.phase = "forcing"].worker = e.worker
                  /\ [e EXCEPT !.phase = "forcing"].job = e.job
                  /\ [e EXCEPT !.phase = "forcing"].attempt = e.attempt
                BY DEF TypeOK, Executions
            <4> QED BY <3>1, <3>3, <4>1, HandedReplaces
        <3>4. CASE execs' = (execs \ {e}) \cup {[e EXCEPT !.tries = @ + 1]}
            <4>1. /\ [e EXCEPT !.tries = @ + 1].worker = e.worker
                  /\ [e EXCEPT !.tries = @ + 1].job = e.job
                  /\ [e EXCEPT !.tries = @ + 1].attempt = e.attempt
                BY DEF TypeOK, Executions
            <4> QED BY <3>1, <3>4, <4>1, HandedReplaces
        <3> QED BY <2>5, <3>2, <3>3, <3>4
                DEF Execute, HandlerSucceeds, HandlerFails, HandlerFailsPermanently, ForceDead
    <2>6. ASSUME NEW e \in execs, OutcomeNotRecorded(e) PROVE HandedOnce'
        BY <2>6, HandedShrinks DEF OutcomeNotRecorded, rowVars
    <2>7. ASSUME NEW w \in Workers, Shutdown(w) \/ Crash(w) \/ Restart(w) PROVE HandedOnce'
        BY <2>7, HandedShrinks DEF Shutdown, Crash, Restart, rowVars, TypeOK
    <2>8. ASSUME NEW j \in Jobs, Enqueue(j) PROVE HandedOnce'
        BY <2>8, HandedShrinks DEF Enqueue
    <2>9. ASSUME Tick PROVE HandedOnce'
        <3>1. attempts' = attempts /\ batch' = batch
            BY <2>9 DEF Tick
        <3>2. \A f \in execs' : \E e \in execs :
                /\ f = [e EXCEPT !.age = @ + 1]
                /\ f.worker = e.worker /\ f.job = e.job /\ f.attempt = e.attempt
            BY <2>9 DEF Tick, TypeOK, Executions
        <3>3. \A w \in Workers : Held(w)' \subseteq Held(w)
            BY <3>1, <3>2 DEF Held, Running
        <3>4. \A e, f \in execs' : <<e.job, e.attempt>> = <<f.job, f.attempt>> => e = f
            BY <3>2 DEF HandedOnce
        <3>5. \A e \in execs' : <<e.job, e.attempt>> \notin batch'[e.worker]
            BY <3>1, <3>2 DEF HandedOnce
        <3> QED BY <3>1, <3>3, <3>4, <3>5 DEF HandedOnce
    <2>10. CASE UNCHANGED vars
        BY <2>10, HandedShrinks DEF vars
    <2> QED
        BY <2>1, <2>2, <2>3, <2>4, <2>5, <2>6, <2>7, <2>8, <2>9, <2>10
        DEF Next, WorkerStep
<1> QED BY <1>1, <1>2, TypeCorrect, PTL DEF Spec
-----------------------------------------------------------------------------
(* One run decides: a job is owned by the worker that claimed it last. *)

\* A job that has neither failed permanently nor been overtaken is held only under
\* its last attempt, and while its row says RUNNING.
Owned ==
    \A j \in Jobs \ (permanent \cup overtaken) : \A w \in Workers : \A c \in Held(w) :
        c[1] = j => status[j] = "RUNNING" /\ c[2] = attempts[j]

\* Only a permanent failure enters the forced-dead loop.
Forced == \A e \in execs : e.phase = "forcing" => e.job \in permanent

DecideInv == Owned /\ Forced

\* A retry or a completion makes no lock older and touches one row.
LEMMA RowWrite ==
    ASSUME TypeOK, NEW j \in Jobs, NEW b \in Nat, RetryJob(j, b) \/ CompleteJob(j)
    PROVE  /\ attempts' = attempts
           /\ \A k \in Jobs : lockAge'[k] <= lockAge[k]
           /\ \A k \in Jobs \ {j} : status'[k] = status[k]
  BY DEF RetryJob, CompleteJob, rowVars, TypeOK

\* What an execution's step does: it ends, or stays with its identity and age.
LEMMA ExecuteStep ==
    ASSUME TypeOK, NEW e \in execs, Execute(e)
    PROVE  /\ e.job \in Jobs /\ attempts' = attempts /\ batch' = batch
           /\ \A k \in Jobs : lockAge'[k] <= lockAge[k]
           /\ \A k \in Jobs \ {e.job} : status'[k] = status[k]
           /\ permanent \subseteq permanent' /\ overtaken' = overtaken
           /\ \/ execs' = execs \ {e} /\ (e.phase = "forcing" \/ permanent' = permanent)
              \/ /\ e.job \in permanent'
                 /\ \/ execs' = execs \ {e}
                    \/ \E f \in Executions :
                          /\ f.worker = e.worker /\ f.job = e.job /\ f.attempt = e.attempt
                          /\ f.age = e.age /\ execs' = (execs \ {e}) \cup {f}
                 /\ e.phase = "handler"
              \/ /\ e.phase = "forcing" /\ permanent' = permanent
                 /\ \E f \in Executions :
                       /\ f.worker = e.worker /\ f.job = e.job /\ f.attempt = e.attempt
                       /\ f.age = e.age /\ execs' = (execs \ {e}) \cup {f}
<1>0. e \in Executions /\ e.job \in Jobs BY DEF TypeOK, Executions
<1>n. 0 \in Nat /\ Backoffs \subseteq Nat BY JobsAssumption
<1>k. ASSUME UNCHANGED rowVars
      PROVE  /\ attempts' = attempts /\ \A k \in Jobs : lockAge'[k] <= lockAge[k]
             /\ \A k \in Jobs \ {e.job} : status'[k] = status[k]
  BY <1>k DEF rowVars, TypeOK
<1>1. CASE HandlerSucceeds(e)
  BY <1>0, <1>n, <1>1, RowWrite DEF HandlerSucceeds
<1>2. CASE HandlerFails(e)
  BY <1>0, <1>n, <1>2, RowWrite DEF HandlerFails
<1>3. CASE HandlerFailsPermanently(e)
  <2> DEFINE f == [e EXCEPT !.phase = "forcing"]
  <2>1. /\ f \in Executions /\ f.worker = e.worker /\ f.job = e.job
        /\ f.attempt = e.attempt /\ f.age = e.age
    BY <1>0 DEF Executions
  <2>2. execs' = execs \ {e} \/ execs' = (execs \ {e}) \cup {f}
    BY <1>3 DEF HandlerFailsPermanently
  <2> HIDE DEF f
  <2>3. /\ e.phase = "handler" /\ permanent' = permanent \cup {e.job} /\ batch' = batch
        /\ overtaken' = overtaken
        /\ \E b \in Backoffs : RetryJob(e.job, b)
    BY <1>3 DEF HandlerFailsPermanently
  <2>4. /\ attempts' = attempts /\ \A k \in Jobs : lockAge'[k] <= lockAge[k]
        /\ \A k \in Jobs \ {e.job} : status'[k] = status[k]
    BY <1>0, <1>n, <2>3, RowWrite
  <2>5. QED BY <1>0, <2>1, <2>2, <2>3, <2>4
<1>4. CASE ForceDead(e)
  <2> DEFINE f == [e EXCEPT !.tries = @ + 1]
  <2>1. /\ f \in Executions /\ f.worker = e.worker /\ f.job = e.job
        /\ f.attempt = e.attempt /\ f.age = e.age
    BY <1>0 DEF Executions
  <2>2. execs' = execs \ {e} \/ execs' = (execs \ {e}) \cup {f}
    BY <1>4 DEF ForceDead
  <2> HIDE DEF f
  <2>3. /\ e.phase = "forcing" /\ permanent' = permanent /\ batch' = batch
        /\ overtaken' = overtaken
        /\ RetryJob(e.job, 0) \/ UNCHANGED rowVars
    BY <1>4 DEF ForceDead
  <2>4. /\ attempts' = attempts /\ \A k \in Jobs : lockAge'[k] <= lockAge[k]
        /\ \A k \in Jobs \ {e.job} : status'[k] = status[k]
    BY <1>0, <1>n, <1>k, <2>3, RowWrite
  <2>5. QED BY <1>0, <2>1, <2>2, <2>3, <2>4
<1>5. QED BY <1>1, <1>2, <1>3, <1>4 DEF Execute

\* A job nobody holds any more, or whose row is as it was, is still owned.
LEMMA OwnedKept ==
    ASSUME Owned, \A w \in Workers : Held(w)' \subseteq Held(w), permanent \subseteq permanent',
           overtaken \subseteq overtaken',
           \A j \in Jobs \ (permanent' \cup overtaken') :
              \/ status'[j] = status[j] /\ attempts'[j] = attempts[j]
              \/ \A w \in Workers : \A c \in Held(w)' : c[1] # j
    PROVE  Owned'
  BY DEF Owned

\* What a step keeps, and does to a settled row.
Decided ==
    \A j \in Jobs \ (permanent' \cup overtaken') : status[j] \in Settled => status'[j] = status[j]

LEMMA SameRows ==
    ASSUME TypeOK, Owned, status' = status, attempts' = attempts, permanent' = permanent,
           overtaken' = overtaken, \A w \in Workers : Held(w)' \subseteq Held(w)
    PROVE  Owned' /\ Decided
  BY OwnedKept DEF Decided

\* The pair a requeue or a handler gives up was held once.
LEMMA GivenUp ==
    ASSUME TypeOK, HandedOnce, Owned, NEW w \in Workers, NEW c \in Held(w),
           NEW j \in Jobs \ (permanent \cup overtaken), j = c[1],
           \A v \in Workers : Held(v)' \subseteq Held(v), c \notin Held(w)'
    PROVE  /\ status[j] = "RUNNING"
           /\ \A v \in Workers : \A d \in Held(v)' : d[1] # j
<1>1. status[j] = "RUNNING" /\ c[2] = attempts[j] BY DEF Owned
<1>2. \A v \in Workers : \A d \in Held(v) : d = <<d[1], d[2]>>
  BY DEF Held, TypeOK, Claims, Running
<1>3. ASSUME NEW v \in Workers, NEW d \in Held(v)', d[1] = j PROVE FALSE
  <2>1. d \in Held(v) /\ d[2] = attempts[j] BY <1>3 DEF Owned
  <2>2. d = c BY <1>1, <1>2, <1>3, <2>1
  <2>3. v = w BY <2>1, <2>2 DEF HandedOnce
  <2>4. QED BY <2>2, <2>3
<1>4. QED BY <1>1, <1>3

LEMMA OwnedEnqueue ==
    ASSUME TypeOK, Owned, NEW j \in Jobs, Enqueue(j) PROVE Owned' /\ Decided
<1>1. /\ status[j] = "NONE" /\ status' = [status EXCEPT ![j] = "PENDING"]
      /\ UNCHANGED <<attempts, batch, execs, permanent, overtaken>>
  BY DEF Enqueue
<1>2. \A k \in Jobs \ {j} : status'[k] = status[k] BY <1>1 DEF TypeOK
<1>3. \A w \in Workers : Held(w)' = Held(w) BY <1>1 DEF Held, Running
<1>4. j \notin permanent \cup overtaken => \A w \in Workers : \A c \in Held(w)' : c[1] # j
  BY <1>1, <1>3 DEF Owned
<1>5. Owned' BY <1>1, <1>2, <1>3, <1>4, OwnedKept
<1>6. QED BY <1>1, <1>2, <1>5 DEF Decided, Settled

LEMMA OwnedClaim ==
    ASSUME TypeOK, Owned, NEW w \in Workers, Claim(w) PROVE Owned' /\ Decided
<1>1. PICK S \in SUBSET Runnable :
        /\ status' = [j \in Jobs |-> IF j \in S THEN "RUNNING" ELSE status[j]]
        /\ attempts' = [j \in Jobs |-> IF j \in S THEN attempts[j] + 1 ELSE attempts[j]]
        /\ batch' = [batch EXCEPT ![w] = {<<j, attempts[j] + 1>> : j \in S}]
        /\ execs' = execs /\ permanent' = permanent /\ batch[w] = {} /\ overtaken' = overtaken
  BY DEF Claim
<1> DEFINE New == {<<j, attempts[j] + 1>> : j \in S}
<1>2. \A j \in S : j \in Jobs /\ status[j] = "PENDING" BY DEF Runnable
<1>3. \A v \in Workers : Held(v)' \subseteq Held(v) \cup New
  BY <1>1 DEF Held, Running, TypeOK
<1>4. \A c \in New : c[1] \in S /\ c[2] = attempts[c[1]] + 1 OBVIOUS
<1> HIDE DEF New
<1>5. ASSUME NEW j \in Jobs \ (permanent \cup overtaken), NEW v \in Workers, NEW c \in Held(v)', c[1] = j
      PROVE  status'[j] = "RUNNING" /\ c[2] = attempts'[j]
  <2>1. CASE c \in New BY <1>1, <1>4, <1>5, <2>1
  <2>2. CASE c \in Held(v)
    <3>1. status[j] = "RUNNING" /\ c[2] = attempts[j] BY <1>5, <2>2 DEF Owned
    <3>2. j \notin S BY <1>2, <3>1
    <3>3. QED BY <1>1, <3>1, <3>2
  <2>3. QED BY <1>3, <2>1, <2>2
<1>6. Owned' BY <1>1, <1>5 DEF Owned
<1>7. Decided BY <1>1, <1>2 DEF Decided, Settled
<1>8. QED BY <1>6, <1>7

LEMMA OwnedDispatch ==
    ASSUME TypeOK, Owned, NEW w \in Workers, NEW c \in batch[w], Dispatch(w, c)
    PROVE  Owned' /\ Decided
<1> DEFINE n == [worker |-> w, job |-> c[1], attempt |-> c[2],
                 phase |-> "handler", age |-> 0, tries |-> 0]
<1>1. /\ batch' = [batch EXCEPT ![w] = @ \ {c}] /\ execs' = execs \cup {n}
      /\ status' = status /\ attempts' = attempts /\ permanent' = permanent
      /\ overtaken' = overtaken
  BY DEF Dispatch, rowVars
<1>2. n.worker = w /\ <<n.job, n.attempt>> = c BY DEF TypeOK, Claims
<1> HIDE DEF n
<1>3. \A v \in Workers : Held(v)' \subseteq Held(v) BY <1>1, <1>2 DEF Held, Running, TypeOK
<1>4. QED BY <1>1, <1>3, SameRows

LEMMA OwnedRequeue ==
    ASSUME TypeOK, HandedOnce, Owned, NEW w \in Workers, NEW c \in batch[w], Requeue(w, c)
    PROVE  Owned' /\ Decided
<1> DEFINE j == c[1]
<1>1. j \in Jobs /\ 0 \in Nat /\ c = <<c[1], c[2]>> BY DEF TypeOK, Claims
<1>2. /\ batch' = [batch EXCEPT ![w] = @ \ {c}] /\ execs' = execs /\ permanent' = permanent
      /\ overtaken' = overtaken /\ attempts' = attempts /\ \A k \in Jobs \ {j} : status'[k] = status[k]
  BY <1>1, RowWrite DEF Requeue
<1>3. \A v \in Workers : Held(v)' \subseteq Held(v) BY <1>2 DEF Held, Running, TypeOK
<1>4. c \in Held(w) /\ c \notin Held(w)'
  <2>1. \A e \in execs : e.worker = w => <<e.job, e.attempt>> # c BY DEF HandedOnce
  <2>2. QED BY <1>2, <2>1 DEF Held, Running, TypeOK
<1>5. j \notin permanent \cup overtaken =>
        status[j] = "RUNNING" /\ \A v \in Workers : \A d \in Held(v)' : d[1] # j
  BY <1>1, <1>3, <1>4, GivenUp
<1> HIDE DEF j
<1>6. Owned' BY <1>2, <1>3, <1>5, OwnedKept
<1>7. Decided BY <1>2, <1>5 DEF Decided, Settled
<1>8. QED BY <1>6, <1>7

LEMMA OwnedExecute ==
    ASSUME TypeOK, HandedOnce, Owned, Forced, NEW e \in execs, Execute(e)
    PROVE  Owned' /\ Decided
<1> DEFINE j == e.job
           c == <<e.job, e.attempt>>
           w == e.worker
<1>1. /\ j \in Jobs /\ attempts' = attempts /\ batch' = batch
      /\ \A k \in Jobs \ {j} : status'[k] = status[k]
      /\ permanent \subseteq permanent' /\ overtaken' = overtaken
  BY ExecuteStep
<1>2. /\ w \in Workers /\ c \in Held(w) /\ c[1] = j /\ c \notin batch[w]
  BY DEF TypeOK, Executions, Held, Running, HandedOnce
<1>3. \A v \in Workers : Held(v)' \subseteq Held(v)
  <2>1. \A f \in execs' : \E d \in execs :
            f.worker = d.worker /\ <<f.job, f.attempt>> = <<d.job, d.attempt>>
    BY ExecuteStep
  <2>2. QED BY <1>1, <2>1 DEF Held, Running
<1>4. j \notin permanent' => c \notin Held(w)'
  <2>1. j \notin permanent' => execs' = execs \ {e} BY ExecuteStep DEF Forced
  <2>2. \A f \in execs \ {e} : <<f.job, f.attempt>> # c BY DEF HandedOnce
  <2>3. QED BY <1>1, <1>2, <2>1, <2>2 DEF Held, Running
<1> HIDE DEF j, c, w
<1>5. j \notin permanent' \cup overtaken' =>
        status[j] = "RUNNING" /\ \A v \in Workers : \A d \in Held(v)' : d[1] # j
  BY <1>1, <1>2, <1>3, <1>4, GivenUp
<1>6. Owned' BY <1>1, <1>3, <1>5, OwnedKept
<1>7. Decided BY <1>1, <1>5 DEF Decided, Settled
<1>8. QED BY <1>6, <1>7

LEMMA OwnedReclaim ==
    ASSUME TypeOK, Owned, NEW w \in Workers, ReclaimStuck(w)
    PROVE  Owned' /\ Decided
<1>1. /\ status' = [j \in Jobs |-> IF j \in Stuck THEN "PENDING" ELSE status[j]]
      /\ attempts' = attempts /\ batch' = batch /\ execs' = execs /\ permanent' = permanent
      /\ overtaken' = overtaken \cup
            {j \in Stuck : \E v \in Workers : \E c \in Held(v) : c[1] = j}
  BY DEF ReclaimStuck
<1>2. \A v \in Workers : Held(v)' = Held(v) BY <1>1 DEF Held, Running
<1>3. \A j \in Jobs : \/ status'[j] = status[j]
                      \/ j \in Stuck /\ status[j] = "RUNNING"
  BY <1>1 DEF Stuck
<1>4. \A j \in Jobs \ (permanent' \cup overtaken') :
        \/ status'[j] = status[j] /\ attempts'[j] = attempts[j]
        \/ \A v \in Workers : \A c \in Held(v)' : c[1] # j
  BY <1>1, <1>2, <1>3
<1>5. Owned' BY <1>1, <1>2, <1>4, OwnedKept
<1>6. Decided BY <1>3 DEF Decided, Settled
<1>7. QED BY <1>5, <1>6

LEMMA OwnedStep ==
    ASSUME TypeOK, HandedOnce, DecideInv, Next PROVE Owned' /\ Decided
<1>0. Owned /\ Forced BY DEF DecideInv
<1>1. CASE /\ UNCHANGED <<status, attempts, permanent, overtaken>>
           /\ \A v \in Workers : batch'[v] \subseteq batch[v]
           /\ \A f \in execs' : \E e \in execs :
                 f.worker = e.worker /\ f.job = e.job /\ f.attempt = e.attempt
  <2>1. \A v \in Workers : Held(v)' \subseteq Held(v) BY <1>1 DEF Held, Running
  <2>2. QED BY <1>0, <1>1, <2>1, SameRows
<1>2. CASE Tick
  <2>1. \A f \in execs' : \E e \in execs :
            f.worker = e.worker /\ f.job = e.job /\ f.attempt = e.attempt
    BY <1>2 DEF Tick, TypeOK, Executions
  <2>2. QED BY <1>1, <1>2, <2>1 DEF Tick
<1>3. ASSUME NEW w \in Workers, Crash(w) PROVE Owned' /\ Decided
  <2>1. \A v \in Workers : batch'[v] \subseteq batch[v] BY <1>3 DEF Crash, TypeOK
  <2>2. QED BY <1>1, <1>3, <2>1 DEF Crash, rowVars
<1>4. ASSUME NEW e \in execs, OutcomeNotRecorded(e) PROVE Owned' /\ Decided
  BY <1>1, <1>4 DEF OutcomeNotRecorded, rowVars
<1>5. ASSUME NEW w \in Workers, Stop(w) \/ Shutdown(w) \/ Restart(w) PROVE Owned' /\ Decided
  BY <1>1, <1>5 DEF Stop, Shutdown, Restart, rowVars
<1>6. QED
  BY <1>0, <1>2, <1>3, <1>4, <1>5, OwnedEnqueue, OwnedClaim, OwnedDispatch, OwnedRequeue,
     OwnedExecute, OwnedReclaim
  DEF Next, WorkerStep

LEMMA ForcedStep == ASSUME TypeOK, Forced, [Next]_vars PROVE Forced'
<1>1. CASE execs' \subseteq execs /\ permanent \subseteq permanent' BY <1>1 DEF Forced
<1>2. ASSUME NEW w \in Workers, NEW c \in batch[w], Dispatch(w, c) PROVE Forced'
  BY <1>2 DEF Dispatch, Forced
<1>3. ASSUME NEW e \in execs, Execute(e) PROVE Forced'
  <2>1. CASE execs' \subseteq execs BY <1>1, <1>3, <2>1, ExecuteStep
  <2>2. CASE ~(execs' \subseteq execs)
    <3>1. /\ permanent \subseteq permanent'
          /\ e.job \in permanent'
          /\ \A f \in execs' : f \in execs \/ f.job = e.job
      BY <1>3, <2>2, ExecuteStep DEF Forced
    <3>2. QED BY <3>1 DEF Forced
  <2>3. QED BY <2>1, <2>2
<1>4. CASE Tick
  <2>1. \A f \in execs' : \E e \in execs : f.job = e.job /\ f.phase = e.phase
    BY <1>4 DEF Tick, TypeOK, Executions
  <2>2. QED BY <1>4, <2>1 DEF Tick, Forced
<1>5. QED
  BY <1>1, <1>2, <1>3, <1>4
  DEF Next, WorkerStep, Enqueue, Claim, Requeue, ReclaimStuck, Stop, OutcomeNotRecorded,
      Shutdown, Crash, Restart, vars

LEMMA DecideInit == ASSUME Init PROVE DecideInv
  BY DEF Init, DecideInv, Owned, Forced, Held, Running

\* What OneRunDecides rests on holds in every reachable state.
LEMMA DecideCorrect == Spec => [](TypeOK /\ HandedOnce /\ DecideInv)
<1>1. Init => DecideInv BY DecideInit
<1>2. TypeOK /\ HandedOnce /\ DecideInv /\ [Next]_vars => DecideInv'
  <2> SUFFICES ASSUME TypeOK, HandedOnce, DecideInv, [Next]_vars PROVE DecideInv'
    OBVIOUS
  <2>1. Forced' BY ForcedStep DEF DecideInv
  <2>2. CASE Next BY <2>1, <2>2, OwnedStep DEF DecideInv
  <2>3. CASE UNCHANGED vars
    <3>1. Owned' BY <2>3 DEF DecideInv, Owned, Held, Running, vars
    <3>2. QED BY <2>1, <3>1 DEF DecideInv
  <2>4. QED BY <2>2, <2>3
<1>3. QED BY <1>1, <1>2, TypeCorrect, HandedCorrect, PTL DEF Spec

\* One run of a job at a time decides it, and the recorded outcome is final,
\* whatever the timeouts: only the forced-dead loop of a permanent failure and a
\* lock that expires under its living holder (ReleaseStuckJobs) start a second
\* run or let a late outcome rewrite the row (jobs.go, platform.sql).
THEOREM OneRunCorrect == Spec => OneRunDecides
<1>1. TypeOK /\ HandedOnce /\ Owned => OneHandler
  <2> SUFFICES ASSUME TypeOK, HandedOnce, Owned, NEW e \in execs, NEW f \in execs,
                      e.job = f.job, e.job \notin permanent \cup overtaken
               PROVE  e = f
    BY DEF OneHandler
  <2>1. /\ e.worker \in Workers /\ <<e.job, e.attempt>> \in Held(e.worker) /\ e.job \in Jobs
        /\ f.worker \in Workers /\ <<f.job, f.attempt>> \in Held(f.worker)
    BY DEF TypeOK, Executions, Held, Running
  <2>2. e.attempt = attempts[e.job] /\ f.attempt = attempts[e.job] BY <2>1 DEF Owned
  <2>3. QED BY <2>2 DEF HandedOnce
<1>2. TypeOK /\ HandedOnce /\ DecideInv => OneHandler BY <1>1 DEF DecideInv
<1>3. TypeOK /\ HandedOnce /\ DecideInv /\ OneHandler' /\ [Next]_vars =>
        [/\ OneHandler'
         /\ \A j \in Jobs \ (permanent' \cup overtaken') :
               status[j] \in Settled => status'[j] = status[j]]_vars
  BY OwnedStep DEF Decided
<1>4. QED BY <1>2, <1>3, DecideCorrect, PTL DEF Spec, OneRunDecides

-----------------------------------------------------------------------------
(***************************************************************************)
(* The attempt budget.  Every attempt a row has counted is waiting in a    *)
(* batch, was run, or was given up; RetryJob lets no row with a spent      *)
(* budget live, so only a release makes one claimable.                     *)
(***************************************************************************)
Numbered(j, n) == <<j, n>> \in ran \cup unrun \/ \E w \in Workers : <<j, n>> \in batch[w]

RowInBudget(j) ==
    /\ attempts[j] <= MaxAttempts + released[j]
    /\ status[j] = "PENDING" => attempts[j] < MaxAttempts + released[j]
    /\ status[j] = "NONE" => attempts[j] = 0
    /\ status[j] = "DEAD" => attempts[j] >= MaxAttempts

BudgetInv ==
    /\ \A j \in Jobs : RowInBudget(j)
    /\ \A j \in Jobs : \A n \in 1..attempts[j] : Numbered(j, n)
    /\ \A r \in ran : r[2] <= attempts[r[1]]

\* A step that leaves the attempts alone and gives up nothing without a trace.
LEMMA BudgetKept ==
    ASSUME BudgetInv, attempts' = attempts, ran' = ran, unrun \subseteq unrun',
           \A w \in Workers : batch[w] \subseteq batch'[w] \cup unrun',
           \A j \in Jobs : RowInBudget(j)'
    PROVE  BudgetInv'
  BY DEF BudgetInv, Numbered

LEMMA RetryInBudget ==
    ASSUME TypeOK, BudgetInv, NEW j \in Jobs, NEW b \in Nat,
           RetryJob(j, b) \/ CompleteJob(j), released' = released
    PROVE  attempts' = attempts /\ \A k \in Jobs : RowInBudget(k)'
  BY JobsAssumption
  DEF TypeOK, RetryJob, CompleteJob, RetryStatus, rowVars, BudgetInv, RowInBudget

LEMMA RowsInBudget ==
    ASSUME TypeOK, BudgetInv, status' = status, attempts' = attempts, released' = released
    PROVE  \A k \in Jobs : RowInBudget(k)'
  BY DEF BudgetInv, RowInBudget

LEMMA BudgetClaim ==
    ASSUME TypeOK, BudgetInv, NEW w \in Workers, Claim(w) PROVE BudgetInv'
<1>1. PICK S \in SUBSET Runnable :
        /\ status' = [j \in Jobs |-> IF j \in S THEN "RUNNING" ELSE status[j]]
        /\ attempts' = [j \in Jobs |-> IF j \in S THEN attempts[j] + 1 ELSE attempts[j]]
        /\ batch' = [batch EXCEPT ![w] = {<<j, attempts[j] + 1>> : j \in S}]
        /\ batch[w] = {} /\ UNCHANGED <<ran, unrun, released>>
  BY DEF Claim
<1>2. \A j \in S : j \in Jobs /\ status[j] = "PENDING" BY DEF Runnable
<1>3. \A j \in Jobs : attempts[j] \in Nat /\ released[j] \in Nat /\ MaxAttempts \in Nat
  BY JobsAssumption DEF TypeOK
<1>4. ASSUME NEW j \in Jobs PROVE RowInBudget(j)'
  <2>1. RowInBudget(j) BY DEF BudgetInv
  <2>2. CASE j \in S BY <1>1, <1>2, <1>3, <2>1, <2>2 DEF RowInBudget
  <2>3. CASE j \notin S BY <1>1, <1>3, <2>1, <2>3 DEF RowInBudget
  <2>4. QED BY <2>2, <2>3
<1>5. ASSUME NEW j \in Jobs, NEW n \in 1..attempts'[j] PROVE Numbered(j, n)'
  <2>1. CASE j \in S /\ n = attempts[j] + 1
    <3>1. <<j, n>> \in batch'[w] BY <1>1, <2>1 DEF TypeOK
    <3>2. QED BY <3>1 DEF Numbered
  <2>2. CASE n \in 1..attempts[j]
    <3>1. Numbered(j, n) BY <2>2 DEF BudgetInv
    <3>2. \A v \in Workers : batch[v] \subseteq batch'[v] BY <1>1 DEF TypeOK
    <3>3. QED BY <1>1, <3>1, <3>2 DEF Numbered
  <2>3. QED BY <1>1, <1>3, <2>1, <2>2
<1>6. ASSUME NEW r \in ran' PROVE r[2] <= attempts'[r[1]]
  <2>1. r \in ran /\ r[1] \in Jobs /\ r[2] \in Nat BY <1>1 DEF TypeOK, Claims
  <2>2. r[2] <= attempts[r[1]] BY <2>1 DEF BudgetInv
  <2>3. QED BY <1>1, <1>3, <2>1, <2>2
<1>7. QED BY <1>4, <1>5, <1>6 DEF BudgetInv

LEMMA BudgetDispatch ==
    ASSUME TypeOK, HandedOnce, BudgetInv, NEW w \in Workers, NEW c \in batch[w], Dispatch(w, c)
    PROVE  BudgetInv'
<1>1. /\ batch' = [batch EXCEPT ![w] = @ \ {c}] /\ ran' = ran \cup {c}
      /\ UNCHANGED <<status, attempts, unrun, released>>
  BY DEF Dispatch, rowVars
<1>2. \A j \in Jobs : RowInBudget(j)' BY <1>1, RowsInBudget
<1>3. \A v \in Workers : batch[v] \subseteq batch'[v] \cup ran' BY <1>1 DEF TypeOK
<1>4. \A j \in Jobs : \A n \in 1..attempts'[j] : Numbered(j, n)'
  BY <1>1, <1>3 DEF BudgetInv, Numbered
<1>5. c[2] <= attempts[c[1]] BY DEF HandedOnce, Held
<1>6. QED BY <1>1, <1>2, <1>4, <1>5 DEF BudgetInv

LEMMA BudgetStep == ASSUME TypeOK, HandedOnce, BudgetInv, [Next]_vars PROVE BudgetInv'
<1>0. \A e \in execs : e.job \in Jobs BY DEF TypeOK, Executions
<1>n. 0 \in Nat /\ Backoffs \subseteq Nat BY JobsAssumption
<1>1. CASE UNCHANGED <<status, attempts, released, ran, unrun, batch>>
  <2>1. \A j \in Jobs : RowInBudget(j)' BY <1>1, RowsInBudget
  <2>2. QED BY <1>1, <2>1, BudgetKept
<1>2. ASSUME NEW j \in Jobs, Enqueue(j) PROVE BudgetInv'
  <2>1. \A k \in Jobs : RowInBudget(k)'
    BY <1>2, JobsAssumption DEF Enqueue, TypeOK, BudgetInv, RowInBudget
  <2>2. QED BY <1>2, <2>1, BudgetKept DEF Enqueue
<1>3. ASSUME NEW w \in Workers, NEW c \in batch[w], Requeue(w, c) PROVE BudgetInv'
  <2>1. c[1] \in Jobs BY DEF TypeOK, Claims
  <2>2. attempts' = attempts /\ \A k \in Jobs : RowInBudget(k)'
    BY <1>3, <1>n, <2>1, RetryInBudget DEF Requeue
  <2>3. \A v \in Workers : batch[v] \subseteq batch'[v] \cup unrun' BY <1>3 DEF Requeue, TypeOK
  <2>4. QED BY <1>3, <2>2, <2>3, BudgetKept DEF Requeue
<1>4. ASSUME NEW w \in Workers, ReclaimStuck(w) PROVE BudgetInv'
  <2>1. /\ attempts' = attempts /\ UNCHANGED <<ran, unrun, batch>>
        /\ status' = [j \in Jobs |-> IF j \in Stuck THEN "PENDING" ELSE status[j]]
        /\ released' = [j \in Jobs |-> IF j \in Stuck THEN released[j] + 1 ELSE released[j]]
    BY <1>4 DEF ReclaimStuck
  <2>2. ASSUME NEW k \in Jobs PROVE RowInBudget(k)'
    <3>1. attempts[k] \in Nat /\ released[k] \in Nat /\ MaxAttempts \in Nat
      BY JobsAssumption DEF TypeOK
    <3>2. RowInBudget(k) BY DEF BudgetInv
    <3>3. QED BY <2>1, <3>1, <3>2 DEF RowInBudget
  <2>3. QED BY <2>1, <2>2, BudgetKept
<1>5. ASSUME NEW e \in execs, Execute(e) PROVE BudgetInv'
  <2>1. UNCHANGED <<batch, ran, unrun, released>>
    BY <1>5 DEF Execute, HandlerSucceeds, HandlerFails, HandlerFailsPermanently, ForceDead
  <2>2. \/ \E b \in Nat : RetryJob(e.job, b) \/ CompleteJob(e.job)
        \/ UNCHANGED rowVars
    BY <1>5, <1>n
    DEF Execute, HandlerSucceeds, HandlerFails, HandlerFailsPermanently, ForceDead
  <2>3. CASE UNCHANGED rowVars BY <1>1, <2>1, <2>3 DEF rowVars
  <2>4. CASE \E b \in Nat : RetryJob(e.job, b) \/ CompleteJob(e.job)
    <3>1. attempts' = attempts /\ \A k \in Jobs : RowInBudget(k)'
      BY <1>0, <2>1, <2>4, RetryInBudget
    <3>2. QED BY <2>1, <3>1, BudgetKept
  <2>5. QED BY <2>2, <2>3, <2>4
<1>6. ASSUME NEW w \in Workers, Crash(w) PROVE BudgetInv'
  <2>1. /\ UNCHANGED <<status, attempts, released, ran>> /\ unrun \subseteq unrun'
        /\ \A v \in Workers : batch[v] \subseteq batch'[v] \cup unrun'
    BY <1>6 DEF Crash, rowVars, TypeOK
  <2>2. \A j \in Jobs : RowInBudget(j)' BY <2>1, RowsInBudget
  <2>3. QED BY <2>1, <2>2, BudgetKept
<1>7. QED
  BY <1>1, <1>2, <1>3, <1>4, <1>5, <1>6, BudgetClaim, BudgetDispatch
  DEF Next, WorkerStep, Stop, OutcomeNotRecorded, Shutdown, Restart, Tick, vars, rowVars

\* The attempt budget bounds the handler runs of a job and is spent on handler
\* runs before it is dead-lettered (Worker.fail, Worker.requeue, RetryJob,
\* ReleaseStuckJobs), for any number of workers, crashes, drains and late outcomes.
THEOREM BudgetCorrect == Spec => []WithinBudget
<1>1. Init => BudgetInv
  BY JobsAssumption DEF Init, BudgetInv, RowInBudget, Numbered
<1>2. TypeOK /\ HandedOnce /\ BudgetInv /\ [Next]_vars => BudgetInv' BY BudgetStep
<1>3. TypeOK /\ DecideInv /\ BudgetInv => WithinBudget
  <2> SUFFICES ASSUME TypeOK, DecideInv, BudgetInv PROVE WithinBudget
    OBVIOUS
  <2>1. ASSUME NEW r \in ran PROVE r[2] <= MaxAttempts + released[r[1]]
    <3>1. r[1] \in Jobs /\ r[2] \in Nat BY DEF TypeOK, Claims
    <3>2. r[2] <= attempts[r[1]] /\ attempts[r[1]] <= MaxAttempts + released[r[1]]
      BY <3>1 DEF BudgetInv, RowInBudget
    <3>3. attempts[r[1]] \in Nat /\ released[r[1]] \in Nat /\ MaxAttempts \in Nat
      BY <3>1, JobsAssumption DEF TypeOK
    <3>4. QED BY <3>1, <3>2, <3>3
  <2>2. ASSUME NEW j \in Jobs, status[j] = "DEAD", NEW n \in 1..MaxAttempts
        PROVE  \/ <<j, n>> \in ran \cup unrun
               \/ j \in overtaken \cup permanent /\ \E w \in Workers : <<j, n>> \in batch[w]
    <3>1. attempts[j] >= MaxAttempts /\ attempts[j] \in Nat /\ MaxAttempts \in Nat
      BY <2>2, JobsAssumption DEF BudgetInv, RowInBudget, TypeOK
    <3>2. Numbered(j, n) BY <3>1 DEF BudgetInv
    <3>3. ASSUME NEW w \in Workers, <<j, n>> \in batch[w] PROVE j \in overtaken \cup permanent
      BY <2>2, <3>3 DEF DecideInv, Owned, Held
    <3>4. QED BY <3>2, <3>3 DEF Numbered
  <2>3. QED BY <2>1, <2>2 DEF WithinBudget
<1>4. QED BY <1>1, <1>2, <1>3, DecideCorrect, PTL DEF Spec

-----------------------------------------------------------------------------
(***************************************************************************)
(* Nothing is overtaken where the lock outlives the longest wait for a     *)
(* slot and a handler run after it.  Every claim of a batch waits at *)
(* most for the handlers already running and for those dispatched from its *)
(* own batch before it, JobTimeout each.                                   *)
(***************************************************************************)
Patient == StuckAfter >= (BatchSize + 1) * JobTimeout

\* The time n handlers take, one after the other.
Work(n) == n * JobTimeout

LEMMA WorkLemma ==
    /\ JobTimeout \in Nat /\ BatchSize \in Nat
    /\ \A n \in Nat : Work(n) \in Nat /\ Work(n + 1) = Work(n) + JobTimeout
    /\ \A n, m \in Nat : n <= m => Work(n) <= Work(m)
<1>0. JobTimeout \in Nat /\ BatchSize \in Nat BY JobsAssumption
<1>1. ASSUME NEW n \in Nat PROVE Work(n) \in Nat /\ Work(n + 1) = Work(n) + JobTimeout
  BY <1>0 DEF Work
<1>2. ASSUME NEW n \in Nat, NEW m \in Nat, n <= m PROVE Work(n) <= Work(m)
  <2>1. m - n \in Nat /\ m = n + (m - n) BY <1>2
  <2>2. (m - n) * JobTimeout \in Nat BY <1>0, <2>1
  <2>3. m * JobTimeout = n * JobTimeout + (m - n) * JobTimeout BY <1>0, <2>1
  <2>4. n * JobTimeout \in Nat BY <1>0
  <2>5. QED BY <2>2, <2>3, <2>4 DEF Work
<1>3. QED BY <1>0, <1>1, <1>2

Size(w) == Cardinality(batch[w])

\* A batch is as large as the claim's LIMIT at most.
Bounded == \A w \in Workers : IsFiniteSet(batch[w]) /\ Size(w) <= BatchSize

\* What is left of a batch still fits: the age of a waiting claim's lock and the
\* work the batch still has make up no more than the batch had, plus what the
\* handlers that keep it waiting have done so far.
Waiting ==
    \A w \in Workers : \A c \in batch[w] :
        /\ lockAge[c[1]] + Work(Size(w)) <= Work(BatchSize) + JobTimeout
        /\ \A e \in Running(w) : lockAge[c[1]] + Work(Size(w)) <= Work(BatchSize) + e.age

\* A handler started within a batch's work of its claim, and honours its deadline.
InTime ==
    \A e \in execs : lockAge[e.job] <= Work(BatchSize) + e.age /\ e.age <= JobTimeout

TimeInv == Bounded /\ Waiting /\ InTime

\* A step that takes no claim, starts no handler and lets no time pass.
LEMMA TimeKept ==
    ASSUME TypeOK, TypeOK', TimeInv,
           \A j \in Jobs : lockAge'[j] <= lockAge[j],
           \A w \in Workers : batch'[w] \subseteq batch[w],
           \A f \in execs' : \E e \in execs :
              f.worker = e.worker /\ f.job = e.job /\ f.age = e.age
    PROVE  TimeInv'
<1>1. ASSUME NEW w \in Workers
      PROVE  /\ IsFiniteSet(batch'[w]) /\ Size(w)' \in Nat /\ Size(w) \in Nat
             /\ Size(w)' <= Size(w) /\ Size(w) <= BatchSize
  <2>1. IsFiniteSet(batch[w]) /\ Size(w) <= BatchSize BY DEF TimeInv, Bounded
  <2>2. IsFiniteSet(batch'[w]) /\ Cardinality(batch'[w]) <= Cardinality(batch[w])
    BY <2>1, FS_Subset
  <2>3. Cardinality(batch'[w]) \in Nat /\ Cardinality(batch[w]) \in Nat
    BY <2>1, <2>2, FS_CardinalityType
  <2>4. QED BY <2>1, <2>2, <2>3 DEF Size
<1>2. Bounded' BY <1>1, WorkLemma DEF Bounded
<1>3. ASSUME NEW w \in Workers, NEW c \in batch'[w]
      PROVE  /\ lockAge'[c[1]] + Work(Size(w))' <= Work(BatchSize) + JobTimeout
             /\ \A f \in Running(w)' : lockAge'[c[1]] + Work(Size(w))' <= Work(BatchSize) + f.age
  <2>1. c \in batch[w] /\ c[1] \in Jobs BY DEF TypeOK, Claims
  <2>2. /\ lockAge'[c[1]] <= lockAge[c[1]] /\ lockAge'[c[1]] \in Nat /\ lockAge[c[1]] \in Nat
    BY <2>1 DEF TypeOK
  <2>3. Work(Size(w))' <= Work(Size(w)) /\ Work(Size(w))' \in Nat /\ Work(Size(w)) \in Nat
    <3>1. Work(Size(w))' = Work(Size(w)') BY DEF Work
    <3>2. QED BY <1>1, <3>1, WorkLemma
  <2>4. /\ lockAge[c[1]] + Work(Size(w)) <= Work(BatchSize) + JobTimeout
        /\ \A e \in Running(w) : lockAge[c[1]] + Work(Size(w)) <= Work(BatchSize) + e.age
    BY <2>1 DEF TimeInv, Waiting
  <2>5. Work(BatchSize) \in Nat /\ JobTimeout \in Nat BY WorkLemma
  <2>6. lockAge'[c[1]] + Work(Size(w))' <= Work(BatchSize) + JobTimeout
    BY <2>2, <2>3, <2>4, <2>5
  <2>7. ASSUME NEW f \in Running(w)'
        PROVE  lockAge'[c[1]] + Work(Size(w))' <= Work(BatchSize) + f.age
    <3>1. PICK e \in execs : f.worker = e.worker /\ f.job = e.job /\ f.age = e.age
      BY DEF Running
    <3>2. e \in Running(w) /\ e.age \in Nat BY <3>1 DEF Running, TypeOK, Executions
    <3>3. lockAge[c[1]] + Work(Size(w)) <= Work(BatchSize) + e.age BY <2>4, <3>2
    <3>4. lockAge'[c[1]] + Work(Size(w))' <= Work(BatchSize) + e.age
      BY <2>2, <2>3, <2>5, <3>2, <3>3
    <3>5. QED BY <3>1, <3>4
  <2>8. QED BY <2>6, <2>7
<1>4. Waiting' BY <1>3 DEF Waiting, Work
<1>5. ASSUME NEW f \in execs'
      PROVE  lockAge'[f.job] <= Work(BatchSize) + f.age /\ f.age <= JobTimeout
  <2>1. PICK e \in execs : f.worker = e.worker /\ f.job = e.job /\ f.age = e.age OBVIOUS
  <2>2. e.job \in Jobs /\ e.age \in Nat BY DEF TypeOK, Executions
  <2>3. lockAge[e.job] <= Work(BatchSize) + e.age /\ e.age <= JobTimeout
    BY DEF TimeInv, InTime
  <2>4. lockAge'[e.job] <= lockAge[e.job] /\ lockAge'[e.job] \in Nat /\ lockAge[e.job] \in Nat
    BY <2>2 DEF TypeOK
  <2>5. Work(BatchSize) \in Nat BY WorkLemma
  <2>6. QED BY <2>1, <2>2, <2>3, <2>4, <2>5
<1>6. InTime' BY <1>5 DEF InTime, Work
<1>7. QED BY <1>2, <1>4, <1>6 DEF TimeInv

LEMMA TimeClaim ==
    ASSUME TypeOK, TypeOK', TimeInv, NEW w \in Workers, Claim(w) PROVE TimeInv'
<1>1. PICK S \in SUBSET Runnable :
        /\ Cardinality(S) <= BatchSize
        /\ lockAge' = [j \in Jobs |-> IF j \in S THEN 0 ELSE lockAge[j]]
        /\ batch' = [batch EXCEPT ![w] = {<<j, attempts[j] + 1>> : j \in S}]
        /\ execs' = execs
  BY DEF Claim
<1> DEFINE New == {<<j, attempts[j] + 1>> : j \in S}
<1>2. S \subseteq Jobs BY DEF Runnable
<1>3. IsFiniteSet(S) BY <1>2, JobsAssumption, FS_Subset
<1>4. IsFiniteSet(New) /\ Cardinality(New) <= Cardinality(S)
  <2> DEFINE g == [j \in S |-> <<j, attempts[j] + 1>>]
  <2>1. g \in Surjection(S, New) BY DEF Surjection
  <2>2. QED BY <1>3, <2>1, FS_Surjection
<1>5. Cardinality(New) \in Nat /\ Cardinality(S) \in Nat BY <1>3, <1>4, FS_CardinalityType
<1>6. \A c \in New : c[1] \in S OBVIOUS
<1> HIDE DEF New
<1>7. batch'[w] = New /\ \A v \in Workers \ {w} : batch'[v] = batch[v]
  BY <1>1 DEF TypeOK, New
<1>8. \A j \in Jobs : lockAge'[j] <= lockAge[j] /\ lockAge'[j] \in Nat /\ lockAge[j] \in Nat
  BY <1>1 DEF TypeOK
<1>9. \A j \in S : lockAge'[j] = 0 BY <1>1, <1>2
<1>10. Bounded'
  <2>1. BatchSize \in Nat BY WorkLemma
  <2>2. Cardinality(New) <= BatchSize BY <1>1, <1>4, <1>5, <2>1
  <2>3. Size(w)' = Cardinality(New) BY <1>7 DEF Size
  <2>4. \A v \in Workers \ {w} : Size(v)' = Size(v) BY <1>7 DEF Size
  <2>5. QED BY <1>4, <1>7, <2>2, <2>3, <2>4 DEF Bounded, TimeInv
<1>11. ASSUME NEW v \in Workers, NEW c \in batch'[v]
       PROVE  /\ lockAge'[c[1]] + Work(Size(v))' <= Work(BatchSize) + JobTimeout
              /\ \A e \in Running(v)' : lockAge'[c[1]] + Work(Size(v))' <= Work(BatchSize) + e.age
  <2>0. /\ Work(BatchSize) \in Nat /\ JobTimeout \in Nat
        /\ \A e \in execs : e.age \in Nat
    BY WorkLemma DEF TypeOK, Executions
  <2>1. CASE v = w
    <3>1. lockAge'[c[1]] = 0 BY <1>6, <1>7, <1>9, <2>1
    <3>2. Work(Size(v))' = Work(Cardinality(New)) BY <1>7, <2>1 DEF Work, Size
    <3>3. Work(Cardinality(New)) <= Work(BatchSize) /\ Work(Cardinality(New)) \in Nat
      BY <1>1, <1>4, <1>5, WorkLemma
    <3>4. QED BY <1>1, <2>0, <3>1, <3>2, <3>3 DEF Running
  <2>2. CASE v # w
    <3>1. c \in batch[v] /\ Work(Size(v))' = Work(Size(v)) BY <1>7, <2>2 DEF Work, Size
    <3>2. c[1] \in Jobs BY <3>1 DEF TypeOK, Claims
    <3>3. Size(v) \in Nat BY FS_CardinalityType DEF TimeInv, Bounded, Size
    <3>4. Work(Size(v)) \in Nat BY <3>3, WorkLemma
    <3>5. /\ lockAge[c[1]] + Work(Size(v)) <= Work(BatchSize) + JobTimeout
          /\ \A e \in Running(v) : lockAge[c[1]] + Work(Size(v)) <= Work(BatchSize) + e.age
      BY <3>1 DEF TimeInv, Waiting
    <3>6. \A e \in Running(v) : e.age \in Nat BY <2>0 DEF Running
    <3>7. Running(v)' = Running(v) BY <1>1 DEF Running
    <3>8. lockAge'[c[1]] <= lockAge[c[1]] /\ lockAge'[c[1]] \in Nat /\ lockAge[c[1]] \in Nat
      BY <1>8, <3>2
    <3>9. QED BY <2>0, <3>1, <3>4, <3>5, <3>6, <3>7, <3>8
  <2>3. QED BY <2>1, <2>2
<1>12. Waiting' BY <1>11 DEF Waiting, Work
<1>13. InTime'
  <2>1. ASSUME NEW e \in execs
        PROVE  lockAge'[e.job] <= Work(BatchSize) + e.age /\ e.age <= JobTimeout
    <3>1. e.job \in Jobs /\ e.age \in Nat BY DEF TypeOK, Executions
    <3>2. lockAge[e.job] <= Work(BatchSize) + e.age /\ e.age <= JobTimeout
      BY DEF TimeInv, InTime
    <3>3. lockAge'[e.job] <= lockAge[e.job] /\ lockAge'[e.job] \in Nat /\ lockAge[e.job] \in Nat
      BY <1>8, <3>1
    <3>4. Work(BatchSize) \in Nat BY WorkLemma
    <3>5. QED BY <3>1, <3>2, <3>3, <3>4
  <2>2. QED BY <1>1, <2>1 DEF InTime, Work
<1>14. QED BY <1>10, <1>12, <1>13 DEF TimeInv

LEMMA TimeDispatch ==
    ASSUME TypeOK, TypeOK', TimeInv, NEW w \in Workers, NEW c0 \in batch[w], Dispatch(w, c0)
    PROVE  TimeInv'
<1> DEFINE n == [worker |-> w, job |-> c0[1], attempt |-> c0[2],
                 phase |-> "handler", age |-> 0, tries |-> 0]
           s0 == Cardinality(batch[w] \ {c0})
<1>1. /\ batch' = [batch EXCEPT ![w] = @ \ {c0}] /\ execs' = execs \cup {n}
      /\ lockAge' = lockAge
  BY DEF Dispatch, rowVars
<1>2. n.worker = w /\ n.job = c0[1] /\ n.age = 0 OBVIOUS
<1> HIDE DEF n
<1>3. batch'[w] = batch[w] \ {c0} /\ \A v \in Workers \ {w} : batch'[v] = batch[v]
  BY <1>1 DEF TypeOK
<1>4. IsFiniteSet(batch[w]) /\ Size(w) <= BatchSize BY DEF TimeInv, Bounded
<1>5. IsFiniteSet(batch'[w]) /\ Size(w) = s0 + 1 /\ s0 \in Nat /\ Size(w)' = s0
  <2>1. IsFiniteSet(batch[w] \ {c0}) /\ s0 = Cardinality(batch[w]) - 1
    BY <1>4, FS_RemoveElement
  <2>2. s0 \in Nat /\ Cardinality(batch[w]) \in Nat BY <1>4, <2>1, FS_CardinalityType
  <2>3. QED BY <1>3, <2>1, <2>2 DEF Size
<1> HIDE DEF s0
<1>6. Work(Size(w)) = Work(s0) + JobTimeout /\ Work(s0) \in Nat BY <1>5, WorkLemma
<1>7. Work(BatchSize) \in Nat /\ JobTimeout \in Nat /\ BatchSize \in Nat BY WorkLemma
<1>8. Bounded'
  <2>1. Size(w)' <= BatchSize BY <1>4, <1>5, <1>7
  <2>2. \A v \in Workers \ {w} : Size(v)' = Size(v) BY <1>3 DEF Size
  <2>3. QED BY <1>3, <1>5, <2>1, <2>2 DEF Bounded, TimeInv
<1>9. \A v \in Workers : \A c \in batch[v] : c[1] \in Jobs /\ lockAge[c[1]] \in Nat
  BY DEF TypeOK, Claims
<1>10. \A e \in execs : e.age \in Nat BY DEF TypeOK, Executions
<1>11. ASSUME NEW v \in Workers, NEW c \in batch'[v]
       PROVE  /\ lockAge'[c[1]] + Work(Size(v))' <= Work(BatchSize) + JobTimeout
              /\ \A e \in Running(v)' : lockAge'[c[1]] + Work(Size(v))' <= Work(BatchSize) + e.age
  <2>1. c \in batch[v] BY <1>3
  <2>2. /\ lockAge[c[1]] + Work(Size(v)) <= Work(BatchSize) + JobTimeout
        /\ \A e \in Running(v) : lockAge[c[1]] + Work(Size(v)) <= Work(BatchSize) + e.age
    BY <2>1 DEF TimeInv, Waiting
  <2>3. lockAge[c[1]] \in Nat BY <1>9, <2>1
  <2>4. CASE v = w
    <3>1. Work(Size(v))' = Work(s0) BY <1>5, <2>4 DEF Work
    <3>2. lockAge[c[1]] + Work(s0) <= Work(BatchSize) BY <1>6, <1>7, <2>2, <2>3, <2>4
    <3>3. \A e \in Running(v)' : e.age \in Nat BY <1>1, <1>2, <1>10 DEF Running
    <3>4. QED BY <1>1, <1>6, <1>7, <2>3, <3>1, <3>2, <3>3
  <2>5. CASE v # w
    <3>1. Work(Size(v))' = Work(Size(v)) BY <1>3, <2>5 DEF Work, Size
    <3>2. Running(v)' \subseteq Running(v) BY <1>1, <1>2, <2>5 DEF Running
    <3>3. QED BY <1>1, <2>2, <3>1, <3>2
  <2>6. QED BY <2>4, <2>5
<1>12. Waiting' BY <1>11 DEF Waiting, Work
<1>13. ASSUME NEW e \in execs'
       PROVE  lockAge'[e.job] <= Work(BatchSize) + e.age /\ e.age <= JobTimeout
  <2>1. CASE e \in execs BY <1>1, <2>1 DEF TimeInv, InTime
  <2>2. CASE e = n
    <3>1. lockAge[c0[1]] + Work(Size(w)) <= Work(BatchSize) + JobTimeout
      BY DEF TimeInv, Waiting
    <3>2. lockAge[c0[1]] \in Nat BY <1>9
    <3>3. lockAge[c0[1]] <= Work(BatchSize) BY <1>6, <1>7, <3>1, <3>2
    <3>4. QED BY <1>1, <1>2, <1>7, <2>2, <3>2, <3>3
  <2>3. QED BY <1>1, <2>1, <2>2
<1>14. InTime' BY <1>13 DEF InTime, Work
<1>15. QED BY <1>8, <1>12, <1>14 DEF TimeInv

LEMMA TimeTick == ASSUME TypeOK, TypeOK', TimeInv, Tick PROVE TimeInv'
<1>1. /\ ~DispatchPending /\ \A e \in execs : e.age < JobTimeout
      /\ batch' = batch
      /\ \A j \in Jobs : lockAge'[j] <= lockAge[j] + 1
  BY DEF Tick, TypeOK
<1>2. \A f \in execs' : \E e \in execs :
          f.worker = e.worker /\ f.job = e.job /\ f.age = e.age + 1
  BY DEF Tick, TypeOK, Executions
<1>3. \A e \in execs : e.age \in Nat /\ e.job \in Jobs BY DEF TypeOK, Executions
<1>4. \A j \in Jobs : lockAge[j] \in Nat /\ lockAge'[j] \in Nat BY DEF TypeOK
<1>5. Work(BatchSize) \in Nat /\ JobTimeout \in Nat BY WorkLemma
<1>6. Bounded' BY <1>1 DEF Bounded, Size, TimeInv
<1>7. ASSUME NEW w \in Workers, NEW c \in batch'[w]
      PROVE  /\ lockAge'[c[1]] + Work(Size(w))' <= Work(BatchSize) + JobTimeout
             /\ \A f \in Running(w)' : lockAge'[c[1]] + Work(Size(w))' <= Work(BatchSize) + f.age
  <2>1. c \in batch[w] /\ c[1] \in Jobs BY <1>1 DEF TypeOK, Claims
  <2>2. Work(Size(w))' = Work(Size(w)) BY <1>1 DEF Work, Size
  <2>3. Work(Size(w)) \in Nat
    <3>1. Size(w) \in Nat BY FS_CardinalityType DEF TimeInv, Bounded, Size
    <3>2. QED BY <3>1, WorkLemma
  <2>4. \A e \in Running(w) : lockAge[c[1]] + Work(Size(w)) <= Work(BatchSize) + e.age
    BY <2>1 DEF TimeInv, Waiting
  <2>5. \A e \in Running(w) : e.age \in Nat /\ e.age < JobTimeout BY <1>1, <1>3 DEF Running
  <2>6. lockAge'[c[1]] <= lockAge[c[1]] + 1 /\ lockAge[c[1]] \in Nat /\ lockAge'[c[1]] \in Nat
    BY <1>1, <1>4, <2>1
  <2>7. PICK e0 : e0 \in Running(w)
    <3>1. ~(Cardinality(Running(w)) < Concurrency) BY <1>1, <2>1 DEF DispatchPending
    <3>2. Running(w) # {} BY <3>1, FS_EmptySet, JobsAssumption
    <3>3. QED BY <3>2
  <2>8. lockAge'[c[1]] + Work(Size(w))' <= Work(BatchSize) + JobTimeout
    <3>1. lockAge[c[1]] + Work(Size(w)) <= Work(BatchSize) + e0.age /\ e0.age \in Nat
          /\ e0.age < JobTimeout
      BY <2>4, <2>5, <2>7
    <3>2. QED BY <1>5, <2>2, <2>3, <2>6, <3>1
  <2>9. ASSUME NEW f \in Running(w)'
        PROVE  lockAge'[c[1]] + Work(Size(w))' <= Work(BatchSize) + f.age
    <3>1. PICK e \in execs : f.worker = e.worker /\ f.job = e.job /\ f.age = e.age + 1
      BY <1>2 DEF Running
    <3>2. e \in Running(w) BY <3>1 DEF Running
    <3>3. lockAge[c[1]] + Work(Size(w)) <= Work(BatchSize) + e.age /\ e.age \in Nat
      BY <2>4, <2>5, <3>2
    <3>4. lockAge'[c[1]] + Work(Size(w))' <= Work(BatchSize) + (e.age + 1)
      BY <1>5, <2>2, <2>3, <2>6, <3>3
    <3>5. QED BY <3>1, <3>4
  <2>10. QED BY <2>8, <2>9
<1>8. Waiting' BY <1>7 DEF Waiting, Work
<1>9. ASSUME NEW f \in execs'
      PROVE  lockAge'[f.job] <= Work(BatchSize) + f.age /\ f.age <= JobTimeout
  <2>1. PICK e \in execs : f.worker = e.worker /\ f.job = e.job /\ f.age = e.age + 1
    BY <1>2
  <2>2. e.age \in Nat /\ e.age < JobTimeout /\ e.job \in Jobs BY <1>1, <1>3
  <2>3. lockAge[e.job] <= Work(BatchSize) + e.age BY DEF TimeInv, InTime
  <2>4. lockAge'[e.job] <= lockAge[e.job] + 1 /\ lockAge[e.job] \in Nat /\ lockAge'[e.job] \in Nat
    BY <1>1, <1>4, <2>2
  <2>5. lockAge'[e.job] <= Work(BatchSize) + (e.age + 1) /\ e.age + 1 <= JobTimeout
    BY <1>5, <2>2, <2>3, <2>4
  <2>6. QED BY <2>1, <2>5
<1>10. InTime' BY <1>9 DEF InTime, Work
<1>11. QED BY <1>6, <1>8, <1>10 DEF TimeInv

LEMMA TimeStep == ASSUME TypeOK, TypeOK', TimeInv, [Next]_vars PROVE TimeInv'
<1>1. ASSUME NEW w \in Workers, NEW c \in batch[w], Requeue(w, c) PROVE TimeInv'
  <2>1. c[1] \in Jobs /\ 0 \in Nat BY DEF TypeOK, Claims
  <2>2. \A k \in Jobs : lockAge'[k] <= lockAge[k] BY <1>1, <2>1, RowWrite DEF Requeue
  <2>3. execs' = execs /\ \A v \in Workers : batch'[v] \subseteq batch[v]
    BY <1>1 DEF Requeue, TypeOK
  <2>4. QED BY <2>2, <2>3, TimeKept
<1>2. ASSUME NEW w \in Workers, ReclaimStuck(w) PROVE TimeInv'
  <2>1. \A k \in Jobs : lockAge'[k] <= lockAge[k] BY <1>2 DEF ReclaimStuck, TypeOK
  <2>2. QED BY <1>2, <2>1, TimeKept DEF ReclaimStuck
<1>3. ASSUME NEW e \in execs, Execute(e) PROVE TimeInv'
  <2>1. /\ \A k \in Jobs : lockAge'[k] <= lockAge[k]
        /\ \A v \in Workers : batch'[v] \subseteq batch[v]
    BY <1>3, ExecuteStep
  <2>2. \A f \in execs' : \E d \in execs :
            f.worker = d.worker /\ f.job = d.job /\ f.age = d.age
    BY <1>3, ExecuteStep
  <2>3. QED BY <2>1, <2>2, TimeKept
<1>4. CASE /\ lockAge' = lockAge /\ execs' \subseteq execs
           /\ \A v \in Workers : batch'[v] \subseteq batch[v]
  <2>1. \A k \in Jobs : lockAge'[k] <= lockAge[k] BY <1>4 DEF TypeOK
  <2>2. QED BY <1>4, <2>1, TimeKept
<1>5. ASSUME NEW w \in Workers, Crash(w) PROVE TimeInv'
  BY <1>4, <1>5 DEF Crash, rowVars, TypeOK
<1>6. QED
  BY <1>1, <1>2, <1>3, <1>4, <1>5, TimeClaim, TimeDispatch, TimeTick
  DEF Next, WorkerStep, Enqueue, Stop, OutcomeNotRecorded, Shutdown, Restart, vars, rowVars

-----------------------------------------------------------------------------
\* No job that is held, and has not failed permanently, is taken for stuck.
LEMMA NotStuck ==
    ASSUME Patient, TypeOK, TimeInv, NEW w \in Workers, NEW c \in Held(w)
    PROVE  c[1] \in Jobs /\ c[1] \notin Stuck
<1>1. StuckAfter >= Work(BatchSize) + JobTimeout /\ StuckAfter \in Nat
  <2>1. Work(BatchSize + 1) = Work(BatchSize) + JobTimeout BY WorkLemma
  <2>2. QED BY <2>1, JobsAssumption DEF Patient, Work
<1>2. Work(BatchSize) \in Nat /\ JobTimeout \in Nat BY WorkLemma
<1>3. CASE c \in batch[w]
  <2>1. c[1] \in Jobs /\ lockAge[c[1]] \in Nat BY <1>3 DEF TypeOK, Claims
  <2>2. lockAge[c[1]] + Work(Size(w)) <= Work(BatchSize) + JobTimeout
    BY <1>3 DEF TimeInv, Waiting
  <2>3. Work(Size(w)) \in Nat
    <3>1. Size(w) \in Nat BY FS_CardinalityType DEF TimeInv, Bounded, Size
    <3>2. QED BY <3>1, WorkLemma
  <2>4. lockAge[c[1]] <= StuckAfter BY <1>1, <1>2, <2>1, <2>2, <2>3
  <2>5. QED BY <1>1, <2>1, <2>4 DEF Stuck
<1>4. ASSUME NEW e \in Running(w), c = <<e.job, e.attempt>>
      PROVE  c[1] \in Jobs /\ c[1] \notin Stuck
  <2>1. e \in execs /\ e.job \in Jobs /\ e.age \in Nat /\ lockAge[e.job] \in Nat
    BY DEF Running, TypeOK, Executions
  <2>2. lockAge[e.job] <= Work(BatchSize) + e.age /\ e.age <= JobTimeout
    BY <2>1 DEF TimeInv, InTime
  <2>3. lockAge[e.job] <= StuckAfter BY <1>1, <1>2, <2>1, <2>2
  <2>4. QED BY <1>1, <1>4, <2>1, <2>3 DEF Stuck
<1>5. QED BY <1>3, <1>4 DEF Held

Untaken == overtaken = {}

\* A worker is overtaken in no deployment whose StuckAfter is at least
\* (BatchSize + 1) times the deadline of a job (ReleaseStuckJobs against the
\* context of Worker.execute).  The default settings are not such a deployment.
THEOREM NeverOvertaken == ASSUME Patient PROVE Spec => []Untaken
<1>1. Init => TimeInv /\ Untaken
  <2> SUFFICES ASSUME Init PROVE TimeInv /\ Untaken
    OBVIOUS
  <2>1. /\ \A w \in Workers : batch[w] = {}
        /\ execs = {} /\ overtaken = {}
    BY DEF Init
  <2>2. Bounded
    <3> SUFFICES ASSUME NEW w \in Workers
                 PROVE  IsFiniteSet(batch[w]) /\ Size(w) <= BatchSize
      BY DEF Bounded
    <3>1. BatchSize \in Nat BY WorkLemma
    <3>2. IsFiniteSet(batch[w]) /\ Size(w) = 0 BY <2>1, FS_EmptySet DEF Size
    <3>3. QED BY <3>1, <3>2
  <2>3. QED BY <2>1, <2>2 DEF TimeInv, Waiting, InTime, Untaken
<1>2. TypeOK /\ TypeOK' /\ TimeInv /\ Untaken /\ [Next]_vars => TimeInv' /\ Untaken'
  <2> SUFFICES ASSUME TypeOK, TypeOK', TimeInv, Untaken, [Next]_vars
               PROVE  TimeInv' /\ Untaken'
    OBVIOUS
  <2>1. TimeInv' BY TimeStep
  <2>2. ASSUME NEW w \in Workers, ReclaimStuck(w) PROVE Untaken'
    <3>1. \A v \in Workers : \A c \in Held(v) : c[1] \notin Stuck BY NotStuck
    <3>2. QED BY <2>2, <3>1 DEF ReclaimStuck, Untaken
  <2>3. ASSUME NEW e \in execs, Execute(e) PROVE Untaken' BY <2>3, ExecuteStep DEF Untaken
  <2>4. QED
    BY <2>1, <2>2, <2>3
    DEF Next, WorkerStep, Enqueue, Claim, Dispatch, Requeue, Stop, OutcomeNotRecorded,
        Shutdown, Crash, Restart, Tick, vars, Untaken
<1>3. QED BY <1>1, <1>2, TypeCorrect, PTL DEF Spec

=============================================================================
