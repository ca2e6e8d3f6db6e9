------------------------------ MODULE JobQueue ------------------------------
(***************************************************************************)
(* The Postgres job queue (services/crawler/jobs/queue.py over the table   *)
(* crawl_jobs of migrations 0003 and 0004) and the worker processes that   *)
(* poll it (services/crawler/jobs/worker.py, run as --loop services by     *)
(* deploy/systemd/crawler-worker.service).                                 *)
(*                                                                         *)
(* Every action is one committed database transaction together with the    *)
(* worker's local steps up to the next one.  Wall-clock time is abstracted *)
(* to what the statements compare: whether a job's scheduled_at has passed *)
(* and in which order (dueAt), and whether a lock is older than the stale  *)
(* timeout (stale).                                                        *)
(***************************************************************************)
EXTENDS Naturals, FiniteSets

CONSTANTS
    Jobs,           \* rows crawl_jobs may come to hold
    Workers,        \* worker processes (services), each one job at a time
    Keys,           \* entries of the two partial unique indexes: a target, or
                    \* a (source, job type) pair for jobs without a target
    NoKey,          \* a job with neither target nor source: never indexed
    NoJob, NoWorker,
    MaxAttempts,    \* column max_attempts (default 5)
    MaxDisruptions, \* bound on crashes and termination signals
    Overrun         \* may a live handler outlast the stale timeout?

ASSUME ConstantsOK ==
    /\ NoJob \notin Jobs
    /\ NoWorker \notin Workers
    /\ NoKey \notin Keys
    /\ MaxAttempts \in Nat \ {0}
    /\ MaxDisruptions \in Nat
    /\ Overrun \in BOOLEAN

VARIABLES
    status,      \* job -> job_status, or "ABSENT" before the row is inserted
    attempts,    \* job -> attempt_count
    key,         \* job -> its unique-index entry
    dueAt,       \* job -> rank of scheduled_at among the instants that have
                 \* passed; 0 while scheduled_at lies in the future
    lockedBy,    \* job -> locked_by
    stale,       \* RUNNING jobs whose locked_at is older than the timeout
    clock,       \* the latest rank handed out
    pc,          \* worker -> where it is in run_once / main
    job,         \* worker -> the claimed job it is executing
    stopping,    \* worker -> _shutdown_requested
    disruptions  \* crashes and signals so far

table  == <<status, attempts, key, dueAt, lockedBy, stale, clock>>
vars   == <<status, attempts, key, dueAt, lockedBy, stale, clock,
            pc, job, stopping, disruptions>>

Active   == {"PENDING", "RUNNING", "RETRY"}
Terminal == {"SUCCESS", "FAILED"}

TypeOK ==
    /\ status \in [Jobs -> Active \cup Terminal \cup {"ABSENT"}]
    /\ attempts \in [Jobs -> Nat]
    /\ key \in [Jobs -> Keys \cup {NoKey}]
    /\ dueAt \in [Jobs -> Nat]
    /\ lockedBy \in [Jobs -> Workers \cup {NoWorker}]
    /\ stale \subseteq Jobs
    /\ clock \in Nat
    /\ pc \in [Workers -> {"down", "idle", "loop", "claim", "run"}]
    /\ job \in [Workers -> Jobs \cup {NoJob}]
    /\ stopping \in [Workers -> BOOLEAN]
    /\ disruptions \in 0..MaxDisruptions

Init ==
    /\ status = [j \in Jobs |-> "ABSENT"]
    /\ attempts = [j \in Jobs |-> 0]
    /\ key = [j \in Jobs |-> NoKey]
    /\ dueAt = [j \in Jobs |-> 0]
    /\ lockedBy = [j \in Jobs |-> NoWorker]
    /\ stale = {}
    /\ clock = 0
    /\ pc = [w \in Workers |-> "idle"]
    /\ job = [w \in Workers |-> NoJob]
    /\ stopping = [w \in Workers |-> FALSE]
    /\ disruptions = 0

-----------------------------------------------------------------------------
(* The table.                                                              *)

(* Operators named <Definition>_<fault> are mutated forms of the definition *)
(* that follows: no specification uses them, they show which fault each    *)
(* property detects.                                                       *)

IndexAdmits_forgetsRetry(j, k) ==
    k # NoKey => \A i \in Jobs \ {j} :
                    key[i] = k => status[i] \notin {"PENDING", "RUNNING"}

\* May job j be active under key k next to the rows of the table?
IndexAdmits(j, k) ==
    k # NoKey => \A i \in Jobs \ {j} : key[i] = k => status[i] \notin Active

\* The scheduler and the CLI create keyed jobs at the default priority; the
\* API's domain discoveries carry neither target nor source.
Priority(j) == IF key[j] = NoKey THEN 150 ELSE 100

CreateJob_revivesFinished(j, k) ==
    /\ status[j] \notin Active
    /\ IndexAdmits(j, k)
    /\ status' = [status EXCEPT ![j] = "PENDING"]
    /\ key' = [key EXCEPT ![j] = k]
    /\ clock' = clock + 1
    /\ dueAt' = [dueAt EXCEPT ![j] = clock + 1]
    /\ UNCHANGED <<attempts, lockedBy, stale, pc, job, stopping, disruptions>>

\* The INSERT of create_job, and enqueueDomainDiscovery's.  A row the unique
\* indexes refuse is not inserted: create_job then only reads the table.
CreateJob(j, k) ==
    /\ status[j] = "ABSENT"
    /\ IndexAdmits(j, k)
    /\ status' = [status EXCEPT ![j] = "PENDING"]
    /\ key' = [key EXCEPT ![j] = k]
    /\ clock' = clock + 1
    /\ dueAt' = [dueAt EXCEPT ![j] = clock + 1]
    /\ UNCHANGED <<attempts, lockedBy, stale, pc, job, stopping, disruptions>>

Claimable_runningToo ==
    {j \in Jobs : status[j] \in {"PENDING", "RUNNING", "RETRY"} /\ dueAt[j] # 0}

Claimable == {j \in Jobs : status[j] \in {"PENDING", "RETRY"} /\ dueAt[j] # 0}

\* ORDER BY priority DESC, scheduled_at ASC
ClaimedFirst(j) ==
    \A i \in Claimable :
        \/ Priority(j) > Priority(i)
        \/ Priority(j) = Priority(i) /\ dueAt[j] <= dueAt[i]

Executes(w, j) == pc[w] = "run" /\ job[w] = j

\* Time passes: a backoff ends, a lock grows older than the stale timeout.
BackoffElapses(j) ==
    /\ status[j] = "RETRY" /\ dueAt[j] = 0
    /\ clock' = clock + 1
    /\ dueAt' = [dueAt EXCEPT ![j] = clock + 1]
    /\ UNCHANGED <<status, attempts, key, lockedBy, stale,
                   pc, job, stopping, disruptions>>

LockExpires(j) ==
    /\ status[j] = "RUNNING" /\ j \notin stale
    /\ Overrun \/ \A w \in Workers : ~Executes(w, j)
    /\ stale' = stale \cup {j}
    /\ UNCHANGED <<status, attempts, key, dueAt, lockedBy, clock,
                   pc, job, stopping, disruptions>>

-----------------------------------------------------------------------------
(* A worker.  "down": no process; "idle": between two passes; "loop": at   *)
(* the loop's shutdown check; "claim": past it, about to claim; "run":     *)
(* executing the handler of job[w].                                        *)

StartPass_noRecovery(w) ==
    /\ pc[w] = "idle" /\ ~stopping[w]
    /\ pc' = [pc EXCEPT ![w] = "loop"]
    /\ UNCHANGED <<table, job, stopping, disruptions>>

\* run_once begins: recover_stale_jobs returns every stale job to the queue,
\* with its attempt_count and scheduled_at as they were.
StartPass(w) ==
    /\ pc[w] = "idle" /\ ~stopping[w]
    /\ status' = [j \in Jobs |-> IF j \in stale THEN "RETRY" ELSE status[j]]
    /\ lockedBy' = [j \in Jobs |-> IF j \in stale THEN NoWorker ELSE lockedBy[j]]
    /\ stale' = {}
    /\ pc' = [pc EXCEPT ![w] = "loop"]
    /\ UNCHANGED <<attempts, key, dueAt, clock, job, stopping, disruptions>>

PassShutdownCheck(w) ==
    /\ pc[w] = "loop" /\ ~stopping[w]
    /\ pc' = [pc EXCEPT ![w] = "claim"]
    /\ UNCHANGED <<table, job, stopping, disruptions>>

\* _shutdown_requested is seen by run_once or main, and the process ends.
ExitOnShutdown(w) ==
    /\ pc[w] \in {"idle", "loop"} /\ stopping[w]
    /\ pc' = [pc EXCEPT ![w] = "down"]
    /\ stopping' = [stopping EXCEPT ![w] = FALSE]
    /\ UNCHANGED <<table, job, disruptions>>

ClaimJob(w, j) ==
    /\ pc[w] = "claim"
    /\ j \in Claimable /\ ClaimedFirst(j)
    /\ status' = [status EXCEPT ![j] = "RUNNING"]
    /\ lockedBy' = [lockedBy EXCEPT ![j] = w]
    /\ pc' = [pc EXCEPT ![w] = "run"]
    /\ job' = [job EXCEPT ![w] = j]
    /\ UNCHANGED <<attempts, key, dueAt, stale, clock, stopping, disruptions>>

\* claim_job returns None: the pass ends and main sleeps.
NothingToClaim(w) ==
    /\ pc[w] = "claim" /\ Claimable = {}
    /\ pc' = [pc EXCEPT ![w] = "idle"]
    /\ UNCHANGED <<table, job, stopping, disruptions>>

Release_staleStays(w, j, outcome) ==
    /\ status' = [status EXCEPT ![j] = outcome]
    /\ lockedBy' = [lockedBy EXCEPT ![j] = NoWorker]
    /\ pc' = [pc EXCEPT ![w] = "loop"]
    /\ job' = [job EXCEPT ![w] = NoJob]
    /\ UNCHANGED <<stale, key, clock, stopping, disruptions>>

Release_keepsLock(w, j, outcome) ==
    /\ status' = [status EXCEPT ![j] = outcome]
    /\ stale' = stale \ {j}
    /\ pc' = [pc EXCEPT ![w] = "loop"]
    /\ job' = [job EXCEPT ![w] = NoJob]
    /\ UNCHANGED <<lockedBy, key, clock, stopping, disruptions>>

\* The three ways a handler's job row is released: complete_job and the two
\* branches of fail_job all address the row by its id alone.
Release(w, j, outcome) ==
    /\ status' = [status EXCEPT ![j] = outcome]
    /\ lockedBy' = [lockedBy EXCEPT ![j] = NoWorker]
    /\ stale' = stale \ {j}
    /\ pc' = [pc EXCEPT ![w] = "loop"]
    /\ job' = [job EXCEPT ![w] = NoJob]
    /\ UNCHANGED <<key, clock, stopping, disruptions>>

CompleteJob(w) ==
    /\ pc[w] = "run"
    /\ Release(w, job[w], "SUCCESS")
    /\ UNCHANGED <<attempts, dueAt>>

FailForGood(w) ==
    /\ pc[w] = "run"
    /\ attempts[job[w]] + 1 >= MaxAttempts
    /\ attempts' = [attempts EXCEPT ![job[w]] = @ + 1]
    /\ Release(w, job[w], "FAILED")
    /\ UNCHANGED dueAt

FailAndRetry_offByOne(w) ==
    /\ pc[w] = "run"
    /\ attempts[job[w]] < MaxAttempts
    /\ IndexAdmits(job[w], key[job[w]])
    /\ attempts' = [attempts EXCEPT ![job[w]] = @ + 1]
    /\ dueAt' = [dueAt EXCEPT ![job[w]] = 0]
    /\ Release(w, job[w], "RETRY")

FailAndRetry_uncounted(w) ==
    /\ pc[w] = "run"
    /\ attempts[job[w]] + 1 < MaxAttempts
    /\ IndexAdmits(job[w], key[job[w]])
    /\ dueAt' = [dueAt EXCEPT ![job[w]] = 0]
    /\ Release(w, job[w], "RETRY")
    /\ UNCHANGED attempts

\* scheduled_at moves into the future by the backoff.
FailAndRetry(w) ==
    /\ pc[w] = "run"
    /\ attempts[job[w]] + 1 < MaxAttempts
    /\ IndexAdmits(job[w], key[job[w]])
    /\ attempts' = [attempts EXCEPT ![job[w]] = @ + 1]
    /\ dueAt' = [dueAt EXCEPT ![job[w]] = 0]
    /\ Release(w, job[w], "RETRY")

\* The process is gone and its database session with it.
Dies(w) ==
    /\ pc' = [pc EXCEPT ![w] = "down"]
    /\ job' = [job EXCEPT ![w] = NoJob]
    /\ stopping' = [stopping EXCEPT ![w] = FALSE]
    /\ UNCHANGED table

\* The UPDATE to RETRY collides with a newer active job of the same key: the
\* exception leaves run_once from its except block and ends the process.
RetryRefused(w) ==
    /\ pc[w] = "run"
    /\ attempts[job[w]] + 1 < MaxAttempts
    /\ ~IndexAdmits(job[w], key[job[w]])
    /\ Dies(w)
    /\ UNCHANGED disruptions

FailJob(w) == FailForGood(w) \/ FailAndRetry(w) \/ RetryRefused(w)

\* SIGTERM or SIGINT only sets the flag.
Signal(w) ==
    /\ pc[w] # "down" /\ ~stopping[w]
    /\ disruptions < MaxDisruptions
    /\ disruptions' = disruptions + 1
    /\ stopping' = [stopping EXCEPT ![w] = TRUE]
    /\ UNCHANGED <<table, pc, job>>

\* SIGKILL, a lost connection, or a database error inside a handler, which
\* leaves the transaction aborted so that fail_job raises in its turn.
Crash(w) ==
    /\ pc[w] # "down"
    /\ disruptions < MaxDisruptions
    /\ disruptions' = disruptions + 1
    /\ Dies(w)

\* systemd's Restart=always
Restart(w) ==
    /\ pc[w] = "down"
    /\ pc' = [pc EXCEPT ![w] = "idle"]
    /\ UNCHANGED <<table, job, stopping, disruptions>>

\* What a worker does by itself, as opposed to what is done to it.
WorkerStep(w) ==
    \/ StartPass(w)
    \/ PassShutdownCheck(w)
    \/ ExitOnShutdown(w)
    \/ \E j \in Jobs : ClaimJob(w, j)
    \/ NothingToClaim(w)
    \/ CompleteJob(w)
    \/ FailJob(w)
    \/ Restart(w)

QueueStep(j) ==
    \/ \E k \in Keys \cup {NoKey} : CreateJob(j, k)
    \/ BackoffElapses(j)
    \/ LockExpires(j)

Next ==
    \/ \E j \in Jobs : QueueStep(j)
    \/ \E w \in Workers : WorkerStep(w) \/ Signal(w) \/ Crash(w)

Spec == Init /\ [][Next]_vars

\* Time passes, a live worker keeps polling, a handler returns or raises, and
\* systemd restarts what exits.  Nothing obliges anyone to create a job.
Fairness ==
    /\ \A j \in Jobs : WF_vars(BackoffElapses(j)) /\ WF_vars(LockExpires(j))
    /\ \A w \in Workers : WF_vars(WorkerStep(w))

FairSpec == Spec /\ Fairness

-----------------------------------------------------------------------------
(* Properties.                                                             *)

\* The partial unique indexes' promise (migration 0004): never two active
\* jobs for one target, or for one source and job type, whichever of
\* creation, failure and stale recovery made them active.
OneActiveJobPerKey ==
    \A i, j \in Jobs :
        /\ i # j
        /\ key[i] = key[j] /\ key[i] # NoKey
        => ~(status[i] \in Active /\ status[j] \in Active)

\* The header of queue.py: several workers poll the same table without one
\* job being in two workers' hands.
ExclusiveExecution ==
    \A v, w \in Workers, j \in Jobs : Executes(v, j) /\ Executes(w, j) => v = w

\* A worker executing a job holds its row: no recovery, release or second
\* claim has happened behind its back, so that what it writes at the end
\* (complete_job, fail_job, by id alone) is its own to write.
LeaseHeld ==
    \A w \in Workers, j \in Jobs :
        Executes(w, j) => status[j] = "RUNNING" /\ lockedBy[j] = w

\* An active job always has an attempt left, and FAILED means exactly that
\* the budget of max_attempts is spent.
RetryBudget ==
    \A j \in Jobs :
        /\ status[j] \in Active => attempts[j] < MaxAttempts
        /\ status[j] = "FAILED" => attempts[j] = MaxAttempts

\* A job that has ended is never reopened, nor its verdict changed.
TerminalIsFinal ==
    [][\A j \in Jobs : status[j] \in Terminal =>
            status'[j] = status[j] /\ attempts'[j] = attempts[j]]_vars

\* Whatever late workers write, no row keeps a lock it does not run under.
LockIffRunning ==
    \A j \in Jobs : /\ status[j] = "RUNNING" <=> lockedBy[j] # NoWorker
                    /\ j \in stale => status[j] = "RUNNING"

\* Even when executions overlap, failures counted beyond max_attempts are
\* at most one per other worker.
AttemptsBounded ==
    \A j \in Jobs : attempts[j] <= MaxAttempts + Cardinality(Workers) - 1

\* Workers that finish late, on jobs recovered or claimed behind their backs,
\* leave no lock without a run and count few failures too many: complete_job
\* and fail_job write by id alone, and this is all the harm it does the row.
LateWritesContained == LockIffRunning /\ AttemptsBounded

\* With finitely many disruptions every active job reaches a verdict: none
\* is lost in RETRY, or in RUNNING under a dead worker's lock.
EveryJobSettles ==
    \A j \in Jobs : status[j] \in Active ~> status[j] \in Terminal

\* ... and the verdicts are eventually left alone, overlaps or not.
QueueDrains == <>[](\A j \in Jobs : status[j] \notin Active)

-----------------------------------------------------------------------------
(* The life of a job as the rest of the system relies on it.               *)

Phase(j) ==
    CASE status[j] = "ABSENT" -> "unknown"
      [] status[j] \in {"PENDING", "RETRY"} -> "queued"
      [] status[j] = "RUNNING" -> "taken"
      [] status[j] = "SUCCESS" -> "done"
      [] status[j] = "FAILED" -> "dead"

\* The worker executing j under the lock on its row.
Runner(j) ==
    IF lockedBy[j] # NoWorker /\ job[lockedBy[j]] = j THEN lockedBy[j]
                                                      ELSE NoWorker

Lifecycle == INSTANCE JobLifecycle WITH
    phase  <- [j \in Jobs |-> Phase(j)],
    runner <- [j \in Jobs |-> Runner(j)],
    tries  <- attempts

\* The queue implements the abstract life of a job.
ImplementsLifecycle == Lifecycle!Spec

\* The active jobs of an index entry, or those outside the indexes.
ActiveOf(k) == {j \in Jobs : key[j] = k /\ status[j] \in Active}

Slots == INSTANCE JobSlots WITH
    Entries <- Keys, Unindexed <- NoKey,
    jobs <- [k \in Keys \cup {NoKey} |-> Cardinality(ActiveOf(k))]

\* Who creates jobs may rely on this much, whatever overlaps: an entry's job
\* opens only while none is active there, one at a time (migration 0004).  It
\* is all that module Scheduler keeps of the table.
ImplementsSlots == Slots!Spec
=============================================================================
