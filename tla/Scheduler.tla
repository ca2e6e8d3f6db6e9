------------------------------ MODULE Scheduler ------------------------------
(***************************************************************************)
(* services/crawler/jobs/scheduler.py: processes that periodically turn    *)
(* due crawl targets and due sources into jobs, one SQL statement at a     *)
(* time.                                                                   *)
(*                                                                         *)
(* The job table is reduced to what the scheduler reads of it: which items *)
(* have an active job (the unique indexes keep it to one, see JobQueue)    *)
(* and how many jobs of the API, which belong to no item, are active.      *)
(* Beside it stand the workers whose handler outlasted JOB_STALE_TIMEOUT   *)
(* and the job itself: recovery gave the job to another worker, which      *)
(* ended it, and the first one's verdict is yet to be written.             *)
(*                                                                         *)
(* The connection is not in autocommit mode (get_connection), so the first *)
(* statement after a commit or rollback opens a transaction, and until the *)
(* next one SQL's now() stays at the instant it was opened.  "seen" is the *)
(* set of items due at that instant.                                       *)
(***************************************************************************)
EXTENDS Naturals, FiniteSets

CONSTANTS
    Schedulers,   \* scheduler processes (the deployment means to run one)
    Workers,      \* worker processes
    Targets,      \* active crawl targets
    Sources,      \* active sources that are not MANUAL
    Rank,         \* place in the ORDER BY: priority DESC, next_crawl_at, id
                  \* for targets, id for sources
    Api,          \* stands for the jobs of the API, which have no item
    NoItem,
    DueAtStart,   \* items already due when the system starts
    MaxActive,    \* MAX_ACTIVE_JOBS
    MaxPerRun,    \* MAX_JOBS_PER_SCHEDULER_RUN
    FetchLimit,   \* LIMIT of get_due_crawl_targets
    MaxPeriods,   \* bound on how often an item becomes due
    MaxApiJobs,   \* bound on the jobs the API enqueues
    MaxCrashes,   \* bound on scheduler crashes
    MaxOverruns   \* bound on how often a handler outlasts its job

Items == Targets \cup Sources

ASSUME SchedulerConstantsOK ==
    /\ Targets \cap Sources = {}
    /\ Api \notin Items /\ NoItem \notin Items /\ Api # NoItem
    /\ IsFiniteSet(Items) /\ IsFiniteSet(Schedulers) /\ IsFiniteSet(Workers)
    /\ Rank \in [Items -> Nat]
    /\ DueAtStart \subseteq Items
    /\ MaxActive \in Nat \ {0} /\ MaxPerRun \in Nat \ {0}
    /\ FetchLimit \in Nat \ {0}
    /\ MaxPeriods \in Nat /\ MaxApiJobs \in Nat
    /\ MaxCrashes \in Nat /\ MaxOverruns \in Nat

VARIABLES
    due,      \* items whose next_crawl_at / next_scheduled_at has passed
    periods,  \* item -> how often that happened since the start
    active,   \* items with a PENDING, RUNNING or RETRY job
    apiJobs,  \* active jobs without target or source
    apiSent,  \* jobs the API has enqueued
    late,     \* worker -> item (or Api) whose job has ended under its handler
    overruns, \* how often that has happened
    pc,       \* scheduler -> where it is in its pass
    todo,     \* scheduler -> fetched rows its loop has not reached
    row,      \* scheduler -> the row its loop is at
    budget,   \* scheduler -> jobs it may still create in this pass
    open,     \* scheduler -> is a transaction open?
    seen,     \* scheduler -> items due at that transaction's now()
    crashes,
    \* History, for the properties only.
    served,   \* items a job was created for since they became due
    reopened  \* items an ended job of which was put back since then

lateVars  == <<late, overruns, reopened>>
tableVars == <<due, periods, active, apiJobs, apiSent, served, lateVars>>
passVars  == <<pc, todo, row, budget, open, seen>>
schedVars == <<due, periods, active, apiJobs, apiSent, served, lateVars,
               pc, todo, row, budget, open, seen, crashes>>

TypeOK ==
    /\ due \subseteq Items /\ active \subseteq Items /\ served \subseteq Items
    /\ late \in [Workers -> Items \cup {Api, NoItem}]
    /\ overruns \in 0..MaxOverruns
    /\ reopened \subseteq Items
    /\ periods \in [Items -> 0..MaxPeriods]
    /\ apiJobs \in Nat /\ apiSent \in 0..MaxApiJobs /\ apiJobs <= apiSent
    /\ pc \in [Schedulers -> {"sleep", "targets", "sources", "insert",
                              "reread", "advance", "down"}]
    /\ todo \in [Schedulers -> SUBSET Items]
    /\ row \in [Schedulers -> Items \cup {NoItem}]
    /\ budget \in [Schedulers -> 0..MaxPerRun]
    /\ open \in [Schedulers -> BOOLEAN]
    /\ seen \in [Schedulers -> SUBSET Items]
    /\ crashes \in 0..MaxCrashes

Init ==
    /\ due = DueAtStart /\ periods = [i \in Items |-> 0]
    /\ active = {} /\ served = {}
    /\ apiJobs = 0 /\ apiSent = 0 /\ crashes = 0
    /\ late = [w \in Workers |-> NoItem] /\ overruns = 0
    /\ reopened = {}
    /\ pc = [p \in Schedulers |-> "sleep"]
    /\ todo = [p \in Schedulers |-> {}]
    /\ row = [p \in Schedulers |-> NoItem]
    /\ budget = [p \in Schedulers |-> 0]
    /\ open = [p \in Schedulers |-> FALSE]
    /\ seen = [p \in Schedulers |-> {}]

-----------------------------------------------------------------------------
(* One scheduler.  Operators named <Definition>_<fault> are mutated forms  *)
(* of the definition that follows; no specification uses them.             *)

\* The items due at now() for a statement of p: those of its open
\* transaction, or of the one the statement opens.
DueNow(p) == IF open[p] THEN seen[p] ELSE due

\* p executes a statement and leaves its transaction open.
Reads(p) ==
    /\ open' = [open EXCEPT ![p] = TRUE]
    /\ seen' = [seen EXCEPT ![p] = DueNow(p)]

\* The statement of p ends with a commit or a rollback.
Closes(p) ==
    /\ open' = [open EXCEPT ![p] = FALSE]
    /\ seen' = [seen EXCEPT ![p] = {}]

Goto(p, label) == pc' = [pc EXCEPT ![p] = label]

Before(i, j) == Rank[i] < Rank[j]

\* get_due_crawl_targets
DueTargets(p) ==
    LET rows == Targets \cap DueNow(p)
    IN  {i \in rows : Cardinality({j \in rows : Before(j, i)}) < FetchLimit}

DueSources_everySource(p) == Sources

\* get_sources_due_for_discovery
DueSources(p) == Sources \cap DueNow(p)

ActiveJobs_everCreated == Cardinality(active \cup served) + apiSent

\* count_active_jobs
ActiveJobs == Cardinality(active) + apiJobs

Smaller(a, b) == IF a < b THEN a ELSE b

Headroom_offByOne == Smaller(MaxPerRun, MaxActive + 1 - ActiveJobs)
Headroom == Smaller(MaxPerRun, MaxActive - ActiveJobs)

\* run_once: count_active_jobs, and below the cap the budget of the pass and
\* get_due_crawl_targets.  At the cap the pass is over, its transaction open.
BeginPass(p) ==
    /\ pc[p] = "sleep"
    /\ Reads(p)
    /\ IF ActiveJobs >= MaxActive
       THEN UNCHANGED <<pc, todo, budget>>
       ELSE /\ budget' = [budget EXCEPT ![p] = Headroom]
            /\ todo' = [todo EXCEPT ![p] = DueTargets(p)]
            /\ Goto(p, "targets")
    /\ UNCHANGED <<tableVars, row, crashes>>

LoopOver(p) == todo[p] = {} \/ budget[p] = 0

\* The loop of p reaches row i.
Reaches(p, i) ==
    /\ pc[p] \in {"targets", "sources"} /\ ~LoopOver(p)
    /\ i \in todo[p] /\ \A j \in todo[p] : ~Before(j, i)
    /\ todo' = [todo EXCEPT ![p] = @ \ {i}]

ExamineRow_advancesSkipped(p, i) ==
    /\ Reaches(p, i) /\ Reads(p)
    /\ IF i \in active
       THEN due' = due \ ({i} \cap Sources) /\ UNCHANGED <<pc, row>>
       ELSE Goto(p, "insert") /\ row' = [row EXCEPT ![p] = i] /\ UNCHANGED due
    /\ UNCHANGED <<periods, active, apiJobs, apiSent, served, lateVars, budget, crashes>>

\* has_pending_job_for_target, or the eligibility check of a source: rows
\* whose job is still active are skipped.
ExamineRow(p, i) ==
    /\ Reaches(p, i) /\ Reads(p)
    /\ IF i \in active
       THEN UNCHANGED <<pc, row>>
       ELSE Goto(p, "insert") /\ row' = [row EXCEPT ![p] = i]
    /\ UNCHANGED <<tableVars, budget, crashes>>

\* The target loop is over: get_sources_due_for_discovery.
FetchSources(p) ==
    /\ pc[p] = "targets" /\ LoopOver(p)
    /\ Reads(p)
    /\ todo' = [todo EXCEPT ![p] = DueSources(p)]
    /\ Goto(p, "sources")
    /\ UNCHANGED <<tableVars, row, budget, crashes>>

EndPass(p) ==
    /\ pc[p] = "sources" /\ LoopOver(p)
    /\ Goto(p, "sleep")
    /\ todo' = [todo EXCEPT ![p] = {}]
    /\ budget' = [budget EXCEPT ![p] = 0]
    /\ UNCHANGED <<tableVars, row, open, seen, crashes>>

\* create_job has returned: a target's turn is over, a source's schedule has
\* yet to be advanced.
Created(p) ==
    /\ budget' = [budget EXCEPT ![p] = @ - 1]
    /\ IF row[p] \in Targets
       THEN row' = [row EXCEPT ![p] = NoItem] /\ Goto(p, "targets")
       ELSE UNCHANGED row /\ Goto(p, "advance")

\* The INSERT of create_job and its commit, or the unique violation and its
\* rollback.
InsertJob(p) ==
    /\ pc[p] = "insert"
    /\ Closes(p)
    /\ IF row[p] \notin active
       THEN /\ active' = active \cup {row[p]}
            /\ served' = served \cup {row[p]}
            /\ Created(p)
       ELSE Goto(p, "reread") /\ UNCHANGED <<row, budget, active, served>>
    /\ UNCHANGED <<due, periods, apiJobs, apiSent, lateVars, todo, crashes>>

\* The process ends, its pass unfinished.
Dies(p) ==
    /\ Goto(p, "down") /\ Closes(p)
    /\ todo' = [todo EXCEPT ![p] = {}]
    /\ row' = [row EXCEPT ![p] = NoItem]
    /\ budget' = [budget EXCEPT ![p] = 0]
    /\ UNCHANGED tableVars

\* create_job's second statement looks the conflicting job up.  When that job
\* has ended meanwhile, fetchone() is None and subscripting it raises.
RereadConflict(p) ==
    /\ pc[p] = "reread"
    /\ IF row[p] \in active
       THEN Reads(p) /\ Created(p) /\ UNCHANGED <<tableVars, todo>>
       ELSE Dies(p)
    /\ UNCHANGED crashes

AdvanceSchedule_inPlace(p) ==
    /\ pc[p] = "advance"
    /\ Closes(p)
    /\ row' = [row EXCEPT ![p] = NoItem]
    /\ Goto(p, "sources")
    /\ UNCHANGED <<tableVars, todo, budget, crashes>>

\* advance_source_schedule, in a transaction of its own after create_job's.
AdvanceSchedule(p) ==
    /\ pc[p] = "advance"
    /\ due' = due \ {row[p]}
    /\ Closes(p)
    /\ row' = [row EXCEPT ![p] = NoItem]
    /\ Goto(p, "sources")
    /\ UNCHANGED <<periods, active, apiJobs, apiSent, served, lateVars,
                   todo, budget, crashes>>

Crash(p) ==
    /\ pc[p] # "down" /\ crashes < MaxCrashes
    /\ crashes' = crashes + 1
    /\ Dies(p)

\* systemd's Restart=always, with a new connection.
Restart(p) ==
    /\ pc[p] = "down"
    /\ Goto(p, "sleep")
    /\ UNCHANGED <<tableVars, todo, row, budget, open, seen, crashes>>

SchedulerStep(p) ==
    \/ BeginPass(p) \/ (\E i \in Items : ExamineRow(p, i))
    \/ FetchSources(p) \/ EndPass(p)
    \/ InsertJob(p) \/ RereadConflict(p) \/ AdvanceSchedule(p) \/ Restart(p)

-----------------------------------------------------------------------------
(* Its surroundings.                                                       *)

\* Time reaches next_crawl_at or next_scheduled_at.  A period lasts a day at
\* least, so it never elapses under a pass that still holds the row.  A
\* target's next_crawl_at is never moved: it stays due from then on.
BecomesDue(i) ==
    /\ i \notin due /\ periods[i] < MaxPeriods
    /\ \A p \in Schedulers : i \notin todo[p] /\ i # row[p]
    /\ due' = due \cup {i}
    /\ periods' = [periods EXCEPT ![i] = @ + 1]
    /\ served' = served \ {i} /\ reopened' = reopened \ {i}
    /\ UNCHANGED <<active, apiJobs, apiSent, late, overruns, passVars, crashes>>

\* The job that i stands for has its verdict, while the workers in W, none of
\* them late already, still execute it: recover_stale_jobs had given it away.
LeavesBehind(i, W) ==
    /\ \A w \in W : late[w] = NoItem
    /\ overruns + Cardinality(W) <= MaxOverruns
    /\ late' = [w \in Workers |-> IF w \in W THEN i ELSE late[w]]
    /\ overruns' = overruns + Cardinality(W)

\* The workers end a job (JobQueue: every active job settles), one that a late
\* failure put back included.
JobEnds(i) ==
    /\ i \in active
    /\ active' = active \ {i}
    /\ \E W \in SUBSET Workers : LeavesBehind(i, W)
    /\ UNCHANGED <<due, periods, apiJobs, apiSent, served, reopened,
                   passVars, crashes>>

ApiJobEnds ==
    /\ apiJobs > 0
    /\ apiJobs' = apiJobs - 1
    /\ \E W \in SUBSET Workers : LeavesBehind(Api, W)
    /\ UNCHANGED <<due, periods, active, apiSent, served, reopened,
                   passVars, crashes>>

\* A late fail_job below max_attempts: its UPDATE to RETRY goes by the id and
\* makes the ended job active again, whatever the cap says.
PutsBack(i) ==
    \/ /\ i \in Items \ active
       /\ active' = active \cup {i}
       /\ reopened' = reopened \cup {i}
       /\ UNCHANGED apiJobs
    \/ /\ i = Api /\ apiJobs < apiSent
       /\ apiJobs' = apiJobs + 1
       /\ UNCHANGED <<active, reopened>>

\* A worker is through with the job that ended under it.  Unless it puts the
\* job back it leaves the table as it is: it calls complete_job, attempts are
\* used up, a newer job of the item makes the unique index refuse the UPDATE,
\* or the worker dies.
LateVerdict(w) ==
    /\ late[w] # NoItem
    /\ late' = [late EXCEPT ![w] = NoItem]
    /\ PutsBack(late[w]) \/ UNCHANGED <<active, apiJobs, reopened>>
    /\ UNCHANGED <<due, periods, apiSent, served, overruns, passVars, crashes>>

\* enqueueDomainDiscovery: no cap is consulted.
ApiEnqueue ==
    /\ apiSent < MaxApiJobs
    /\ apiSent' = apiSent + 1
    /\ apiJobs' = apiJobs + 1
    /\ UNCHANGED <<due, periods, active, served, lateVars, passVars, crashes>>

Next ==
    \/ \E p \in Schedulers : SchedulerStep(p) \/ Crash(p)
    \/ \E i \in Items : BecomesDue(i) \/ JobEnds(i)
    \/ ApiEnqueue \/ ApiJobEnds \/ \E w \in Workers : LateVerdict(w)

Spec == Init /\ [][Next]_schedVars

\* The scheduler keeps passing, time passes, and workers end what they run.
FairSpec ==
    /\ Spec
    /\ \A p \in Schedulers : WF_schedVars(SchedulerStep(p))
    /\ \A i \in Items : WF_schedVars(BecomesDue(i)) /\ WF_schedVars(JobEnds(i))
    /\ WF_schedVars(ApiJobEnds)

-----------------------------------------------------------------------------
(* Properties.                                                             *)

\* docs/PHASE2_5_OPERATIONS.md, MAX_ACTIVE_JOBS: "Global cap on
\* PENDING+RUNNING+RETRY jobs".  It is counted once per pass, before anything is
\* created, so passes that count at the same time may each fill it; and a late
\* failure puts a job back without counting.  More than one cap for each
\* scheduler, and a job for each worker and handler that overran, there
\* never are: budgets left over, conflicts and crashes do not add up.
CapRespected ==
    Cardinality(active)
        <= MaxActive * Cardinality(Schedulers) + Smaller(Cardinality(Workers), overruns)

\* schedule_due_discoveries: "nothing is silently dropped, just deferred".
\* A source leaves the due list only if in this period a job was created for
\* it, or an ended one put back, across crashes, conflicts and exhausted
\* budgets.
DeferredNotDropped ==
    [][\A s \in Sources :
         s \in due /\ s \notin due' => s \in served \cup reopened]_schedVars

\* create_job made i's job: a late verdict would have changed late.
JobCreated(i) == i \in active' \ active /\ UNCHANGED late

\* Without a crash, one scheduler discovers a source once per period, although
\* create_job and advance_source_schedule are separate transactions, and jobs
\* put back between its statements make it give up passes.
OneDiscoveryPerPeriod ==
    [][crashes = 0 =>
         \A s \in Sources : JobCreated(s) => s \notin served]_schedVars

\* A pass of one scheduler works on a consistent picture: it never creates
\* a job for an item that is not due, however long its transaction has been open.
OnlyDueItemsQueued ==
    [][\A i \in Items : JobCreated(i) => i \in due]_schedVars

\* schedule_due_crawl_targets and schedule_due_discoveries: every due item is
\* eventually queued, or has been and its schedule advances (see
\* DeferredNotDropped); a target, due for ever, is queued again and again.
EveryDueItemQueued ==
    \A i \in Items : i \in due ~> i \in active \/ i \notin due

-----------------------------------------------------------------------------

\* The active jobs of an item, which has one at most, and of the API.
JobsSeen ==
    [i \in Items \cup {Api} |->
        IF i = Api THEN apiJobs ELSE IF i \in active THEN 1 ELSE 0]

\* What the scheduler and its surroundings take the job table to be: the slots
\* that module JobQueue implements, an item's being its index entry.
Table == INSTANCE JobSlots WITH
    Entries <- Items, Unindexed <- Api, jobs <- JobsSeen
=============================================================================
