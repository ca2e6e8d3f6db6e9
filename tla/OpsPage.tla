------------------------------ MODULE OpsPage ------------------------------
(***************************************************************************)
(* The operations tab of app.js beside the API's monitoring.ts: a          *)
(* dashboard refreshed by opening the tab, by hand and by a timer.  Each   *)
(* refresh fetches the summary and then, whatever came of it, the charts   *)
(* and the lists of jobs.                                                  *)
(*                                                                         *)
(* Of the summary its counts of jobs and its verdict on the queue are      *)
(* kept, of a chart the window it is drawn for.                            *)
(***************************************************************************)
EXTENDS Browser, FiniteSets, FiniteSetsExt, ApiRules

CONSTANTS
    Jobs,        \* crawl_jobs there may ever be
    Charts,      \* growthChart, resourceChart
    Lists,       \* "running": monitoring/jobs; "all": acquisition/jobs
    Thresholds,  \* readQueueHealthThresholds
    Nothing,     \* a panel that has not been rendered
    Failed,      \* a panel that shows its error text
    EarlierJobs  \* states the jobs may be in at the start

Ranges == {"6h", "24h", "72h"}
Statuses == {"PENDING", "RUNNING", "RETRY", "SUCCESS", "FAILED"}
JobStates == Statuses \cup {"none"}   \* "none" until the job is created

ASSUME OpsConstantsOK ==
    /\ IsFiniteSet(Jobs) /\ Lists \subseteq {"running", "all"}
    /\ Thresholds \in [warningPending : Nat, criticalPending : Nat,
                       warningAge : Nat, criticalAge : Nat]
    /\ EarlierJobs \subseteq [Jobs -> JobStates]

VARIABLES
    jobs,        \* job -> its status
    waited,      \* job -> how long it has been pending
    timers,      \* intervals startOpsAutoRefresh has set
    dashboards,  \* GET /monitoring/summary under way
    summary,     \* the panels loadOpsDashboard renders
    opsStatus,   \* opsStatusEl
    range,       \* growthChartRange, resourceChartRange
    chartLoads,  \* chart -> its requests under way
    chart,       \* chart -> what it shows
    chartLast,   \* chart -> was its last reply that to its last request?
    listLoads,   \* list -> its requests under way
    list         \* list -> what it shows

panelVars == <<summary, opsStatus, chart, chartLast, list>>
opsVars == <<jobs, waited, timers, dashboards, range, chartLoads, listLoads, panelVars>>

JobCounts == [pending : Nat, running : Nat, completed : Nat, failed : Nat]
QueueStates == [pending : Nat, running : Nat, status : {"HEALTHY", "WARNING", "CRITICAL"}]
JobLists == UNION {[S -> Statuses] : S \in SUBSET Jobs}

OpsTypeOK ==
    /\ jobs \in [Jobs -> JobStates] /\ waited \in [Jobs -> Nat]
    /\ timers \in Nat
    /\ dashboards \in Requests({Nothing}, [pipeline : JobCounts] \cup [queue : QueueStates]
                                          \cup [pipeline : JobCounts, queue : QueueStates])
    /\ summary \in {Nothing} \cup [pipeline : JobCounts, queue : QueueStates]
    /\ opsStatus \in {"none", "error"}
    /\ range \in [Charts -> Ranges] /\ chartLast \in [Charts -> BOOLEAN]
    /\ chartLoads \in [Charts -> Requests(Ranges, {})]
    /\ chart \in [Charts -> Ranges \cup {Nothing, Failed}]
    /\ listLoads \in [Lists -> Requests({Nothing}, JobLists)]
    /\ list \in [Lists -> JobLists \cup {Nothing, Failed}]

OpsInit ==
    /\ jobs \in EarlierJobs
    /\ waited = [j \in Jobs |-> 0]
    /\ timers = 0 /\ dashboards = <<>> /\ summary = Nothing /\ opsStatus = "none"
    /\ range = [c \in Charts |-> "24h"]
    /\ chartLoads = [c \in Charts |-> <<>>] /\ chart = [c \in Charts |-> Nothing]
    /\ chartLast = [c \in Charts |-> TRUE]
    /\ listLoads = [l \in Lists |-> <<>>] /\ list = [l \in Lists |-> Nothing]

-----------------------------------------------------------------------------
(* The API.                                                                *)

Having(status) == {j \in Jobs : jobs[j] = status}

\* getJobsSummary
JobsSummary ==
    [pending |-> Cardinality(Having("PENDING")), running |-> Cardinality(Having("RUNNING")),
     completed |-> Cardinality(Having("SUCCESS")), failed |-> Cardinality(Having("FAILED"))]

\* getQueueHealth: a job waiting in RETRY is not asked for.
QueueHealth ==
    LET pending == Having("PENDING")
        oldest  == IF pending = {} THEN 0 ELSE Max({waited[j] : j \in pending})
    IN  [pending |-> Cardinality(pending), running |-> Cardinality(Having("RUNNING")),
         status |-> EvaluateQueueHealth(Cardinality(pending), oldest, Thresholds)]

\* getRunningJobs, listJobs
JobList(l) ==
    [j \in (IF l = "running" THEN Having("RUNNING") ELSE Jobs \ Having("none")) |-> jobs[j]]

\* getMonitoringSummary: its queries run side by side, a snapshot each.
ReadSummary(i) ==
    /\ LET answer == dashboards[i].answer IN
        \/ /\ answer = NoAnswer
           /\ \/ dashboards' = Answered(dashboards, i, [pipeline |-> JobsSummary])
              \/ dashboards' = Answered(dashboards, i, [queue |-> QueueHealth])
        \/ /\ answer \in [pipeline : JobCounts]
           /\ dashboards' = Answered(dashboards, i, [pipeline |-> answer.pipeline, queue |-> QueueHealth])
        \/ /\ answer \in [queue : QueueStates]
           /\ dashboards' = Answered(dashboards, i, [pipeline |-> JobsSummary, queue |-> answer.queue])
    /\ UNCHANGED <<browserVars, jobs, waited, timers, range, chartLoads, listLoads, panelVars>>

ReadList(l, i) ==
    /\ listLoads[l][i].answer = NoAnswer
    /\ listLoads' = [listLoads EXCEPT ![l] = Answered(@, i, JobList(l))]
    /\ UNCHANGED <<browserVars, jobs, waited, timers, dashboards, range, chartLoads, panelVars>>

\* The scheduler creates jobs, workers claim them, and complete_job, fail_job
\* and the recovery of stale locks end a claim or put the job back.
JobMoves(status) ==
    CASE status = "none" -> {"PENDING"}
      [] status = "PENDING" -> {"RUNNING"}
      [] status = "RUNNING" -> {"SUCCESS", "FAILED", "RETRY"}
      [] status = "RETRY" -> {"RUNNING", "SUCCESS", "FAILED"}   \* the latter two late
      [] status \in {"SUCCESS", "FAILED"} -> {"SUCCESS", "FAILED", "RETRY"} \ {status}

\* They go by the id of the row, whatever became of it.  And time passes.
JobsMove ==
    /\ Event({"ops"})
    /\ \E j \in Jobs :
        \/ /\ \E s \in JobMoves(jobs[j]) : jobs' = [jobs EXCEPT ![j] = s]
           /\ UNCHANGED waited
        \/ /\ jobs[j] = "PENDING" /\ waited' = [waited EXCEPT ![j] = @ + 1]
           /\ UNCHANGED jobs
    /\ UNCHANGED <<timers, dashboards, range, chartLoads, listLoads, panelVars>>

-----------------------------------------------------------------------------
(* The page.                                                               *)

\* loadOpsDashboard up to its await
LoadDashboard == Room(dashboards) /\ dashboards' = Sent(dashboards, Nothing)

\* startOpsAutoRefresh
StartAutoRefresh == timers' = IF timers > 0 THEN timers ELSE timers + 1

ShowOps_withoutTimer ==
    LoadDashboard /\ UNCHANGED <<jobs, waited, timers, range, chartLoads, listLoads, panelVars>>

\* What the tab's listener does for this page when it becomes visible.
ShowOps ==
    /\ LoadDashboard /\ StartAutoRefresh
    /\ UNCHANGED <<jobs, waited, range, chartLoads, listLoads, panelVars>>

PressRefresh ==
    /\ Gesture("ops") /\ LoadDashboard
    /\ UNCHANGED <<jobs, waited, timers, range, chartLoads, listLoads, panelVars>>

\* Has every load been answered?
Quiet ==
    /\ dashboards = <<>>
    /\ \A c \in Charts : chartLoads[c] = <<>>
    /\ \A l \in Lists : listLoads[l] = <<>>

\* The timer fires on any tab and refreshes on this one.  Bound: the loads
\* under way are over by then.
Tick ==
    /\ timers > 0 /\ tab = "ops" /\ Quiet
    /\ LoadDashboard
    /\ UNCHANGED <<browserVars, jobs, waited, timers, range, chartLoads, listLoads, panelVars>>

\* The four loads after the summary.
LoadRest ==
    /\ \A c \in Charts : Room(chartLoads[c])
    /\ \A l \in Lists : Room(listLoads[l])
    /\ chartLoads' = [c \in Charts |-> Sent(chartLoads[c], range[c])]
    /\ listLoads' = [l \in Lists |-> Sent(listLoads[l], Nothing)]

\* loadOpsDashboard after its awaits
DeliverSummaryPanels(i) ==
    /\ dashboards[i].answer \in [pipeline : JobCounts, queue : QueueStates]
    /\ dashboards' = Taken(dashboards, i)
    /\ summary' = dashboards[i].answer /\ opsStatus' = "none"
    /\ LoadRest
    /\ UNCHANGED <<browserVars, jobs, waited, timers, range, chart, chartLast, list>>

\* "Keep whatever was last rendered on screen"
LoseSummaryPanels(i) ==
    /\ Loss
    /\ dashboards' = Taken(dashboards, i)
    /\ opsStatus' = "error"
    /\ LoadRest
    /\ UNCHANGED <<jobs, waited, timers, range, summary, chart, chartLast, list>>

\* A range button: loadGrowthChart, loadResourceCharts up to their await.
PickRange(c, r) ==
    /\ Gesture("ops") /\ Room(chartLoads[c])
    /\ range' = [range EXCEPT ![c] = r]
    /\ chartLoads' = [chartLoads EXCEPT ![c] = Sent(@, r)]
    /\ UNCHANGED <<jobs, waited, timers, dashboards, listLoads, panelVars>>

DrawChart(c, i, what) ==
    /\ chartLoads' = [chartLoads EXCEPT ![c] = Taken(@, i)]
    /\ chart' = [chart EXCEPT ![c] = what]
    /\ chartLast' = [chartLast EXCEPT ![c] = IsLast(chartLoads[c], i)]
    /\ UNCHANGED <<jobs, waited, timers, dashboards, range, listLoads, summary, opsStatus, list>>

\* The series for the window asked for; the bars themselves are left out.
DeliverChart(c, i) == DrawChart(c, i, chartLoads[c][i].ask) /\ UNCHANGED browserVars

LoseChart(c, i) == DrawChart(c, i, Failed) /\ Loss

DrawList(l, i, what) ==
    /\ listLoads' = [listLoads EXCEPT ![l] = Taken(@, i)]
    /\ list' = [list EXCEPT ![l] = what]
    /\ UNCHANGED <<jobs, waited, timers, dashboards, range, chartLoads,
                   summary, opsStatus, chart, chartLast>>

\* loadRunningJobs, loadOpsJobs
DeliverList(l, i) ==
    /\ listLoads[l][i].answer # NoAnswer
    /\ DrawList(l, i, listLoads[l][i].answer) /\ UNCHANGED browserVars

LoseList(l, i) == DrawList(l, i, Failed) /\ Loss

SummaryAnswers == \E i \in DOMAIN dashboards : ReadSummary(i) \/ DeliverSummaryPanels(i)

ChartAnswers(c) == \E i \in DOMAIN chartLoads[c] : DeliverChart(c, i)

ListAnswers(l) == \E i \in DOMAIN listLoads[l] : ReadList(l, i) \/ DeliverList(l, i)

OpsStep ==
    \/ PressRefresh \/ Tick
    \/ \E c \in Charts, r \in Ranges : PickRange(c, r)
    \/ SummaryAnswers
    \/ \E c \in Charts : ChartAnswers(c)
    \/ \E l \in Lists : ListAnswers(l)
    \/ \E i \in DOMAIN dashboards : LoseSummaryPanels(i)
    \/ \E c \in Charts : \E i \in DOMAIN chartLoads[c] : LoseChart(c, i)
    \/ \E l \in Lists : \E i \in DOMAIN listLoads[l] : LoseList(l, i)
    \/ JobsMove

\* The timer goes on, and requests are answered or the browser gives them up.
OpsFairness ==
    /\ WF_<<browserVars, opsVars>>(Tick)
    /\ WF_<<browserVars, opsVars>>(SummaryAnswers)
    /\ \A c \in Charts : WF_<<browserVars, opsVars>>(ChartAnswers(c))
    /\ \A l \in Lists : WF_<<browserVars, opsVars>>(ListAnswers(l))

-----------------------------------------------------------------------------
(* Properties.                                                             *)

\* Opening the tab again and again leaves one timer: "if (opsRefreshTimer)
\* return" is all that keeps refreshes from multiplying.
OneTimer == timers <= 1

\* loadGrowthChart and loadResourceCharts read the range when they start and
\* draw whenever they are answered.  At rest, unless a reply was overtaken, a
\* chart is drawn for the range whose button is marked.
ChartFollowsRange ==
    \A c \in Charts :
        chartLoads[c] = <<>> /\ chartLast[c] /\ chart[c] \notin {Nothing, Failed}
            => chart[c] = range[c]

UpToDate ==
    /\ opsStatus = "none"
    /\ summary = [pipeline |-> JobsSummary, queue |-> QueueHealth]
    /\ \A l \in Lists : list[l] = JobList(l)
    /\ \A c \in Charts : chart[c] = range[c]

\* Whatever failed, crossed or was read from different snapshots before, while
\* the tab stays open the timer brings every panel to the present.
DashboardCatchesUp == <>[](tab = "ops") => <>[]UpToDate
=============================================================================
