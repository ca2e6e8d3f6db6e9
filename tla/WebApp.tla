------------------------------- MODULE WebApp -------------------------------
(***************************************************************************)
(* The page of apps/web: the three tabs of app.js in one browser, over one *)
(* API.  Gestures reach the tab that is open; requests of the others go on *)
(* and their replies are rendered into hidden panels.                      *)
(***************************************************************************)
EXTENDS CallLogPage, OpsPage

CONSTANT MaxUsed   \* bound on the pages used in one session

vars == <<browserVars, lookupVars, callLogVars, opsVars>>

TypeOK == BrowserTypeOK /\ LookupTypeOK /\ CallLogTypeOK /\ OpsTypeOK

Init == BrowserInit /\ LookupInit /\ CallLogInit /\ OpsInit

\* A tab button: the call-log tab loads its tables, the operations tab its
\* dashboard.
OpenTab(page) ==
    /\ gestures < MaxGestures[page]
    /\ gestures' = gestures + 1
    /\ tab' = page
    /\ \/ page = "lookup" /\ UNCHANGED <<callLogVars, opsVars>>
       \/ page = "calllog" /\ LoadTables /\ UNCHANGED <<importVars, opsVars>>
       \/ page = "ops" /\ ShowOps /\ UNCHANGED callLogVars
    /\ UNCHANGED <<mishaps, lookupVars>>

\* The pages the owner has used.
Used == (IF query = None THEN {} ELSE {"lookup"})
        \cup (IF summaryTable = None THEN {} ELSE {"calllog"})
        \cup (IF timers = 0 THEN {} ELSE {"ops"})

Next ==
    /\ \/ \E page \in Pages : OpenTab(page)
       \/ LookupStep /\ UNCHANGED <<callLogVars, opsVars>>
       \/ CallLogStep /\ UNCHANGED opsVars
       \/ OpsStep /\ UNCHANGED <<lookupVars, callLogVars>>
    /\ Cardinality(Used') <= MaxUsed

Fairness ==
    /\ OpsFairness
    /\ WF_vars(LookupAnswers /\ UNCHANGED <<callLogVars, opsVars>>)
    /\ WF_vars(CallLogAnswers /\ UNCHANGED opsVars)

Spec == Init /\ [][Next]_vars /\ Fairness

Loading ==
    \/ "loading" \in {status, reportStatus, importStatus}
    \/ NoAnswer \in {summaryTable, unknownTable}

\* Every "loading" text goes: a fetch is answered or fails, and each path of
\* each handler overwrites the text that was set before its await.
LoadingEnds == Loading ~> ~Loading

\* What is on the screen belongs together: form, banner and current number are
\* about the number shown, a chart at rest is that of the marked range, and
\* however often tabs are opened one timer refreshes the dashboard.
PagesCoherent ==
    TypeOK /\ ReportsConcernShown /\ BannerOfShown /\ OneTimer /\ ChartFollowsRange
=============================================================================
