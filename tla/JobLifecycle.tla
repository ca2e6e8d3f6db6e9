---------------------------- MODULE JobLifecycle ----------------------------
(***************************************************************************)
(* What a background job may live through, without table, locks or time:  *)
(* it is submitted once, taken by one worker at a time, and ends done, or  *)
(* dead after MaxAttempts failures.  A runner may vanish; the job is then  *)
(* put back without a failure being counted.  jobs/queue.py promises its   *)
(* callers this much, and module JobQueue is shown to implement it.        *)
(***************************************************************************)
EXTENDS Naturals

CONSTANTS Jobs, Workers, NoWorker, MaxAttempts

VARIABLES
    phase,   \* job -> "unknown", "queued", "taken", "done" or "dead"
    runner,  \* job -> the worker executing it
    tries    \* job -> failures counted

lifeVars == <<phase, runner, tries>>

Init ==
    /\ phase = [j \in Jobs |-> "unknown"]
    /\ runner = [j \in Jobs |-> NoWorker]
    /\ tries = [j \in Jobs |-> 0]

Submit(j) ==
    /\ phase[j] = "unknown"
    /\ phase' = [phase EXCEPT ![j] = "queued"]
    /\ UNCHANGED <<runner, tries>>

\* A worker executes one job at a time.
Take(j, w) ==
    /\ phase[j] = "queued"
    /\ \A i \in Jobs : runner[i] # w
    /\ phase' = [phase EXCEPT ![j] = "taken"]
    /\ runner' = [runner EXCEPT ![j] = w]
    /\ UNCHANGED tries

\* The runner is lost; nobody knows yet.
Lose(j) ==
    /\ runner[j] # NoWorker
    /\ runner' = [runner EXCEPT ![j] = NoWorker]
    /\ UNCHANGED <<phase, tries>>

\* Only jobs whose runner is lost are put back, any number together.
PutBack(S) ==
    /\ \A j \in S : phase[j] = "taken" /\ runner[j] = NoWorker
    /\ phase' = [j \in Jobs |-> IF j \in S THEN "queued" ELSE phase[j]]
    /\ UNCHANGED <<runner, tries>>

\* The runner, and nobody else, ends the execution.
EndRun(j, outcome) ==
    /\ phase[j] = "taken" /\ runner[j] # NoWorker
    /\ phase' = [phase EXCEPT ![j] = outcome]
    /\ runner' = [runner EXCEPT ![j] = NoWorker]

Succeed(j) == EndRun(j, "done") /\ UNCHANGED tries

Fail(j) ==
    /\ EndRun(j, IF tries[j] + 1 < MaxAttempts THEN "queued" ELSE "dead")
    /\ tries' = [tries EXCEPT ![j] = @ + 1]

Next ==
    \/ \E j \in Jobs : Submit(j) \/ Lose(j) \/ Succeed(j) \/ Fail(j)
    \/ \E j \in Jobs, w \in Workers : Take(j, w)
    \/ \E S \in SUBSET Jobs : PutBack(S)

Spec == Init /\ [][Next]_lifeVars
=============================================================================
