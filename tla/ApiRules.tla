------------------------------ MODULE ApiRules ------------------------------
(***************************************************************************)
(* Verdicts the API computes from a few numbers: the health of the job     *)
(* queue (monitoring.ts) and the rank of an unknown caller (callLog.ts).   *)
(***************************************************************************)
EXTENDS Integers

\* evaluateQueueHealth: ages and thresholds in one unit, no age being 0.
EvaluateQueueHealth(pending, age, thresholds) ==
    IF pending >= thresholds.criticalPending \/ age >= thresholds.criticalAge
    THEN "CRITICAL"
    ELSE IF pending >= thresholds.warningPending \/ age >= thresholds.warningAge
    THEN "WARNING"
    ELSE "HEALTHY"
=============================================================================
