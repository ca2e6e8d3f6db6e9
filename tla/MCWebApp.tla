------------------------------ MODULE MCWebApp ------------------------------
(* WebApp with two numbers, a third that has no normalized form, and a     *)
(* line of calls from the first and one from the third.                    *)
EXTENDS WebApp

CONSTANTS a, b, s, j, k, l, m

Callers0 == <<a, s>>

Gestures == [lookup |-> 3, calllog |-> 3, ops |-> 2]

Directories == {(a :> "counted") @@ (b :> "absent")}

JobsBefore ==
    {(j :> "PENDING") @@ (k :> "RUNNING") @@ (l :> "FAILED") @@ (m :> "none")}

Limits == [warningPending |-> 2, criticalPending |-> 3,
           warningAge |-> 1, criticalAge |-> 2]
=============================================================================
