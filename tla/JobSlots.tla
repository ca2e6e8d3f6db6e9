------------------------------ MODULE JobSlots ------------------------------
(***************************************************************************)
(* The job table as those who create jobs see it: how many jobs of each    *)
(* index entry are active, and nothing of who runs them or how often they  *)
(* fail.  An entry has room for one active job; the jobs outside the       *)
(* indexes are not limited.  Module JobQueue is shown to implement this,   *)
(* executions that overlap included, and module Scheduler to use it.       *)
(***************************************************************************)
EXTENDS Naturals

CONSTANTS Entries,  \* the entries of the two partial unique indexes
          Unindexed \* where the jobs outside the indexes are counted

VARIABLE jobs       \* entry -> its active jobs

Init == jobs = [k \in Entries \cup {Unindexed} |-> 0]

\* A job becomes active: it is created, or a late failure puts it back.
Open(k) ==
    /\ k = Unindexed \/ jobs[k] = 0
    /\ jobs' = [jobs EXCEPT ![k] = @ + 1]

\* An active job gets its verdict.
Close(k) ==
    /\ jobs[k] > 0
    /\ jobs' = [jobs EXCEPT ![k] = @ - 1]

Next == \E k \in Entries \cup {Unindexed} : Open(k) \/ Close(k)

Spec == Init /\ [][Next]_jobs
=============================================================================
