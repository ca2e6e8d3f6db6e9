--------------------------- MODULE JobQueue_proofs ---------------------------
(***************************************************************************)
(* TLAPS proofs about the job queue, for every set of rows, workers and    *)
(* keys and every retry budget.                                            *)
(***************************************************************************)
EXTENDS JobQueue, FiniteSetTheorems, TLAPS

USE ConstantsOK DEF ConstantsOK

\* A worker remembers a job exactly while it executes one.
RunsAJob == \A w \in Workers : pc[w] = "run" <=> job[w] # NoJob

\* Type correctness of the table and of the workers: every committed update
\* of queue.py and every step of worker.py keeps each column in its domain.
THEOREM TypeCorrect == Spec => [](TypeOK /\ RunsAJob)
<1> USE DEF TypeOK, RunsAJob, Active, Terminal
<1>1. Init => TypeOK /\ RunsAJob
  BY DEF Init
<1>2. TypeOK /\ RunsAJob /\ [Next]_vars => (TypeOK /\ RunsAJob)'
  <2> SUFFICES ASSUME TypeOK, RunsAJob, [Next]_vars
               PROVE  (TypeOK /\ RunsAJob)'
    OBVIOUS
  <2>1. ASSUME NEW j \in Jobs, NEW k \in Keys \cup {NoKey}, CreateJob(j, k)
        PROVE  (TypeOK /\ RunsAJob)'
    BY <2>1 DEF CreateJob
  <2>2. ASSUME NEW j \in Jobs, BackoffElapses(j)
        PROVE  (TypeOK /\ RunsAJob)'
    BY <2>2 DEF BackoffElapses
  <2>3. ASSUME NEW j \in Jobs, LockExpires(j)
        PROVE  (TypeOK /\ RunsAJob)'
    BY <2>3 DEF LockExpires
  <2>4. ASSUME NEW w \in Workers, StartPass(w)
        PROVE  (TypeOK /\ RunsAJob)'
    BY <2>4 DEF StartPass
  <2>5. ASSUME NEW w \in Workers,
               PassShutdownCheck(w) \/ ExitOnShutdown(w) \/ NothingToClaim(w) \/ Restart(w)
        PROVE  (TypeOK /\ RunsAJob)'
    BY <2>5 DEF PassShutdownCheck, ExitOnShutdown, NothingToClaim, Restart, table
  <2>6. ASSUME NEW w \in Workers, NEW j \in Jobs, ClaimJob(w, j)
        PROVE  (TypeOK /\ RunsAJob)'
    BY <2>6 DEF ClaimJob
  <2>7. ASSUME NEW w \in Workers, CompleteJob(w)
        PROVE  (TypeOK /\ RunsAJob)'
    BY <2>7 DEF CompleteJob, Release
  <2>8. ASSUME NEW w \in Workers, FailForGood(w)
        PROVE  (TypeOK /\ RunsAJob)'
    BY <2>8 DEF FailForGood, Release
  <2>9. ASSUME NEW w \in Workers, FailAndRetry(w)
        PROVE  (TypeOK /\ RunsAJob)'
    BY <2>9 DEF FailAndRetry, Release
  <2>10. ASSUME NEW w \in Workers, RetryRefused(w) \/ Crash(w)
         PROVE  (TypeOK /\ RunsAJob)'
    <3>1. Dies(w)
      BY <2>10 DEF RetryRefused, Crash
    <3>2. disruptions' \in 0..MaxDisruptions
      <4>1. CASE RetryRefused(w)
        BY <4>1 DEF RetryRefused
      <4>2. CASE Crash(w)
        BY <4>2 DEF Crash
      <4>3. QED
        BY <2>10, <4>1, <4>2
    <3>3. QED
      BY <3>1, <3>2 DEF Dies, table
  <2>11. ASSUME NEW w \in Workers, Signal(w)
         PROVE  (TypeOK /\ RunsAJob)'
    BY <2>11 DEF Signal, table
  <2>12. CASE UNCHANGED vars
    BY <2>12 DEF vars
  <2>13. QED
    BY <2>1, <2>2, <2>3, <2>4, <2>5, <2>6, <2>7, <2>8, <2>9, <2>10, <2>11, <2>12
       DEF Next, QueueStep, WorkerStep, FailJob
<1>3. QED
  BY <1>1, <1>2, PTL DEF Spec

\* The job a worker executes is a row of the table.
LEMMA HeldJob ==
    ASSUME TypeOK, RunsAJob, NEW w \in Workers, pc[w] = "run"
    PROVE  job[w] \in Jobs
BY DEF TypeOK, RunsAJob

-----------------------------------------------------------------------------
(* Uniqueness of active jobs.  It needs that only RUNNING, hence active,   *)
(* rows are stale: recovery then makes no row active that was not.         *)

UniqueInv == TypeOK /\ RunsAJob /\ LockIffRunning /\ OneActiveJobPerKey

\* A step that gives one row its new status under an index entry the table
\* admits keeps active jobs unique per key.
LEMMA AdmittedKeepsUnique ==
    ASSUME TypeOK, OneActiveJobPerKey,
           NEW j \in Jobs, NEW k \in Keys \cup {NoKey}, NEW s,
           (status[j] \in Active /\ key[j] = k) \/ IndexAdmits(j, k) \/ s \notin Active,
           status' = [status EXCEPT ![j] = s],
           key' = [key EXCEPT ![j] = k]
    PROVE  OneActiveJobPerKey'
<1> SUFFICES ASSUME NEW a \in Jobs, NEW b \in Jobs, a # b,
                    key'[a] = key'[b], key'[a] # NoKey,
                    status'[a] \in Active, status'[b] \in Active
             PROVE  FALSE
  BY DEF OneActiveJobPerKey, Active
<1> USE DEF TypeOK
<1>1. CASE a # j /\ b # j
  BY <1>1 DEF OneActiveJobPerKey
<1>2. ASSUME NEW i \in Jobs \ {j}, key[i] = k, k # NoKey, status[i] \in Active,
             s \in Active
      PROVE  FALSE
  BY <1>2 DEF OneActiveJobPerKey, IndexAdmits
<1>3. CASE a = j
  BY <1>2, <1>3
<1>4. CASE b = j
  BY <1>2, <1>4
<1>5. QED
  BY <1>1, <1>3, <1>4

\* One active job per target or per source and type (migration 0004),
\* through creation, retry, late releases and stale recovery alike; and no
\* row is locked or stale unless it is RUNNING.
THEOREM ActiveJobsUnique == Spec => [](OneActiveJobPerKey /\ LockIffRunning)
<1>1. Init => UniqueInv
  BY DEF Init, UniqueInv, TypeOK, RunsAJob, LockIffRunning, OneActiveJobPerKey,
         Active, Terminal
<1>2. UniqueInv /\ (TypeOK /\ RunsAJob)' /\ [Next]_vars => UniqueInv'
  <2> SUFFICES ASSUME UniqueInv, TypeOK', RunsAJob', [Next]_vars
               PROVE  (LockIffRunning /\ OneActiveJobPerKey)'
    BY DEF UniqueInv
  <2> USE DEF UniqueInv
  <2>1. ASSUME NEW j \in Jobs, NEW k \in Keys \cup {NoKey}, CreateJob(j, k)
        PROVE  (LockIffRunning /\ OneActiveJobPerKey)'
    <3>1. OneActiveJobPerKey'
      BY <2>1, AdmittedKeepsUnique DEF CreateJob
    <3>2. LockIffRunning'
      BY <2>1 DEF CreateJob, LockIffRunning, TypeOK
    <3>3. QED
      BY <3>1, <3>2
  <2>2. ASSUME NEW w \in Workers, StartPass(w)
        PROVE  (LockIffRunning /\ OneActiveJobPerKey)'
    <3>1. \A j \in Jobs : status'[j] \in Active <=> status[j] \in Active
      BY <2>2 DEF StartPass, LockIffRunning, TypeOK, Active
    <3>2. OneActiveJobPerKey'
      BY <2>2, <3>1 DEF StartPass, OneActiveJobPerKey
    <3>3. LockIffRunning'
      BY <2>2 DEF StartPass, LockIffRunning, TypeOK
    <3>4. QED
      BY <3>2, <3>3
  <2>3. ASSUME NEW w \in Workers, NEW j \in Jobs, ClaimJob(w, j)
        PROVE  (LockIffRunning /\ OneActiveJobPerKey)'
    <3>1. key' = [key EXCEPT ![j] = key[j]] /\ status[j] \in Active
      BY <2>3 DEF ClaimJob, Claimable, TypeOK, Active
    <3>2. OneActiveJobPerKey'
      BY <2>3, <3>1, AdmittedKeepsUnique DEF ClaimJob, TypeOK
    <3>3. LockIffRunning'
      BY <2>3 DEF ClaimJob, Claimable, LockIffRunning, TypeOK
    <3>4. QED
      BY <3>2, <3>3
  <2>4. ASSUME NEW w \in Workers, CompleteJob(w) \/ FailForGood(w) \/ FailAndRetry(w)
        PROVE  (LockIffRunning /\ OneActiveJobPerKey)'
    <3>1. PICK s \in {"SUCCESS", "FAILED", "RETRY"} :
            /\ Release(w, job[w], s)
            /\ s = "RETRY" => IndexAdmits(job[w], key[job[w]])
      BY <2>4 DEF CompleteJob, FailForGood, FailAndRetry
    <3>2. job[w] \in Jobs
      BY <2>4, HeldJob DEF CompleteJob, FailForGood, FailAndRetry
    <3>3. OneActiveJobPerKey'
      <4>1. key' = [key EXCEPT ![job[w]] = key[job[w]]]
        BY <3>1, <3>2 DEF Release, TypeOK
      <4>2. s = "RETRY" \/ s \notin Active
        BY DEF Active
      <4>3. key[job[w]] \in Keys \cup {NoKey}
        BY <3>2 DEF TypeOK
      <4>4. QED
        BY <3>1, <3>2, <4>1, <4>2, <4>3, AdmittedKeepsUnique DEF Release
    <3>4. LockIffRunning'
      BY <3>1, <3>2 DEF Release, LockIffRunning, TypeOK
    <3>5. QED
      BY <3>3, <3>4
  <2>5. ASSUME NEW j \in Jobs, LockExpires(j)
        PROVE  (LockIffRunning /\ OneActiveJobPerKey)'
    BY <2>5 DEF LockExpires, LockIffRunning, OneActiveJobPerKey
  <2>6. CASE UNCHANGED <<status, key, lockedBy, stale>>
    BY <2>6 DEF LockIffRunning, OneActiveJobPerKey
  <2>7. ASSUME NEW w \in Workers,
               \/ PassShutdownCheck(w) \/ ExitOnShutdown(w) \/ NothingToClaim(w)
               \/ Restart(w) \/ RetryRefused(w) \/ Crash(w) \/ Signal(w)
        PROVE  UNCHANGED <<status, key, lockedBy, stale>>
    BY <2>7 DEF PassShutdownCheck, ExitOnShutdown, NothingToClaim, Restart,
                RetryRefused, Crash, Signal, Dies, table
  <2>8. ASSUME NEW j \in Jobs, BackoffElapses(j)
        PROVE  UNCHANGED <<status, key, lockedBy, stale>>
    BY <2>8 DEF BackoffElapses
  <2>9. CASE UNCHANGED vars
    BY <2>6, <2>9 DEF vars
  <2>10. QED
    BY <2>1, <2>2, <2>3, <2>4, <2>5, <2>6, <2>7, <2>8, <2>9
       DEF Next, QueueStep, WorkerStep, FailJob
<1>3. UniqueInv => OneActiveJobPerKey /\ LockIffRunning
  BY DEF UniqueInv
<1>4. QED
  BY <1>1, <1>2, <1>3, TypeCorrect, PTL DEF Spec

-----------------------------------------------------------------------------
(* Late workers.  With handlers that outlast the stale timeout, one row is *)
(* executed by several workers and failures are counted beyond the budget. *)
(* Each worker holds at most one execution of a row and each execution     *)
(* counts at most one failure, and a row is only claimed, hence executed   *)
(* once more, while an attempt is left.                                    *)

Executors(j) == {w \in Workers : Executes(w, j)}

AttemptLeftWhileActive ==
    \A j \in Jobs : status[j] \in Active => attempts[j] < MaxAttempts

FailuresOwed ==
    \A j \in Jobs :
        attempts[j] + Cardinality(Executors(j)) <= MaxAttempts - 1 + Cardinality(Workers)

LateInv == AttemptLeftWhileActive /\ FailuresOwed /\ (\A j \in Jobs : status[j] = "ABSENT" => attempts[j] = 0)

LEMMA ExecutorsFinite ==
    ASSUME IsFiniteSet(Workers), NEW S, S \subseteq Workers
    PROVE  /\ IsFiniteSet(S) /\ Cardinality(S) \in Nat
           /\ Cardinality(Workers) \in Nat /\ Cardinality(S) <= Cardinality(Workers)
BY FS_Subset, FS_CardinalityType

\* Steps that count no failure and begin no execution.
LEMMA NoMoreOwed ==
    ASSUME IsFiniteSet(Workers), TypeOK, FailuresOwed, UNCHANGED attempts,
           \A w \in Workers, j \in Jobs : Executes(w, j)' => Executes(w, j)
    PROVE  FailuresOwed'
<1> SUFFICES ASSUME NEW j \in Jobs
             PROVE  attempts[j] + Cardinality(Executors(j)')
                        <= MaxAttempts - 1 + Cardinality(Workers)
  BY DEF FailuresOwed
<1>1. Executors(j)' \in SUBSET Executors(j) /\ Executors(j) \subseteq Workers
  BY DEF Executors
<1>2. IsFiniteSet(Executors(j))
  BY <1>1, ExecutorsFinite
<1>3. Cardinality(Executors(j)') <= Cardinality(Executors(j))
  BY <1>1, <1>2, FS_Subset
<1>4. Cardinality(Executors(j)') \in Nat /\ Cardinality(Executors(j)) \in Nat /\ Cardinality(Workers) \in Nat
  BY <1>1, ExecutorsFinite
<1>5. attempts[j] \in Nat /\ attempts[j] + Cardinality(Executors(j)) <= MaxAttempts - 1 + Cardinality(Workers)
  BY DEF FailuresOwed, TypeOK
<1>6. QED
  BY <1>3, <1>4, <1>5

LEMMA LateStep ==
    ASSUME IsFiniteSet(Workers), UniqueInv, LateInv, UniqueInv', [Next]_vars
    PROVE  LateInv'
<1> USE DEF UniqueInv, LateInv
<1> DEFINE Fresh == \A j \in Jobs : status[j] = "ABSENT" => attempts[j] = 0
<1>1. ASSUME NEW j \in Jobs, NEW k \in Keys \cup {NoKey}, CreateJob(j, k)
      PROVE  LateInv'
  <2>1. FailuresOwed'
    BY <1>1, NoMoreOwed DEF CreateJob, Executes
  <2>2. (AttemptLeftWhileActive /\ Fresh)'
    BY <1>1 DEF CreateJob, AttemptLeftWhileActive, TypeOK, Active
  <2>3. QED
    BY <2>1, <2>2
<1>2. ASSUME NEW w \in Workers, StartPass(w)
      PROVE  LateInv'
  <2>1. FailuresOwed'
    BY <1>2, NoMoreOwed DEF StartPass, Executes, TypeOK
  <2>2. (AttemptLeftWhileActive /\ Fresh)'
    BY <1>2 DEF StartPass, AttemptLeftWhileActive, LockIffRunning, TypeOK, Active
  <2>3. QED
    BY <2>1, <2>2
<1>3. ASSUME NEW w \in Workers, NEW j \in Jobs, ClaimJob(w, j)
      PROVE  LateInv'
  <2>1. (AttemptLeftWhileActive /\ Fresh)'
    BY <1>3 DEF ClaimJob, Claimable, AttemptLeftWhileActive, TypeOK, Active
  <2>2. ASSUME NEW i \in Jobs
        PROVE  (attempts[i] + Cardinality(Executors(i)) <= MaxAttempts - 1 + Cardinality(Workers))'
    <3>1. CASE i = j
      <4>1. attempts[j] <= MaxAttempts - 1 /\ attempts[j] \in Nat
        BY <1>3 DEF ClaimJob, Claimable, AttemptLeftWhileActive, Active, TypeOK
      <4>2. Cardinality(Executors(j)') <= Cardinality(Workers) /\ Cardinality(Executors(j)') \in Nat
            /\ Cardinality(Workers) \in Nat
        BY ExecutorsFinite DEF Executors
      <4>3. QED
        BY <1>3, <3>1, <4>1, <4>2 DEF ClaimJob
    <3>2. CASE i # j
      <4>1. Executors(i)' = Executors(i)
        <5>1. pc[w] = "claim"
          BY <1>3 DEF ClaimJob
        <5>2. \A v \in Workers : Executes(v, i)' <=> Executes(v, i)
          BY <1>3, <3>2, <5>1 DEF ClaimJob, Executes, TypeOK
        <5>3. QED
          BY <5>2 DEF Executors
      <4>2. QED
        BY <1>3, <4>1 DEF ClaimJob, FailuresOwed
    <3>3. QED
      BY <3>1, <3>2
  <2>3. QED
    BY <2>1, <2>2 DEF FailuresOwed
<1>4. ASSUME NEW w \in Workers, CompleteJob(w)
      PROVE  LateInv'
  <2>1. \A v \in Workers, i \in Jobs : Executes(v, i)' => Executes(v, i)
    BY <1>4 DEF CompleteJob, Release, Executes, TypeOK
  <2>2. FailuresOwed'
    BY <1>4, <2>1, NoMoreOwed DEF CompleteJob
  <2>3. (AttemptLeftWhileActive /\ Fresh)'
    BY <1>4 DEF CompleteJob, Release, AttemptLeftWhileActive, TypeOK, Active
  <2>4. QED
    BY <2>2, <2>3
<1>5. ASSUME NEW w \in Workers, FailForGood(w) \/ FailAndRetry(w)
      PROVE  LateInv'
  <2> DEFINE j == job[w]
  <2>1. PICK s \in {"FAILED", "RETRY"} :
            /\ Release(w, j, s) /\ pc[w] = "run"
            /\ attempts' = [attempts EXCEPT ![j] = @ + 1]
            /\ s = "RETRY" => attempts[j] + 1 < MaxAttempts
    BY <1>5 DEF FailForGood, FailAndRetry
  <2>2. j \in Jobs
    BY <2>1, HeldJob
  <2>3. (AttemptLeftWhileActive /\ Fresh)'
    BY <2>1, <2>2 DEF Release, AttemptLeftWhileActive, TypeOK, Active
  <2>4. ASSUME NEW i \in Jobs
        PROVE  (attempts[i] + Cardinality(Executors(i)) <= MaxAttempts - 1 + Cardinality(Workers))'
    <3> HIDE DEF j
    <3>1. /\ Executors(i) \subseteq Workers /\ IsFiniteSet(Executors(i))
          /\ Cardinality(Executors(i)) \in Nat /\ Cardinality(Workers) \in Nat
          /\ attempts[i] \in Nat
          /\ attempts[i] + Cardinality(Executors(i)) <= MaxAttempts - 1 + Cardinality(Workers)
      BY ExecutorsFinite DEF Executors, FailuresOwed, TypeOK
    <3>2. w \in Executors(j)
      BY <2>1 DEF Executors, Executes, j
    <3>3. Executors(i)' = Executors(i) \ {w}
      BY <2>1 DEF Release, Executors, Executes, TypeOK, j
    <3>4. CASE i = j
      <4>1. Cardinality(Executors(i)') = Cardinality(Executors(i)) - 1
        BY <3>1, <3>2, <3>3, <3>4, FS_RemoveElement
      <4>2. attempts'[i] = attempts[i] + 1
        BY <2>1, <3>4 DEF TypeOK
      <4>3. QED
        BY <3>1, <4>1, <4>2
    <3>5. CASE i # j
      <4>1. w \notin Executors(i)
        BY <3>5 DEF Executors, Executes, j
      <4>2. Executors(i)' = Executors(i)
        BY <3>3, <4>1
      <4>3. attempts'[i] = attempts[i]
        BY <2>1, <3>5 DEF TypeOK
      <4>4. QED
        BY <3>1, <4>2, <4>3
    <3>6. QED
      BY <3>4, <3>5
  <2>5. QED
    BY <2>3, <2>4 DEF FailuresOwed
<1>6. ASSUME UNCHANGED <<status, attempts>>,
             \A w \in Workers, j \in Jobs : Executes(w, j)' => Executes(w, j)
      PROVE  LateInv'
  BY <1>6, NoMoreOwed DEF AttemptLeftWhileActive
<1>7. ASSUME NEW w \in Workers,
             \/ PassShutdownCheck(w) \/ ExitOnShutdown(w) \/ NothingToClaim(w)
             \/ Restart(w) \/ RetryRefused(w) \/ Crash(w) \/ Signal(w)
      PROVE  LateInv'
  <2>1. UNCHANGED <<status, attempts>>
    BY <1>7 DEF PassShutdownCheck, ExitOnShutdown, NothingToClaim, Restart,
                RetryRefused, Crash, Signal, Dies, table
  <2>2. \A v \in Workers, j \in Jobs : Executes(v, j)' => Executes(v, j)
    BY <1>7 DEF PassShutdownCheck, ExitOnShutdown, NothingToClaim, Restart,
                RetryRefused, Crash, Signal, Dies, Executes, TypeOK
  <2>3. QED
    BY <1>6, <2>1, <2>2
<1>8. CASE UNCHANGED vars \/ \E j \in Jobs : BackoffElapses(j) \/ LockExpires(j)
  BY <1>6, <1>8 DEF vars, BackoffElapses, LockExpires, Executes
<1>9. QED
  BY <1>1, <1>2, <1>3, <1>4, <1>5, <1>7, <1>8
     DEF Next, QueueStep, WorkerStep, FailJob

\* Workers that finish late, without any assumption on how long handlers
\* take: no row keeps a lock it does not run under, and attempt_count exceeds
\* max_attempts by at most one failure per other worker.
THEOREM LateWorkersContained ==
    ASSUME IsFiniteSet(Workers)
    PROVE  Spec => []LateWritesContained
<1>1. Init => LateInv
  <2> SUFFICES ASSUME Init PROVE LateInv
    OBVIOUS
  <2>1. ASSUME NEW j \in Jobs
        PROVE  attempts[j] + Cardinality(Executors(j)) <= MaxAttempts - 1 + Cardinality(Workers)
    <3>1. Executors(j) = {} /\ attempts[j] = 0
      BY <2>1 DEF Init, Executors, Executes
    <3>2. Cardinality(Executors(j)) = 0 /\ Cardinality(Workers) \in Nat
      BY <3>1, FS_EmptySet, FS_CardinalityType
    <3>3. QED
      BY <3>1, <3>2
  <2>2. QED
    BY <2>1 DEF Init, LateInv, FailuresOwed, AttemptLeftWhileActive, Active
<1>2. UniqueInv /\ UniqueInv' /\ LateInv /\ [Next]_vars => LateInv'
  BY LateStep
<1>3. UniqueInv /\ LateInv => LateWritesContained
  <2> SUFFICES ASSUME UniqueInv, LateInv, NEW j \in Jobs
               PROVE  attempts[j] <= MaxAttempts + Cardinality(Workers) - 1
    BY DEF LateWritesContained, AttemptsBounded, UniqueInv
  <2>1. Cardinality(Executors(j)) \in Nat /\ Cardinality(Workers) \in Nat
    BY ExecutorsFinite DEF Executors
  <2>2. attempts[j] + Cardinality(Executors(j)) <= MaxAttempts - 1 + Cardinality(Workers)
    BY DEF LateInv, FailuresOwed
  <2>3. attempts[j] \in Nat
    BY DEF UniqueInv, TypeOK
  <2>4. QED
    BY <2>1, <2>2, <2>3
<1>4. Spec => []UniqueInv
  <2>1. TypeOK /\ RunsAJob /\ OneActiveJobPerKey /\ LockIffRunning <=> UniqueInv
    BY DEF UniqueInv
  <2>2. QED
    BY <2>1, TypeCorrect, ActiveJobsUnique, PTL
<1>5. QED
  BY <1>1, <1>2, <1>3, <1>4, PTL DEF Spec

-----------------------------------------------------------------------------
(* Leases.  When no live handler outlasts the stale timeout, a worker owns *)
(* the row of the job it executes from its claim to its release.  The      *)
(* invariant adds to LeaseHeld that such a row is never stale, which is    *)
(* what keeps StartPass of the other workers away from it.                 *)

NotStaleWhileRun ==
    \A w \in Workers, j \in Jobs : Executes(w, j) => j \notin stale

FreshWhileAbsent == \A j \in Jobs : status[j] = "ABSENT" => attempts[j] = 0

LeaseInv ==
    /\ TypeOK /\ RunsAJob /\ LockIffRunning
    /\ LeaseHeld /\ NotStaleWhileRun
    /\ FreshWhileAbsent /\ RetryBudget

\* A lease is one worker's: the row names a single owner.
LEMMA LeaseExcludes == LeaseHeld => ExclusiveExecution
BY DEF LeaseHeld, ExclusiveExecution

\* Steps that leave the table and every execution alone keep the leases.
LEMMA LeaseStutter ==
    ASSUME LeaseInv,
           UNCHANGED <<status, attempts, lockedBy, stale>>,
           \A w \in Workers, j \in Jobs : Executes(w, j)' => Executes(w, j)
    PROVE  (LeaseHeld /\ NotStaleWhileRun /\ FreshWhileAbsent /\ RetryBudget)'
BY DEF LeaseInv, LeaseHeld, NotStaleWhileRun, FreshWhileAbsent, RetryBudget, Executes

\* Without overrun every step keeps the leases and the retry budget.
LEMMA LeaseStep ==
    ASSUME ~Overrun, LeaseInv, (TypeOK /\ RunsAJob /\ LockIffRunning)', [Next]_vars
    PROVE  LeaseInv'
<1> SUFFICES (LeaseHeld /\ NotStaleWhileRun /\ FreshWhileAbsent /\ RetryBudget)'
  BY DEF LeaseInv
<1> USE DEF LeaseInv
<1>1. ASSUME NEW j \in Jobs, NEW k \in Keys \cup {NoKey}, CreateJob(j, k)
      PROVE  (LeaseHeld /\ NotStaleWhileRun /\ FreshWhileAbsent /\ RetryBudget)'
  <2>1. (LeaseHeld /\ NotStaleWhileRun)'
    BY <1>1 DEF CreateJob, LeaseHeld, NotStaleWhileRun, Executes, TypeOK
  <2>2. (FreshWhileAbsent /\ RetryBudget)'
    BY <1>1 DEF CreateJob, FreshWhileAbsent, RetryBudget, TypeOK, Active
  <2>3. QED
    BY <2>1, <2>2
<1>2. ASSUME NEW j \in Jobs, LockExpires(j)
      PROVE  (LeaseHeld /\ NotStaleWhileRun /\ FreshWhileAbsent /\ RetryBudget)'
  BY <1>2 DEF LockExpires, LeaseHeld, NotStaleWhileRun, FreshWhileAbsent,
              RetryBudget, Executes
<1>3. ASSUME NEW w \in Workers, StartPass(w)
      PROVE  (LeaseHeld /\ NotStaleWhileRun /\ FreshWhileAbsent /\ RetryBudget)'
  <2>1. \A v \in Workers, j \in Jobs : Executes(v, j)' => Executes(v, j)
    BY <1>3 DEF StartPass, Executes, TypeOK
  <2>2. (LeaseHeld /\ NotStaleWhileRun)'
    BY <1>3, <2>1 DEF StartPass, LeaseHeld, NotStaleWhileRun, TypeOK
  <2>3. (FreshWhileAbsent /\ RetryBudget)'
    BY <1>3 DEF StartPass, FreshWhileAbsent, RetryBudget, LockIffRunning, TypeOK, Active
  <2>4. QED
    BY <2>2, <2>3
<1>4. ASSUME NEW w \in Workers, NEW j \in Jobs, ClaimJob(w, j)
      PROVE  (LeaseHeld /\ NotStaleWhileRun /\ FreshWhileAbsent /\ RetryBudget)'
  <2>1. status[j] \in {"PENDING", "RETRY"} /\ j \notin stale
    BY <1>4 DEF ClaimJob, Claimable, LockIffRunning
  <2>2. \A v \in Workers : ~Executes(v, j)
    BY <2>1 DEF LeaseHeld
  <2>3. (LeaseHeld /\ NotStaleWhileRun)'
    BY <1>4, <2>1, <2>2 DEF ClaimJob, LeaseHeld, NotStaleWhileRun, Executes, TypeOK
  <2>4. (FreshWhileAbsent /\ RetryBudget)'
    BY <1>4, <2>1 DEF ClaimJob, FreshWhileAbsent, RetryBudget, TypeOK, Active
  <2>5. QED
    BY <2>3, <2>4
<1>5. ASSUME NEW w \in Workers, CompleteJob(w) \/ FailForGood(w) \/ FailAndRetry(w)
      PROVE  (LeaseHeld /\ NotStaleWhileRun /\ FreshWhileAbsent /\ RetryBudget)'
  <2> DEFINE j == job[w]
  <2>1. PICK s \in {"SUCCESS", "FAILED", "RETRY"} : Release(w, j, s)
    BY <1>5 DEF CompleteJob, FailForGood, FailAndRetry
  <2>2. j \in Jobs /\ Executes(w, j)
    BY <1>5, HeldJob DEF CompleteJob, FailForGood, FailAndRetry, Executes
  <2>3. status[j] = "RUNNING" /\ attempts[j] < MaxAttempts
    BY <2>2 DEF LeaseHeld, RetryBudget, Active
  <2>4. \A v \in Workers, i \in Jobs : Executes(v, i)' => Executes(v, i) /\ v # w /\ i # j
    BY <2>1, <2>2 DEF Release, Executes, TypeOK, LeaseHeld
  <2>5. (LeaseHeld /\ NotStaleWhileRun)'
    BY <2>1, <2>2, <2>4 DEF Release, LeaseHeld, NotStaleWhileRun, TypeOK
  <2>6. (FreshWhileAbsent /\ RetryBudget)'
    BY <1>5, <2>2, <2>3 DEF CompleteJob, FailForGood, FailAndRetry, Release,
                            FreshWhileAbsent, RetryBudget, TypeOK, Active
  <2>7. QED
    BY <2>5, <2>6
<1>6. ASSUME NEW w \in Workers,
             \/ PassShutdownCheck(w) \/ ExitOnShutdown(w) \/ NothingToClaim(w)
             \/ Restart(w) \/ RetryRefused(w) \/ Crash(w) \/ Signal(w)
      PROVE  (LeaseHeld /\ NotStaleWhileRun /\ FreshWhileAbsent /\ RetryBudget)'
  <2>1. UNCHANGED <<status, attempts, lockedBy, stale>>
    BY <1>6 DEF PassShutdownCheck, ExitOnShutdown, NothingToClaim, Restart,
                RetryRefused, Crash, Signal, Dies, table
  <2>2. \A v \in Workers, j \in Jobs : Executes(v, j)' => Executes(v, j)
    BY <1>6 DEF PassShutdownCheck, ExitOnShutdown, NothingToClaim, Restart,
                RetryRefused, Crash, Signal, Dies, Executes, TypeOK
  <2>3. QED
    BY <2>1, <2>2, LeaseStutter
<1>7. CASE UNCHANGED vars \/ \E j \in Jobs : BackoffElapses(j)
  BY <1>7, LeaseStutter DEF vars, BackoffElapses, Executes
<1>8. QED
  BY <1>1, <1>2, <1>3, <1>4, <1>5, <1>6, <1>7
     DEF Next, QueueStep, WorkerStep, FailJob

LEMMA LeaseInvariant ==
    ASSUME ~Overrun
    PROVE  Spec => []LeaseInv
<1>1. Init => LeaseInv
  BY DEF Init, LeaseInv, TypeOK, RunsAJob, LockIffRunning, LeaseHeld,
         NotStaleWhileRun, FreshWhileAbsent, RetryBudget, Executes, Active, Terminal
<1>2. LeaseInv /\ (TypeOK /\ RunsAJob /\ LockIffRunning)' /\ [Next]_vars => LeaseInv'
  BY LeaseStep
<1>3. QED
  BY <1>1, <1>2, TypeCorrect, ActiveJobsUnique, PTL DEF Spec

\* queue.py's promise, "without claiming the same job twice", over whole
\* executions: if no live handler outlasts the stale timeout, no two workers
\* ever execute one job, and each holds the row it is going to release.
THEOREM LeasesExclusive ==
    ASSUME ~Overrun
    PROVE  Spec => [](ExclusiveExecution /\ LeaseHeld)
<1>1. LeaseInv => ExclusiveExecution /\ LeaseHeld
  BY LeaseExcludes DEF LeaseInv
<1>2. QED
  BY <1>1, LeaseInvariant, PTL

\* ... and attempt_count is exact: an active job has an attempt left, a
\* FAILED one has used exactly max_attempts.
THEOREM BudgetExact ==
    ASSUME ~Overrun
    PROVE  Spec => []RetryBudget
<1>1. LeaseInv => RetryBudget
  BY DEF LeaseInv
<1>2. QED
  BY <1>1, LeaseInvariant, PTL

\* ... and a verdict, once committed, is never touched again.
THEOREM VerdictsFinal ==
    ASSUME ~Overrun
    PROVE  Spec => TerminalIsFinal
<1> DEFINE Kept == \A j \in Jobs : status[j] \in Terminal =>
                        status'[j] = status[j] /\ attempts'[j] = attempts[j]
<1>1. LeaseInv /\ [Next]_vars => Kept
  <2> SUFFICES ASSUME LeaseInv, [Next]_vars PROVE Kept
    OBVIOUS
  <2> USE DEF LeaseInv, Terminal
  <2>1. ASSUME NEW j \in Jobs, NEW k \in Keys \cup {NoKey}, CreateJob(j, k)
        PROVE  Kept
    BY <2>1 DEF CreateJob, TypeOK
  <2>2. ASSUME NEW w \in Workers, StartPass(w)
        PROVE  Kept
    BY <2>2 DEF StartPass, LockIffRunning
  <2>3. ASSUME NEW w \in Workers, NEW j \in Jobs, ClaimJob(w, j)
        PROVE  Kept
    BY <2>3 DEF ClaimJob, Claimable, TypeOK
  <2>4. ASSUME NEW w \in Workers, CompleteJob(w) \/ FailForGood(w) \/ FailAndRetry(w)
        PROVE  Kept
    <3>1. job[w] \in Jobs /\ status[job[w]] = "RUNNING"
      BY <2>4, HeldJob DEF CompleteJob, FailForGood, FailAndRetry, Executes, LeaseHeld
    <3>2. QED
      BY <2>4, <3>1 DEF CompleteJob, FailForGood, FailAndRetry, Release, TypeOK
  <2>5. CASE UNCHANGED <<status, attempts>>
    BY <2>5
  <2>6. ASSUME NEW w \in Workers,
               \/ PassShutdownCheck(w) \/ ExitOnShutdown(w) \/ NothingToClaim(w)
               \/ Restart(w) \/ RetryRefused(w) \/ Crash(w) \/ Signal(w)
        PROVE  UNCHANGED <<status, attempts>>
    BY <2>6 DEF PassShutdownCheck, ExitOnShutdown, NothingToClaim, Restart,
                RetryRefused, Crash, Signal, Dies, table
  <2>7. ASSUME NEW j \in Jobs, BackoffElapses(j) \/ LockExpires(j)
        PROVE  UNCHANGED <<status, attempts>>
    BY <2>7 DEF BackoffElapses, LockExpires
  <2>8. QED
    BY <2>1, <2>2, <2>3, <2>4, <2>5, <2>6, <2>7
       DEF Next, QueueStep, WorkerStep, FailJob, vars
<1>2. QED
  BY <1>1, LeaseInvariant, PTL DEF Spec, TerminalIsFinal

-----------------------------------------------------------------------------
(* Refinement: every step of the queue is a step of the abstract life of a *)
(* job, or leaves it alone.                                                *)

\* The steps of a worker or of time that the abstraction does not see.
LEMMA InvisibleSteps ==
    ASSUME UNCHANGED <<status, attempts, lockedBy, job>>
    PROVE  UNCHANGED Lifecycle!lifeVars
BY DEF Lifecycle!lifeVars, Phase, Runner

\* A worker's new job, and none of its old one, shows in Runner.
LEMMA SubmitStep ==
    ASSUME LeaseInv, NEW j \in Jobs, NEW k \in Keys \cup {NoKey}, CreateJob(j, k)
    PROVE  Lifecycle!Submit(j)
<1>1. Phase(j) = "unknown" /\ Phase(j)' = "queued"
  BY DEF CreateJob, Phase, LeaseInv, TypeOK
<1>2. \A i \in Jobs \ {j} : Phase(i)' = Phase(i)
  BY DEF CreateJob, Phase, LeaseInv, TypeOK
<1>3. \A i \in Jobs : Runner(i)' = Runner(i)
  BY DEF CreateJob, Runner
<1>4. QED
  BY <1>1, <1>2, <1>3 DEF Lifecycle!Submit, CreateJob

LEMMA PutBackStep ==
    ASSUME LeaseInv, NEW w \in Workers, StartPass(w)
    PROVE  Lifecycle!PutBack(stale)
<1> USE DEF LeaseInv
<1>1. \A i \in stale : i \in Jobs /\ status[i] = "RUNNING"
  BY DEF LockIffRunning, TypeOK
<1>2. \A i \in stale : Runner(i) = NoWorker
  BY <1>1 DEF Runner, RunsAJob, Executes, NotStaleWhileRun, TypeOK
<1>3. \A i \in Jobs : Runner(i)' = Runner(i)
  <2>1. \A i \in Jobs \ stale : Runner(i)' = Runner(i)
    BY DEF StartPass, Runner
  <2>2. \A i \in stale : Runner(i)' = NoWorker
    BY <1>1 DEF StartPass, Runner
  <2>3. QED
    BY <1>2, <2>1, <2>2
<1>4. \A i \in Jobs : Phase(i)' = IF i \in stale THEN "queued" ELSE Phase(i)
  <2>1. \A i \in Jobs : status'[i] = IF i \in stale THEN "RETRY" ELSE status[i]
    BY DEF StartPass
  <2>2. \A i \in stale : Phase(i)' = "queued"
    BY <1>1, <2>1 DEF Phase
  <2>3. \A i \in Jobs \ stale : Phase(i)' = Phase(i)
    BY <2>1 DEF Phase
  <2>4. QED
    BY <2>2, <2>3
<1>5. \A i \in stale : Phase(i) = "taken"
  BY <1>1 DEF Phase
<1>6. QED
  BY <1>1, <1>2, <1>3, <1>4, <1>5 DEF Lifecycle!PutBack, StartPass

LEMMA TakeStep ==
    ASSUME LeaseInv, NEW w \in Workers, NEW j \in Jobs, ClaimJob(w, j)
    PROVE  Lifecycle!Take(j, w)
<1> USE DEF LeaseInv, TypeOK
<1>1. Phase(j) = "queued" /\ Phase(j)' = "taken"
  BY DEF ClaimJob, Claimable, Phase
<1>2. \A i \in Jobs \ {j} : Phase(i)' = Phase(i)
  BY DEF ClaimJob, Phase
<1>3. job[w] = NoJob
  BY DEF ClaimJob, RunsAJob
<1>4. \A i \in Jobs : Runner(i) # w
  BY <1>3 DEF Runner
<1>5. Runner(j)' = w
  BY DEF ClaimJob, Runner
<1>6. \A i \in Jobs \ {j} : Runner(i)' = Runner(i)
  BY <1>3 DEF ClaimJob, Runner
<1>7. QED
  BY <1>1, <1>2, <1>4, <1>5, <1>6 DEF Lifecycle!Take, ClaimJob

LEMMA ReleaseStep ==
    ASSUME LeaseInv, NEW w \in Workers,
           CompleteJob(w) \/ FailForGood(w) \/ FailAndRetry(w)
    PROVE  Lifecycle!Succeed(job[w]) \/ Lifecycle!Fail(job[w])
<1> USE DEF LeaseInv, TypeOK
<1>0. PICK j \in Jobs : j = job[w] /\ Executes(w, j)
  BY HeldJob DEF CompleteJob, FailForGood, FailAndRetry, Executes
<1>1. PICK s \in {"SUCCESS", "FAILED", "RETRY"} : Release(w, j, s)
  BY <1>0 DEF CompleteJob, FailForGood, FailAndRetry
<1>2. job[w] = j /\ Executes(w, j)
  BY <1>0
<1>3. Phase(j) = "taken" /\ Runner(j) = w
  BY <1>2 DEF LeaseHeld, Phase, Runner, Executes
<1>4. Runner(j)' = NoWorker
  BY <1>1, <1>2 DEF Release, Runner
<1>5. \A i \in Jobs \ {j} : Phase(i)' = Phase(i) /\ Runner(i)' = Runner(i)
  <2>1. \A i \in Jobs \ {j} : Phase(i)' = Phase(i)
    BY <1>1, <1>2 DEF Release, Phase
  <2>2. \A i \in Jobs \ {j} : Runner(i)' = Runner(i)
    BY <1>1, <1>2 DEF Release, Runner
  <2>3. QED
    BY <2>1, <2>2
<1>6. CASE CompleteJob(w)
  <2>1. Phase(j)' = "done"
    BY <1>2, <1>6 DEF CompleteJob, Release, Phase
  <2>2. QED
    BY <1>2, <1>3, <1>4, <1>5, <1>6, <2>1
       DEF Lifecycle!Succeed, Lifecycle!EndRun, CompleteJob
<1>7. CASE FailForGood(w) \/ FailAndRetry(w)
  <2>1. Phase(j)' = IF attempts[j] + 1 < MaxAttempts THEN "queued" ELSE "dead"
    <3>1. CASE FailForGood(w)
      <4>1. status'[j] = "FAILED" /\ ~(attempts[j] + 1 < MaxAttempts)
        BY <1>2, <3>1 DEF FailForGood, Release
      <4>2. QED
        BY <4>1 DEF Phase
    <3>2. CASE FailAndRetry(w)
      <4>1. status'[j] = "RETRY" /\ attempts[j] + 1 < MaxAttempts
        BY <1>2, <3>2 DEF FailAndRetry, Release
      <4>2. QED
        BY <4>1 DEF Phase
    <3>3. QED
      BY <1>7, <3>1, <3>2
  <2>2. attempts' = [attempts EXCEPT ![j] = @ + 1]
    BY <1>2, <1>7 DEF FailForGood, FailAndRetry
  <2>3. Lifecycle!EndRun(j, IF attempts[j] + 1 < MaxAttempts THEN "queued" ELSE "dead")
    <3> DEFINE o == IF attempts[j] + 1 < MaxAttempts THEN "queued" ELSE "dead"
    <3>1. [i \in Jobs |-> Phase(i)]' = [[i \in Jobs |-> Phase(i)] EXCEPT ![j] = o]
      <4> HIDE DEF o
      <4>1. \A i \in Jobs : Phase(i)' = IF i = j THEN o ELSE Phase(i)
        BY <1>5, <2>1 DEF o
      <4>2. QED
        BY <4>1
    <3>2. [i \in Jobs |-> Runner(i)]' = [[i \in Jobs |-> Runner(i)] EXCEPT ![j] = NoWorker]
      BY <1>4, <1>5
    <3>3. QED
      BY <1>3, <3>1, <3>2 DEF Lifecycle!EndRun
  <2>4. QED
    BY <1>2, <2>2, <2>3 DEF Lifecycle!Fail
<1>8. QED
  BY <1>6, <1>7

LEMMA LoseStep ==
    ASSUME LeaseInv, NEW w \in Workers, Dies(w)
    PROVE  (\E j \in Jobs : Lifecycle!Lose(j)) \/ UNCHANGED Lifecycle!lifeVars
<1> USE DEF LeaseInv, TypeOK
<1>1. CASE job[w] = NoJob
  <2>1. UNCHANGED <<status, attempts, lockedBy, job>>
    BY <1>1 DEF Dies, table
  <2>2. QED
    BY <2>1, InvisibleSteps
<1>2. CASE job[w] # NoJob
  <2>1. PICK j \in Jobs : j = job[w] /\ Executes(w, j)
    BY <1>2 DEF RunsAJob, Executes
  <2>2. lockedBy[j] = w
    BY <2>1 DEF LeaseHeld
  <2>3. Runner(j) = w /\ Runner(j)' = NoWorker
    BY <2>1, <2>2 DEF Runner, Dies, table
  <2>4. \A i \in Jobs \ {j} : Runner(i)' = Runner(i)
    BY <2>1, <2>2 DEF Runner, Dies, table
  <2>5. \A i \in Jobs : Phase(i)' = Phase(i)
    BY DEF Phase, Dies, table
  <2>6. [i \in Jobs |-> Runner(i)]' = [[i \in Jobs |-> Runner(i)] EXCEPT ![j] = NoWorker]
    BY <2>3, <2>4
  <2>7. UNCHANGED <<[i \in Jobs |-> Phase(i)], attempts>>
    BY <2>5 DEF Dies, table
  <2>8. Lifecycle!Lose(j)
    BY <2>3, <2>6, <2>7 DEF Lifecycle!Lose
  <2>9. QED
    BY <2>8
<1>3. QED
  BY <1>1, <1>2

\* Without overrun the queue implements the abstract life of a job: taken by
\* one worker at a time, put back only once its worker is gone, and ended
\* only by the worker that runs it.
THEOREM QueueImplementsLifecycle ==
    ASSUME ~Overrun
    PROVE  Spec => ImplementsLifecycle
<1>1. Init => Lifecycle!Init
  BY DEF Init, Lifecycle!Init, Phase, Runner
<1>2. LeaseInv /\ [Next]_vars => [Lifecycle!Next]_(Lifecycle!lifeVars)
  <2> SUFFICES ASSUME LeaseInv, [Next]_vars
               PROVE  Lifecycle!Next \/ UNCHANGED Lifecycle!lifeVars
    OBVIOUS
  <2>1. ASSUME NEW j \in Jobs, NEW k \in Keys \cup {NoKey}, CreateJob(j, k)
        PROVE  Lifecycle!Next
    BY <2>1, SubmitStep DEF Lifecycle!Next
  <2>2. ASSUME NEW w \in Workers, StartPass(w)
        PROVE  Lifecycle!Next
    <3>1. stale \in SUBSET Jobs
      BY DEF LeaseInv, TypeOK
    <3>2. QED
      BY <2>2, <3>1, PutBackStep DEF Lifecycle!Next
  <2>3. ASSUME NEW w \in Workers, NEW j \in Jobs, ClaimJob(w, j)
        PROVE  Lifecycle!Next
    BY <2>3, TakeStep DEF Lifecycle!Next
  <2>4. ASSUME NEW w \in Workers, CompleteJob(w) \/ FailForGood(w) \/ FailAndRetry(w)
        PROVE  Lifecycle!Next
    <3>1. job[w] \in Jobs
      BY <2>4 DEF CompleteJob, FailForGood, FailAndRetry, LeaseInv, RunsAJob, TypeOK
    <3>2. QED
      BY <2>4, <3>1, ReleaseStep DEF Lifecycle!Next
  <2>5. ASSUME NEW w \in Workers, RetryRefused(w) \/ Crash(w)
        PROVE  Lifecycle!Next \/ UNCHANGED Lifecycle!lifeVars
    BY <2>5, LoseStep DEF RetryRefused, Crash, Lifecycle!Next
  <2>6. CASE UNCHANGED <<status, attempts, lockedBy, job>>
    BY <2>6, InvisibleSteps
  <2>7. ASSUME NEW w \in Workers,
               \/ PassShutdownCheck(w) \/ ExitOnShutdown(w) \/ NothingToClaim(w)
               \/ Restart(w) \/ Signal(w)
        PROVE  UNCHANGED <<status, attempts, lockedBy, job>>
    BY <2>7 DEF PassShutdownCheck, ExitOnShutdown, NothingToClaim, Restart,
                Signal, table
  <2>8. ASSUME NEW j \in Jobs, BackoffElapses(j) \/ LockExpires(j)
        PROVE  UNCHANGED <<status, attempts, lockedBy, job>>
    BY <2>8 DEF BackoffElapses, LockExpires
  <2>9. QED
    BY <2>1, <2>2, <2>3, <2>4, <2>5, <2>6, <2>7, <2>8
       DEF Next, QueueStep, WorkerStep, FailJob, vars
<1>3. QED
  BY <1>1, <1>2, LeaseInvariant, PTL DEF Spec, ImplementsLifecycle, Lifecycle!Spec

-----------------------------------------------------------------------------
(* Refinement: the slots of the job table.  A key's active jobs are at     *)
(* most one by UniqueInv; those without a key are finitely many because    *)
(* the rows are, which is the invariant to add.                            *)

Rows == {j \in Jobs : status[j] # "ABSENT"}

SlotInv == UniqueInv /\ IsFiniteSet(Rows)

LEMMA ActiveCounts ==
    ASSUME SlotInv, NEW k
    PROVE  IsFiniteSet(ActiveOf(k)) /\ Cardinality(ActiveOf(k)) \in Nat
<1>1. ActiveOf(k) \subseteq Rows
  BY DEF ActiveOf, Rows, Active
<1>2. QED
  BY <1>1, FS_Subset, FS_CardinalityType DEF SlotInv

\* What the index checks is that the slot is empty.
LEMMA AdmittedSlotEmpty ==
    ASSUME SlotInv, NEW j \in Jobs, NEW k \in Keys,
           status[j] \notin Active, IndexAdmits(j, k)
    PROVE  Cardinality(ActiveOf(k)) = 0
<1>1. ActiveOf(k) = {}
  BY DEF IndexAdmits, ActiveOf
<1>2. QED
  BY <1>1, FS_EmptySet

LEMMA SlotOpens ==
    ASSUME SlotInv, NEW j \in Jobs, NEW k \in Keys \cup {NoKey}, NEW s \in Active,
           status[j] \notin Active, IndexAdmits(j, k),
           status' = [status EXCEPT ![j] = s],
           key' = [key EXCEPT ![j] = k]
    PROVE  Slots!Open(k)
<1> USE DEF UniqueInv, TypeOK
<1>1. ActiveOf(k)' = ActiveOf(k) \cup {j} /\ j \notin ActiveOf(k)
  BY DEF SlotInv, ActiveOf
<1>2. \A i \in (Keys \cup {NoKey}) \ {k} : ActiveOf(i)' = ActiveOf(i)
  BY DEF SlotInv, ActiveOf
<1>3. Cardinality(ActiveOf(k)') = Cardinality(ActiveOf(k)) + 1
  BY <1>1, ActiveCounts, FS_AddElement
<1>4. k = NoKey \/ Cardinality(ActiveOf(k)) = 0
  BY AdmittedSlotEmpty
<1>5. QED
  BY <1>2, <1>3, <1>4 DEF Slots!Open

LEMMA SlotCloses ==
    ASSUME SlotInv, NEW j \in Jobs, NEW s, s \notin Active, status[j] \in Active,
           status' = [status EXCEPT ![j] = s], key' = key
    PROVE  Slots!Close(key[j])
<1> USE DEF UniqueInv, TypeOK
<1>0. PICK k \in Keys \cup {NoKey} : k = key[j]
  BY DEF SlotInv
<1>1. ActiveOf(k)' = ActiveOf(k) \ {j} /\ j \in ActiveOf(k)
  BY <1>0 DEF SlotInv, ActiveOf
<1>2. \A i \in (Keys \cup {NoKey}) \ {k} : ActiveOf(i)' = ActiveOf(i)
  BY <1>0 DEF SlotInv, ActiveOf
<1>3. Cardinality(ActiveOf(k)') = Cardinality(ActiveOf(k)) - 1
  BY <1>1, ActiveCounts, FS_RemoveElement
<1>4. Cardinality(ActiveOf(k)) > 0
  <2>1. Cardinality(ActiveOf(k)) # 0
    BY <1>1, ActiveCounts, FS_EmptySet
  <2>2. QED
    BY <2>1, ActiveCounts
<1>5. Slots!Close(k)
  BY <1>0, <1>2, <1>3, <1>4 DEF Slots!Close
<1>6. QED
  BY <1>0, <1>5

\* Claiming, recovery and everything that leaves the rows alone.
LEMMA SlotsStay ==
    ASSUME \A j \in Jobs : status'[j] \in Active <=> status[j] \in Active,
           UNCHANGED key
    PROVE  UNCHANGED [k \in Keys \cup {NoKey} |-> Cardinality(ActiveOf(k))]
<1>1. \A k : ActiveOf(k)' = ActiveOf(k)
  BY DEF ActiveOf
<1>2. QED
  BY <1>1

LEMMA ReleaseSlot ==
    ASSUME SlotInv, NEW w \in Workers,
           CompleteJob(w) \/ FailForGood(w) \/ FailAndRetry(w)
    PROVE  \/ \E k \in Keys \cup {NoKey} : Slots!Open(k) \/ Slots!Close(k)
           \/ UNCHANGED [k \in Keys \cup {NoKey} |-> Cardinality(ActiveOf(k))]
<1> USE DEF UniqueInv
<1>1. PICK j \in Jobs, s \in {"SUCCESS", "FAILED", "RETRY"} :
         /\ j = job[w] /\ Release(w, j, s)
         /\ s = "RETRY" => IndexAdmits(j, key[j])
  BY HeldJob DEF SlotInv, CompleteJob, FailForGood, FailAndRetry
<1>2. /\ status' = [status EXCEPT ![j] = s] /\ key' = key
      /\ key[j] \in Keys \cup {NoKey} /\ key' = [key EXCEPT ![j] = key[j]]
      /\ \A i \in Jobs : status'[i] = IF i = j THEN s ELSE status[i]
  BY <1>1 DEF Release, SlotInv, TypeOK
<1>3. CASE status[j] \in Active /\ s = "RETRY"
  <2>1. \A i \in Jobs : status'[i] \in Active <=> status[i] \in Active
    BY <1>2, <1>3 DEF Active
  <2>2. QED
    BY <1>2, <2>1, SlotsStay
<1>4. CASE status[j] \notin Active /\ s = "RETRY"
  <2>1. s \in Active
    BY <1>4 DEF Active
  <2>2. Slots!Open(key[j])
    BY <1>1, <1>2, <1>4, <2>1, SlotOpens
  <2>3. QED
    BY <1>2, <2>2
<1>5. CASE status[j] \in Active /\ s # "RETRY"
  <2>1. s \notin Active
    BY <1>1, <1>5 DEF Active
  <2>2. Slots!Close(key[j])
    BY <1>2, <1>5, <2>1, SlotCloses
  <2>3. QED
    BY <1>2, <2>2
<1>6. CASE status[j] \notin Active /\ s # "RETRY"
  <2>1. \A i \in Jobs : status'[i] \in Active <=> status[i] \in Active
    BY <1>1, <1>2, <1>6 DEF Active
  <2>2. QED
    BY <1>2, <2>1, SlotsStay
<1>7. QED
  BY <1>3, <1>4, <1>5, <1>6

LEMMA RowsStayFinite ==
    ASSUME SlotInv, [Next]_vars
    PROVE  IsFiniteSet(Rows')
<1> USE DEF UniqueInv, TypeOK
<1>1. ASSUME NEW j \in Jobs, \A i \in Jobs \ {j} : status'[i] # "ABSENT" => status[i] # "ABSENT"
      PROVE  IsFiniteSet(Rows')
  <2>1. Rows' \subseteq Rows \cup {j}
    BY <1>1 DEF Rows
  <2>2. IsFiniteSet(Rows \cup {j})
    BY FS_AddElement DEF SlotInv
  <2>3. QED
    BY <2>1, <2>2, FS_Subset
<1>2. ASSUME \A i \in Jobs : status'[i] # "ABSENT" => status[i] # "ABSENT"
      PROVE  IsFiniteSet(Rows')
  <2>1. Rows' \subseteq Rows
    BY <1>2 DEF Rows
  <2>2. QED
    BY <2>1, FS_Subset DEF SlotInv
<1>3. ASSUME NEW j \in Jobs, NEW k \in Keys \cup {NoKey}, CreateJob(j, k)
      PROVE  IsFiniteSet(Rows')
  BY <1>1, <1>3 DEF CreateJob, SlotInv
<1>4. ASSUME NEW w \in Workers, StartPass(w)
      PROVE  IsFiniteSet(Rows')
  BY <1>2, <1>4 DEF StartPass, SlotInv, LockIffRunning
<1>5. ASSUME NEW w \in Workers, NEW j \in Jobs, ClaimJob(w, j)
      PROVE  IsFiniteSet(Rows')
  BY <1>1, <1>5 DEF ClaimJob, SlotInv
<1>6. ASSUME NEW w \in Workers, CompleteJob(w) \/ FailForGood(w) \/ FailAndRetry(w)
      PROVE  IsFiniteSet(Rows')
  <2>1. PICK j \in Jobs, s \in {"SUCCESS", "FAILED", "RETRY"} : status' = [status EXCEPT ![j] = s]
    BY <1>6, HeldJob DEF CompleteJob, FailForGood, FailAndRetry, Release, SlotInv
  <2>2. QED
    BY <1>1, <2>1 DEF SlotInv
<1>7. CASE UNCHANGED status
  BY <1>2, <1>7
<1>8. ASSUME NEW w \in Workers,
             \/ PassShutdownCheck(w) \/ ExitOnShutdown(w) \/ NothingToClaim(w)
             \/ Restart(w) \/ RetryRefused(w) \/ Crash(w) \/ Signal(w)
      PROVE  UNCHANGED status
  BY <1>8 DEF PassShutdownCheck, ExitOnShutdown, NothingToClaim, Restart,
              RetryRefused, Crash, Signal, Dies, table
<1>9. ASSUME NEW j \in Jobs, BackoffElapses(j) \/ LockExpires(j)
      PROVE  UNCHANGED status
  BY <1>9 DEF BackoffElapses, LockExpires
<1>10. QED
  BY <1>3, <1>4, <1>5, <1>6, <1>7, <1>8, <1>9
     DEF Next, QueueStep, WorkerStep, FailJob, vars

\* Whoever creates jobs may rely on the slots, for every set of workers and
\* keys and whatever executions overlap: an entry of the unique indexes has
\* room for one active job, and a late failure puts a job back only there.
THEOREM QueueImplementsSlots == Spec => ImplementsSlots
<1>1. Init => Slots!Init
  <2> SUFFICES ASSUME Init, NEW k \in Keys \cup {NoKey}
               PROVE  Cardinality(ActiveOf(k)) = 0
    BY DEF Slots!Init
  <2>1. ActiveOf(k) = {}
    BY DEF Init, ActiveOf, Active
  <2>2. QED
    BY <2>1, FS_EmptySet
<1>2. Init => IsFiniteSet(Rows)
  <2>1. Init => Rows = {}
    BY DEF Init, Rows
  <2>2. QED
    BY <2>1, FS_EmptySet
<1>3. UniqueInv /\ IsFiniteSet(Rows) /\ [Next]_vars => IsFiniteSet(Rows)'
  BY RowsStayFinite DEF SlotInv
<1>4. UniqueInv /\ IsFiniteSet(Rows) /\ [Next]_vars
         => [Slots!Next]_([k \in Keys \cup {NoKey} |-> Cardinality(ActiveOf(k))])
  <2> SUFFICES ASSUME SlotInv, [Next]_vars
               PROVE  \/ Slots!Next
                      \/ UNCHANGED [k \in Keys \cup {NoKey} |-> Cardinality(ActiveOf(k))]
    BY DEF SlotInv
  <2> USE DEF UniqueInv
  <2>1. ASSUME NEW j \in Jobs, NEW k \in Keys \cup {NoKey}, CreateJob(j, k)
        PROVE  Slots!Next
    <3>1. "PENDING" \in Active /\ status[j] \notin Active
      BY <2>1 DEF CreateJob, Active
    <3>2. Slots!Open(k)
      BY <2>1, <3>1, SlotOpens DEF CreateJob
    <3>3. QED
      BY <3>2 DEF Slots!Next
  <2>2. ASSUME NEW w \in Workers, StartPass(w)
        PROVE  UNCHANGED [k \in Keys \cup {NoKey} |-> Cardinality(ActiveOf(k))]
    <3>1. \A j \in Jobs : status'[j] \in Active <=> status[j] \in Active
      BY <2>2 DEF StartPass, SlotInv, LockIffRunning, TypeOK, Active
    <3>2. QED
      BY <2>2, <3>1, SlotsStay DEF StartPass
  <2>3. ASSUME NEW w \in Workers, NEW j \in Jobs, ClaimJob(w, j)
        PROVE  UNCHANGED [k \in Keys \cup {NoKey} |-> Cardinality(ActiveOf(k))]
    <3>1. \A i \in Jobs : status'[i] \in Active <=> status[i] \in Active
      BY <2>3 DEF ClaimJob, Claimable, SlotInv, TypeOK, Active
    <3>2. QED
      BY <2>3, <3>1, SlotsStay DEF ClaimJob
  <2>4. ASSUME NEW w \in Workers, CompleteJob(w) \/ FailForGood(w) \/ FailAndRetry(w)
        PROVE  \/ Slots!Next
               \/ UNCHANGED [k \in Keys \cup {NoKey} |-> Cardinality(ActiveOf(k))]
    BY <2>4, ReleaseSlot DEF Slots!Next
  <2>5. CASE UNCHANGED <<status, key>>
    BY <2>5, SlotsStay
  <2>6. ASSUME NEW w \in Workers,
               \/ PassShutdownCheck(w) \/ ExitOnShutdown(w) \/ NothingToClaim(w)
               \/ Restart(w) \/ RetryRefused(w) \/ Crash(w) \/ Signal(w)
        PROVE  UNCHANGED <<status, key>>
    BY <2>6 DEF PassShutdownCheck, ExitOnShutdown, NothingToClaim, Restart,
                RetryRefused, Crash, Signal, Dies, table
  <2>7. ASSUME NEW j \in Jobs, BackoffElapses(j) \/ LockExpires(j)
        PROVE  UNCHANGED <<status, key>>
    BY <2>7 DEF BackoffElapses, LockExpires
  <2>8. QED
    BY <2>1, <2>2, <2>3, <2>4, <2>5, <2>6, <2>7
       DEF Next, QueueStep, WorkerStep, FailJob, vars
<1>5. Spec => []UniqueInv
  <2>1. TypeOK /\ RunsAJob /\ OneActiveJobPerKey /\ LockIffRunning <=> UniqueInv
    BY DEF UniqueInv
  <2>2. QED
    BY <2>1, TypeCorrect, ActiveJobsUnique, PTL
<1>6. QED
  BY <1>1, <1>2, <1>3, <1>4, <1>5, PTL DEF Spec, ImplementsSlots, Slots!Spec
=============================================================================
