-------------------------- MODULE Scheduler_proofs --------------------------
(***************************************************************************)
(* TLAPS proofs about the scheduler, for every set of targets, sources,    *)
(* scheduler and worker processes and every limit.                         *)
(***************************************************************************)
EXTENDS Scheduler, Integers, FiniteSetTheorems, TLAPS

\* The row in hand, from the eligibility check to the advanced schedule:
\* there is budget for it while its job is still to be created, and a job
\* that appeared since the check was created, or put back, in this period.
InHand ==
    \A p \in Schedulers :
        /\ pc[p] \in {"insert", "reread"} =>
            /\ row[p] \in Items /\ budget[p] > 0
            /\ row[p] \in active => row[p] \in served \cup reopened
        /\ pc[p] = "advance" => row[p] \in Sources \cap (served \cup reopened)

SchedInv == TypeOK /\ InHand

LEMMA ActiveCount == ASSUME TypeOK PROVE ActiveJobs \in Nat
  <1>1. active \in SUBSET Items /\ IsFiniteSet(Items) /\ apiJobs \in Nat
    BY SchedulerConstantsOK DEF TypeOK, SchedulerConstantsOK
  <1>2. Cardinality(active) \in Nat
    BY <1>1, FS_Subset, FS_CardinalityType
  <1>3. QED
    BY <1>1, <1>2 DEF ActiveJobs

LEMMA DueNowItems == ASSUME TypeOK, NEW p \in Schedulers PROVE DueNow(p) \subseteq Items
  BY DEF TypeOK, DueNow

\* The statements that only move a transaction's bounds keep its domains.
LEMMA TransactionType ==
    ASSUME TypeOK, NEW p \in Schedulers, Reads(p) \/ Closes(p)
    PROVE  /\ open' \in [Schedulers -> BOOLEAN]
           /\ seen' \in [Schedulers -> SUBSET Items]
  <1>1. CASE Reads(p)
    BY <1>1, DueNowItems DEF TypeOK, Reads
  <1>2. CASE Closes(p)
    BY <1>2 DEF TypeOK, Closes
  <1>3. QED
    BY <1>1, <1>2

LEMMA DiesKeeps ==
    ASSUME SchedInv, NEW p \in Schedulers, Dies(p), crashes' \in 0..MaxCrashes
    PROVE  SchedInv'
  <1>1. open' \in [Schedulers -> BOOLEAN] /\ seen' \in [Schedulers -> SUBSET Items]
    BY TransactionType DEF SchedInv, Dies
  <1>2. TypeOK'
    <2>1. pc' \in [Schedulers -> {"sleep", "targets", "sources", "insert",
                                  "reread", "advance", "down"}]
      BY DEF SchedInv, TypeOK, Dies, Goto
    <2>2. todo' \in [Schedulers -> SUBSET Items] /\ row' \in [Schedulers -> Items \cup {NoItem}]
      BY DEF SchedInv, TypeOK, Dies
    <2>3. budget' \in [Schedulers -> 0..MaxPerRun]
      BY SchedulerConstantsOK DEF SchedInv, TypeOK, Dies, SchedulerConstantsOK
    <2>4. QED
      BY <1>1, <2>1, <2>2, <2>3 DEF SchedInv, TypeOK, Dies, tableVars, lateVars
  <1>3. InHand'
    BY DEF SchedInv, TypeOK, InHand, Dies, Goto, tableVars, lateVars
  <1>4. QED
    BY <1>2, <1>3 DEF SchedInv

LEMMA CreatedKeeps ==
    ASSUME SchedInv, NEW p \in Schedulers, pc[p] \in {"insert", "reread"},
           Created(p), Reads(p) \/ Closes(p),
           active' = active \cup {row[p]},
           served \subseteq served', served' \subseteq served \cup {row[p]},
           row[p] \in served' \cup reopened,
           UNCHANGED <<due, periods, apiJobs, apiSent, lateVars, todo, crashes>>
    PROVE  SchedInv'
  <1>1. open' \in [Schedulers -> BOOLEAN] /\ seen' \in [Schedulers -> SUBSET Items]
    BY TransactionType DEF SchedInv
  <1>2. row[p] \in Items /\ budget[p] > 0
    BY DEF SchedInv, InHand
  <1>3. TypeOK'
    <2>1. pc' \in [Schedulers -> {"sleep", "targets", "sources", "insert",
                                  "reread", "advance", "down"}]
      BY DEF SchedInv, TypeOK, Created, Goto
    <2>2. budget' \in [Schedulers -> 0..MaxPerRun]
      BY <1>2, SchedulerConstantsOK DEF SchedInv, TypeOK, Created, SchedulerConstantsOK
    <2>3. row' \in [Schedulers -> Items \cup {NoItem}]
      BY DEF SchedInv, TypeOK, Created
    <2>4. QED
      BY <1>1, <1>2, <2>1, <2>2, <2>3 DEF SchedInv, TypeOK, lateVars
  <1>4. InHand'
    BY <1>2, SchedulerConstantsOK
       DEF SchedInv, TypeOK, InHand, Created, Goto, Items, SchedulerConstantsOK, lateVars
  <1>5. QED
    BY <1>3, <1>4 DEF SchedInv

\* A job that ends leaves at most the workers behind that were not late.
LEMMA LateType ==
    ASSUME TypeOK, NEW i \in Items \cup {Api}, NEW W \in SUBSET Workers, LeavesBehind(i, W)
    PROVE  /\ late' \in [Workers -> Items \cup {Api, NoItem}]
           /\ overruns' \in 0..MaxOverruns
  <1>1. Cardinality(W) \in Nat
    BY SchedulerConstantsOK, FS_Subset, FS_CardinalityType DEF SchedulerConstantsOK
  <1>2. QED
    BY <1>1, SchedulerConstantsOK DEF LeavesBehind, TypeOK, SchedulerConstantsOK

\* Type correctness, and the row in hand: whatever the interleaving of
\* several schedulers' statements, crashes and ending jobs, what a pass of
\* run_once is about to do is still justified.
THEOREM SchedulerTypeCorrect == Spec => [](TypeOK /\ InHand)
<1>1. Init => SchedInv
  BY SchedulerConstantsOK
     DEF Init, SchedInv, TypeOK, InHand, SchedulerConstantsOK
<1>2. SchedInv /\ [Next]_schedVars => SchedInv'
  <2> SUFFICES ASSUME SchedInv, [Next]_schedVars PROVE SchedInv'
    OBVIOUS
  <2> USE SchedulerConstantsOK DEF SchedulerConstantsOK
  <2>1. ASSUME NEW p \in Schedulers, BeginPass(p) PROVE SchedInv'
    <3>1. open' \in [Schedulers -> BOOLEAN] /\ seen' \in [Schedulers -> SUBSET Items]
      BY <2>1, TransactionType DEF SchedInv, BeginPass
    <3>2. CASE ActiveJobs >= MaxActive
      BY <2>1, <3>1, <3>2 DEF BeginPass, SchedInv, TypeOK, InHand, tableVars, lateVars
    <3>3. CASE ~(ActiveJobs >= MaxActive)
      <4>1. Headroom \in 0..MaxPerRun
        BY <3>3, ActiveCount DEF Headroom, Smaller, SchedInv
      <4>2. DueTargets(p) \subseteq Items
        BY DEF DueTargets, Items
      <4>3. TypeOK'
        <5>1. budget' \in [Schedulers -> 0..MaxPerRun]
          BY <2>1, <3>3, <4>1 DEF BeginPass, SchedInv, TypeOK
        <5>2. todo' \in [Schedulers -> SUBSET Items]
          BY <2>1, <3>3, <4>2 DEF BeginPass, SchedInv, TypeOK
        <5>3. pc' \in [Schedulers -> {"sleep", "targets", "sources", "insert",
                                      "reread", "advance", "down"}]
          BY <2>1, <3>3 DEF BeginPass, SchedInv, TypeOK, Goto
        <5>4. QED
          BY <2>1, <3>1, <5>1, <5>2, <5>3 DEF BeginPass, SchedInv, TypeOK, tableVars, lateVars
      <4>4. InHand'
        BY <2>1, <3>3 DEF BeginPass, SchedInv, TypeOK, InHand, Goto, tableVars, lateVars
      <4>5. QED
        BY <4>3, <4>4 DEF SchedInv
    <3>4. QED
      BY <3>2, <3>3
  <2>2. ASSUME NEW p \in Schedulers, NEW i \in Items, ExamineRow(p, i) PROVE SchedInv'
    <3>1. open' \in [Schedulers -> BOOLEAN] /\ seen' \in [Schedulers -> SUBSET Items]
      BY <2>2, TransactionType DEF SchedInv, ExamineRow
    <3>2. TypeOK'
      <4>1. todo' \in [Schedulers -> SUBSET Items]
        BY <2>2 DEF ExamineRow, Reaches, SchedInv, TypeOK
      <4>2. /\ row' \in [Schedulers -> Items \cup {NoItem}]
            /\ pc' \in [Schedulers -> {"sleep", "targets", "sources", "insert",
                                       "reread", "advance", "down"}]
        BY <2>2 DEF ExamineRow, SchedInv, TypeOK, Goto
      <4>3. QED
        BY <2>2, <3>1, <4>1, <4>2 DEF ExamineRow, SchedInv, TypeOK, tableVars, lateVars
    <3>3. budget[p] > 0
      BY <2>2 DEF ExamineRow, Reaches, LoopOver, SchedInv, TypeOK
    <3>4. InHand'
      BY <2>2, <3>3 DEF ExamineRow, Reaches, SchedInv, TypeOK, InHand, Goto, tableVars, lateVars
    <3>5. QED
      BY <3>2, <3>4 DEF SchedInv
  <2>3. ASSUME NEW p \in Schedulers, FetchSources(p) PROVE SchedInv'
    <3>1. open' \in [Schedulers -> BOOLEAN] /\ seen' \in [Schedulers -> SUBSET Items]
      BY <2>3, TransactionType DEF SchedInv, FetchSources
    <3>2. DueSources(p) \subseteq Items
      BY DEF DueSources, Items
    <3>3. QED
      BY <2>3, <3>1, <3>2 DEF FetchSources, SchedInv, TypeOK, InHand, Goto, tableVars, lateVars
  <2>4. ASSUME NEW p \in Schedulers, EndPass(p) \/ Restart(p) PROVE SchedInv'
    BY <2>4 DEF EndPass, Restart, SchedInv, TypeOK, InHand, Goto, tableVars, lateVars
  <2>5. ASSUME NEW p \in Schedulers, InsertJob(p) PROVE SchedInv'
    <3>1. CASE row[p] \notin active
      BY <2>5, <3>1, CreatedKeeps DEF InsertJob
    <3>2. CASE row[p] \in active
      <4>1. open' \in [Schedulers -> BOOLEAN] /\ seen' \in [Schedulers -> SUBSET Items]
        BY <2>5, TransactionType DEF SchedInv, InsertJob
      <4>2. QED
        BY <2>5, <3>2, <4>1 DEF InsertJob, SchedInv, TypeOK, InHand, Goto, lateVars
    <3>3. QED
      BY <3>1, <3>2
  <2>6. ASSUME NEW p \in Schedulers, RereadConflict(p) PROVE SchedInv'
    <3>1. CASE row[p] \in active
      <4>1. row[p] \in served \cup reopened
        BY <2>6, <3>1 DEF RereadConflict, SchedInv, InHand
      <4>2. active' = active \cup {row[p]} /\ served' = served
        BY <2>6, <3>1 DEF RereadConflict, tableVars
      <4>3. QED
        BY <2>6, <3>1, <4>1, <4>2, CreatedKeeps DEF RereadConflict, tableVars
    <3>2. CASE row[p] \notin active
      BY <2>6, <3>2, DiesKeeps DEF RereadConflict, SchedInv, TypeOK
    <3>3. QED
      BY <3>1, <3>2
  <2>7. ASSUME NEW p \in Schedulers, AdvanceSchedule(p) PROVE SchedInv'
    <3>1. open' \in [Schedulers -> BOOLEAN] /\ seen' \in [Schedulers -> SUBSET Items]
      BY <2>7, TransactionType DEF SchedInv, AdvanceSchedule
    <3>2. QED
      BY <2>7, <3>1 DEF AdvanceSchedule, SchedInv, TypeOK, InHand, Goto, lateVars
  <2>8. ASSUME NEW p \in Schedulers, Crash(p) PROVE SchedInv'
    <3>1. crashes' \in 0..MaxCrashes
      BY <2>8 DEF Crash, SchedInv, TypeOK
    <3>2. QED
      BY <2>8, <3>1, DiesKeeps DEF Crash
  <2>9. ASSUME NEW i \in Items, BecomesDue(i) PROVE SchedInv'
    <3>1. TypeOK'
      BY <2>9 DEF BecomesDue, SchedInv, TypeOK, passVars
    <3>2. InHand'
      BY <2>9 DEF BecomesDue, SchedInv, InHand, passVars
    <3>3. QED
      BY <3>1, <3>2 DEF SchedInv
  <2>10. ASSUME NEW i \in Items, JobEnds(i) PROVE SchedInv'
    <3>1. late' \in [Workers -> Items \cup {Api, NoItem}] /\ overruns' \in 0..MaxOverruns
      BY <2>10, LateType DEF JobEnds, SchedInv
    <3>2. QED
      BY <2>10, <3>1 DEF JobEnds, SchedInv, TypeOK, InHand, passVars
  <2>11. CASE ApiJobEnds
    <3>1. late' \in [Workers -> Items \cup {Api, NoItem}] /\ overruns' \in 0..MaxOverruns
      BY <2>11, LateType DEF ApiJobEnds, SchedInv
    <3>2. QED
      BY <2>11, <3>1 DEF ApiJobEnds, SchedInv, TypeOK, InHand, passVars
  <2>12. CASE ApiEnqueue
    BY <2>12 DEF ApiEnqueue, SchedInv, TypeOK, InHand, passVars, lateVars
  <2>13. CASE UNCHANGED schedVars
    BY <2>13 DEF schedVars, lateVars, SchedInv, TypeOK, InHand
  <2>14. ASSUME NEW w \in Workers, LateVerdict(w) PROVE SchedInv'
    <3>1. late' \in [Workers -> Items \cup {Api, NoItem}]
      BY <2>14 DEF LateVerdict, SchedInv, TypeOK
    <3>2. CASE UNCHANGED <<active, apiJobs, reopened>>
      BY <2>14, <3>1, <3>2 DEF LateVerdict, SchedInv, TypeOK, InHand, passVars
    <3>3. CASE PutsBack(late[w])
      BY <2>14, <3>1, <3>3 DEF LateVerdict, PutsBack, SchedInv, TypeOK, InHand, passVars
    <3>4. QED
      BY <2>14, <3>2, <3>3 DEF LateVerdict
  <2>15. QED
    BY <2>1, <2>2, <2>3, <2>4, <2>5, <2>6, <2>7, <2>8, <2>9, <2>10, <2>11, <2>12, <2>13,
       <2>14
       DEF Next, SchedulerStep
<1>3. QED
  BY <1>1, <1>2, PTL DEF Spec, SchedInv

\* "nothing is silently dropped, just deferred", for any number of
\* schedulers and crashes: only AdvanceSchedule takes an item off the due
\* list, and the row it has in hand has its job.
THEOREM NothingDropped == Spec => DeferredNotDropped
<1>1. SchedInv /\ [Next]_schedVars =>
        [\A s \in Sources :
           s \in due /\ s \notin due' => s \in served \cup reopened]_schedVars
  <2> SUFFICES ASSUME SchedInv, Next, NEW s \in Sources, s \in due, s \notin due'
               PROVE  s \in served \cup reopened
    OBVIOUS
  <2>1. PICK p \in Schedulers : AdvanceSchedule(p)
    BY DEF Next, SchedulerStep, BeginPass, ExamineRow, FetchSources, EndPass,
           InsertJob, RereadConflict, Dies, Crash, Restart, BecomesDue, JobEnds,
           ApiJobEnds, ApiEnqueue, LateVerdict, tableVars
  <2>2. s = row[p]
    BY <2>1 DEF AdvanceSchedule
  <2>3. QED
    BY <2>1, <2>2 DEF AdvanceSchedule, SchedInv, InHand
<1>2. QED
  BY <1>1, SchedulerTypeCorrect, PTL DEF Spec, SchedInv, DeferredNotDropped

LEMMA ActiveFinite ==
    ASSUME TypeOK PROVE IsFiniteSet(active) /\ Cardinality(active) \in Nat
  BY SchedulerConstantsOK, FS_Subset, FS_CardinalityType
     DEF TypeOK, SchedulerConstantsOK

-----------------------------------------------------------------------------
(* The cap.  Each scheduler counted the active jobs at a moment of its own,*)
(* so what one may still create says nothing of the others.  The budgets   *)
(* left are counted as a set, one element per job still allowed, and so are*)
(* the ended jobs that a late verdict may yet put back.  Together with the *)
(* active items they fill at most one cap per scheduler, and a place more  *)
(* for each worker or overrun: what becomes active was counted before.     *)

Slots == Schedulers \X (1..MaxActive)
Allowed == {s \in Slots : s[2] <= budget[s[1]]}

Behind == {w \in Workers : late[w] # NoItem}
Owed == {i \in Items \ active : \E w \in Workers : late[w] = i}

CapInv ==
    /\ \A p \in Schedulers : budget[p] <= MaxActive
    /\ Cardinality(Behind) <= overruns
    /\ Cardinality(active) + Cardinality(Allowed) + Cardinality(Owed)
          <= MaxActive * Cardinality(Schedulers)
               + Smaller(Cardinality(Workers), overruns)

LEMMA SlotsCount ==
    /\ IsFiniteSet(Slots) /\ Cardinality(Schedulers) \in Nat
    /\ Cardinality(Slots) = MaxActive * Cardinality(Schedulers)
    /\ Cardinality(Slots) \in Nat
<1>1. IsFiniteSet(1..MaxActive) /\ Cardinality(1..MaxActive) = MaxActive
  BY SchedulerConstantsOK, FS_Interval DEF SchedulerConstantsOK
<1>2. IsFiniteSet(Schedulers) /\ Cardinality(Schedulers) \in Nat
  BY SchedulerConstantsOK, FS_CardinalityType DEF SchedulerConstantsOK
<1>3. IsFiniteSet(Slots) /\ Cardinality(Slots) = Cardinality(Schedulers) * MaxActive
  BY <1>1, <1>2, FS_Product DEF Slots
<1>4. \A m, n \in Nat : m * n = n * m /\ m * n \in Nat
  OBVIOUS
<1>5. QED
  BY <1>2, <1>3, <1>4, SchedulerConstantsOK DEF SchedulerConstantsOK

LEMMA AllowedFinite ==
    /\ IsFiniteSet(Allowed) /\ Cardinality(Allowed) \in Nat
    /\ IsFiniteSet(Allowed') /\ Cardinality(Allowed') \in Nat
<1>1. Allowed \in SUBSET Slots /\ Allowed' \in SUBSET Slots
  BY DEF Allowed, Slots
<1>2. IsFiniteSet(Allowed) /\ IsFiniteSet(Allowed')
  BY <1>1, SlotsCount, FS_Subset
<1>3. QED
  BY <1>2, FS_CardinalityType

\* A step that raises no budget leaves no more to create.
LEMMA AllowedShrinks ==
    ASSUME TypeOK, TypeOK',
           \A q \in Schedulers : budget'[q] <= budget[q]
    PROVE  Cardinality(Allowed') <= Cardinality(Allowed)
<1>1. Allowed' \in SUBSET Allowed
  BY SchedulerConstantsOK DEF Allowed, Slots, TypeOK, SchedulerConstantsOK
<1>2. QED
  BY <1>1, AllowedFinite, FS_Subset

\* One job created: one slot the fewer.
LEMMA AllowedSpent ==
    ASSUME TypeOK, CapInv, NEW p \in Schedulers,
           budget[p] > 0, budget' = [budget EXCEPT ![p] = @ - 1]
    PROVE  Cardinality(Allowed') = Cardinality(Allowed) - 1
<1>1. budget[p] \in 1..MaxActive /\ \A q \in Schedulers : budget[q] \in Nat
  BY SchedulerConstantsOK DEF CapInv, TypeOK, SchedulerConstantsOK
<1>2. <<p, budget[p]>> \in Allowed
  BY <1>1 DEF Allowed, Slots
<1>3. Allowed' = Allowed \ {<<p, budget[p]>>}
  <2>1. ASSUME NEW s \in Slots
        PROVE  s \in Allowed' <=> s \in Allowed /\ s # <<p, budget[p]>>
    <3>1. PICK q \in Schedulers, k \in 1..MaxActive : s = <<q, k>>
      BY DEF Slots
    <3>2. s \in Allowed <=> k <= budget[q]
      BY <3>1 DEF Allowed
    <3>3. s \in Allowed' <=> k <= budget'[q]
      BY <3>1 DEF Allowed, Slots
    <3>4. CASE q = p
      <4>1. budget'[q] = budget[p] - 1
        BY <3>4 DEF TypeOK
      <4>2. k <= budget[p] - 1 <=> k <= budget[p] /\ k # budget[p]
        BY <1>1
      <4>3. QED
        BY <3>1, <3>2, <3>3, <3>4, <4>1, <4>2
    <3>5. CASE q # p
      BY <3>1, <3>2, <3>3, <3>5 DEF TypeOK
    <3>6. QED
      BY <3>4, <3>5
  <2>2. Allowed \subseteq Slots /\ Allowed' \subseteq Slots
    BY DEF Allowed, Slots
  <2>3. QED
    BY <2>1, <2>2
<1>4. QED
  BY <1>2, <1>3, AllowedFinite, FS_RemoveElement

\* A pass that begins replaces what was left of p's slots by the headroom it
\* counted: with the active items, at most one cap.
LEMMA AllowedRenewed ==
    ASSUME TypeOK, CapInv, NEW p \in Schedulers,
           NEW h \in Nat, h + Cardinality(active) <= MaxActive,
           budget' = [budget EXCEPT ![p] = h]
    PROVE  Cardinality(active) + Cardinality(Allowed')
             <= MaxActive * Cardinality(Schedulers)
<1> DEFINE Lane == {p} \X (1..MaxActive)
           Fresh == {p} \X (1..h)
           Others == Slots \ Lane
<1>1. MaxActive \in Nat /\ Cardinality(active) \in Nat
  BY ActiveFinite, SchedulerConstantsOK DEF SchedulerConstantsOK
<1>2. IsFiniteSet({p}) /\ Cardinality({p}) = 1
  BY FS_Singleton
<1>3. /\ IsFiniteSet(1..MaxActive) /\ Cardinality(1..MaxActive) = MaxActive
      /\ IsFiniteSet(1..h) /\ Cardinality(1..h) = h
  <2>1. \A b \in Nat : IsFiniteSet(1..b) /\ Cardinality(1..b) = b
    BY FS_Interval
  <2>2. QED
    BY <1>1, <2>1
<1>4. /\ Cardinality(Lane) = MaxActive
      /\ IsFiniteSet(Fresh) /\ Cardinality(Fresh) = h
  <2>1. ASSUME NEW b \in Nat, IsFiniteSet(1..b), Cardinality(1..b) = b
        PROVE  IsFiniteSet({p} \X (1..b)) /\ Cardinality({p} \X (1..b)) = b
    <3> DEFINE T == 1..b
    <3>1. IsFiniteSet({p} \X T) /\ Cardinality({p} \X T) = Cardinality({p}) * Cardinality(T)
      <4> HIDE DEF T
      <4>1. IsFiniteSet(T)
        BY <2>1 DEF T
      <4>2. QED
        BY <1>2, <4>1, FS_Product
    <3>2. QED
      BY <1>2, <2>1, <3>1
  <2>2. QED
    BY <1>1, <1>3, <2>1
<1>5. IsFiniteSet(Others) /\ Cardinality(Others) = Cardinality(Slots) - MaxActive
  <2>1. Slots \cap Lane = Lane
    BY DEF Slots
  <2>2. QED
    <3> HIDE DEF Lane
    <3>1. Cardinality(Slots \ Lane) = Cardinality(Slots) - Cardinality(Slots \cap Lane)
          /\ IsFiniteSet(Slots \ Lane)
      BY SlotsCount, FS_Difference
    <3>2. QED
      BY <1>4, <2>1, <3>1
<1>6. Allowed' \in SUBSET (Others \cup Fresh)
  <2> SUFFICES ASSUME NEW s \in Allowed' PROVE s \in Others \cup Fresh
    OBVIOUS
  <2>1. PICK q \in Schedulers, k \in 1..MaxActive : s = <<q, k>> /\ k <= budget'[q]
    BY DEF Allowed, Slots
  <2>2. CASE q = p
    BY <2>1, <2>2 DEF TypeOK
  <2>3. CASE q # p
    BY <2>1, <2>3 DEF Slots
  <2>4. QED
    BY <2>2, <2>3
<1>7. Others \cap Fresh = {}
  BY <1>1
<1> HIDE DEF Lane, Fresh, Others
<1>8. IsFiniteSet(Others \cup Fresh)
      /\ Cardinality(Others \cup Fresh) = Cardinality(Slots) - MaxActive + h
  <2>1. Cardinality(Others \cup Fresh)
          = Cardinality(Others) + Cardinality(Fresh) - Cardinality(Others \cap Fresh)
    BY <1>4, <1>5, FS_Union
  <2>2. Cardinality(Others \cap Fresh) = 0
    BY <1>7, FS_EmptySet
  <2>3. IsFiniteSet(Others \cup Fresh)
    BY <1>4, <1>5, FS_Union
  <2>4. QED
    BY <1>1, <1>4, <1>5, <2>1, <2>2, <2>3, SlotsCount
<1>9. Cardinality(Allowed') <= Cardinality(Slots) - MaxActive + h
  BY <1>6, <1>8, FS_Subset
<1>10. QED
  BY <1>1, <1>9, SlotsCount, AllowedFinite

\* The jobs that may yet be put back are held by as many workers.
LEMMA OwedFinite ==
    ASSUME TypeOK
    PROVE  /\ IsFiniteSet(Owed) /\ Cardinality(Owed) \in Nat
           /\ IsFiniteSet(Behind) /\ Cardinality(Behind) \in Nat
           /\ Cardinality(Workers) \in Nat
           /\ Cardinality(Owed) <= Cardinality(Behind)
           /\ Cardinality(Behind) <= Cardinality(Workers)
<1> DEFINE Holders == {w \in Behind : late[w] \in Owed}
           held == [w \in Holders |-> late[w]]
<1>1. IsFiniteSet(Items) /\ IsFiniteSet(Workers) /\ NoItem \notin Items
  BY SchedulerConstantsOK DEF SchedulerConstantsOK
<1>2. Owed \in SUBSET Items /\ Behind \in SUBSET Workers /\ Holders \in SUBSET Behind
  BY DEF Owed, Behind
<1>3. IsFiniteSet(Owed) /\ IsFiniteSet(Behind) /\ Cardinality(Behind) <= Cardinality(Workers)
  BY <1>1, <1>2, FS_Subset
<1>4. IsFiniteSet(Holders) /\ Cardinality(Holders) <= Cardinality(Behind)
  BY <1>2, <1>3, FS_Subset
<1>5. held \in Surjection(Holders, Owed)
  BY <1>1 DEF Surjection, Owed, Behind
<1>6. Cardinality(Owed) <= Cardinality(Holders)
  BY <1>4, <1>5, FS_Surjection
<1>7. /\ Cardinality(Owed) \in Nat /\ Cardinality(Behind) \in Nat
      /\ Cardinality(Workers) \in Nat /\ Cardinality(Holders) \in Nat
  BY <1>1, <1>3, <1>4, FS_CardinalityType
<1>8. QED
  BY <1>3, <1>4, <1>6, <1>7

\* A job that ends adds itself to those that may be put back, if it left
\* workers behind; these were not late before.
LEMMA OwedGrows ==
    ASSUME TypeOK, NEW i \in Items \cup {Api}, NEW W \in SUBSET Workers, LeavesBehind(i, W)
    PROVE  /\ Owed' \subseteq {j \in Items \ active' : j \in Owed \cup active \cup {i}}
           /\ Cardinality(Behind') = Cardinality(Behind) + Cardinality(W)
           /\ Cardinality(W) \in Nat
<1>1. IsFiniteSet(W) /\ Cardinality(W) \in Nat
  BY SchedulerConstantsOK, FS_Subset, FS_CardinalityType DEF SchedulerConstantsOK
<1>2. Behind' = Behind \cup W /\ Behind \cap W = {}
  BY SchedulerConstantsOK DEF Behind, LeavesBehind, SchedulerConstantsOK
<1>3. Cardinality(Behind \cap W) = 0
  BY <1>2, FS_EmptySet
<1>4. Cardinality(Behind') = Cardinality(Behind) + Cardinality(W)
  <2>1. IsFiniteSet(Behind) /\ Cardinality(Behind) \in Nat
    BY OwedFinite
  <2>2. Cardinality(Behind \cup W)
          = Cardinality(Behind) + Cardinality(W) - Cardinality(Behind \cap W)
    BY <1>1, <2>1, FS_Union
  <2>3. QED
    BY <1>1, <1>2, <1>3, <2>1, <2>2
<1>5. Owed' \subseteq {j \in Items \ active' : j \in Owed \cup active \cup {i}}
  BY DEF Owed, LeavesBehind
<1>6. QED
  BY <1>1, <1>4, <1>5

\* MAX_ACTIVE_JOBS.  Passes that count at the same time may each fill the cap,
\* and late failures put back what was not counted, but no more: with N
\* schedulers there are never more than N * MAX_ACTIVE_JOBS active items and a
\* job for each worker or overrun, whatever the interleaving of passes, crashes,
\* late verdicts and jobs of the API.
THEOREM CapHolds == Spec => []CapRespected
<1>1. Init => CapInv
  <2> SUFFICES ASSUME Init PROVE CapInv
    OBVIOUS
  <2>1. Allowed = {} /\ Owed = {} /\ Behind = {} /\ active = {}
    BY SchedulerConstantsOK DEF Init, Allowed, Slots, Owed, Behind, SchedulerConstantsOK
  <2>2. Cardinality(Workers) \in Nat
    BY SchedulerConstantsOK, FS_CardinalityType DEF SchedulerConstantsOK
  <2>3. MaxActive * Cardinality(Schedulers) \in Nat /\ Cardinality({}) = 0
    BY SlotsCount, FS_EmptySet
  <2>4. QED
    BY <2>1, <2>2, <2>3, SchedulerConstantsOK
       DEF Init, CapInv, Smaller, SchedulerConstantsOK
<1>2. SchedInv /\ SchedInv' /\ CapInv /\ [Next]_schedVars => CapInv'
  <2> SUFFICES ASSUME SchedInv, SchedInv', CapInv, [Next]_schedVars
               PROVE  CapInv'
    OBVIOUS
  <2> DEFINE n == Cardinality(active)
             m == Cardinality(Allowed)
             o == Cardinality(Owed)
             b == Cardinality(Behind)
             cap == MaxActive * Cardinality(Schedulers)
             extra == Smaller(Cardinality(Workers), overruns)
  <2>1. /\ TypeOK /\ TypeOK' /\ InHand
        /\ IsFiniteSet(active) /\ IsFiniteSet(Owed) /\ IsFiniteSet(Behind)
        /\ MaxActive \in Nat /\ cap \in Nat /\ extra \in Nat /\ extra' \in Nat
        /\ n \in Nat /\ n' \in Nat /\ m \in Nat /\ m' \in Nat
        /\ o \in Nat /\ o' \in Nat /\ b \in Nat /\ b' \in Nat
        /\ overruns \in Nat /\ overruns' \in Nat
        /\ b <= overruns /\ o <= b /\ o <= extra /\ n + m + o <= cap + extra
        /\ \A q \in Schedulers : budget[q] \in Nat /\ budget'[q] \in Nat
                                 /\ budget[q] <= MaxActive
    <3>1. TypeOK /\ TypeOK' /\ InHand
      BY DEF SchedInv
    <3>2. IsFiniteSet(Items) /\ IsFiniteSet(Workers) /\ Cardinality(Workers) \in Nat
      BY SchedulerConstantsOK, FS_CardinalityType DEF SchedulerConstantsOK
    <3>3. /\ active \in SUBSET Items /\ active' \in SUBSET Items
          /\ Owed' \in SUBSET Items /\ Behind' \in SUBSET Workers
      BY <3>1 DEF TypeOK, Owed, Behind
    <3>4. IsFiniteSet(active) /\ n \in Nat /\ n' \in Nat /\ o' \in Nat /\ b' \in Nat
      BY <3>2, <3>3, FS_Subset, FS_CardinalityType
    <3>5. cap \in Nat /\ m \in Nat /\ m' \in Nat
      BY SlotsCount, AllowedFinite
    <3>6. MaxActive \in Nat /\ overruns \in Nat /\ overruns' \in Nat
      BY <3>1, SchedulerConstantsOK DEF TypeOK, SchedulerConstantsOK
    <3>7. /\ IsFiniteSet(Owed) /\ IsFiniteSet(Behind) /\ o \in Nat /\ b \in Nat
          /\ o <= b /\ b <= Cardinality(Workers)
      BY <3>1, OwedFinite
    <3>8. b <= overruns /\ n + m + o <= cap + extra
      BY DEF CapInv
    <3>9. extra \in Nat /\ extra' \in Nat /\ o <= extra
      BY <3>2, <3>6, <3>7, <3>8 DEF Smaller
    <3>10. \A q \in Schedulers : budget[q] \in Nat /\ budget'[q] \in Nat
                                 /\ budget[q] <= MaxActive
      BY <3>1, SchedulerConstantsOK DEF CapInv, TypeOK, SchedulerConstantsOK
    <3>11. QED
      BY <3>1, <3>4, <3>5, <3>6, <3>7, <3>8, <3>9, <3>10
  <2>2. ASSUME \A q \in Schedulers : budget'[q] <= MaxActive, b' <= overruns',
               n' + m' + o' <= cap + extra'
        PROVE  CapInv'
    BY <2>2 DEF CapInv
  <2>3. ASSUME UNCHANGED <<late, overruns>>, active \subseteq active'
        PROVE  o' <= o /\ b' = b /\ extra' = extra
    <3>1. Owed' \in SUBSET Owed /\ Behind' = Behind
      BY <2>3 DEF Owed, Behind
    <3>2. QED
      BY <2>1, <2>3, <3>1, FS_Subset DEF o, b, extra
  <2>4. ASSUME n' + o' <= n + o, b' <= overruns', extra <= extra',
               \A q \in Schedulers : budget'[q] <= budget[q]
        PROVE  CapInv'
    <3>1. m' <= m
      BY <2>1, <2>4, AllowedShrinks DEF m
    <3>2. n' + m' + o' <= cap + extra'
      BY <2>1, <2>4, <3>1
    <3>3. \A q \in Schedulers : budget'[q] <= MaxActive
      BY <2>1, <2>4
    <3>4. QED
      BY <2>2, <2>4, <3>2, <3>3
  <2>5. ASSUME UNCHANGED <<late, overruns, active>>,
               \A q \in Schedulers : budget'[q] <= budget[q]
        PROVE  CapInv'
    <3>1. o' <= o /\ b' = b /\ extra' = extra /\ overruns' = overruns /\ n' = n
      BY <2>3, <2>5 DEF n
    <3>2. QED
      BY <2>1, <2>4, <2>5, <3>1
  <2>6. ASSUME NEW p \in Schedulers, Created(p), n' <= n + 1, active \subseteq active',
               UNCHANGED <<late, overruns>>, pc[p] \in {"insert", "reread"}
        PROVE  CapInv'
    <3>1. budget[p] > 0 /\ budget' = [budget EXCEPT ![p] = @ - 1]
      BY <2>1, <2>6 DEF InHand, Created
    <3>2. m' = m - 1
      BY <2>1, <3>1, AllowedSpent DEF m
    <3>3. o' <= o /\ b' = b /\ extra' = extra /\ overruns' = overruns
      BY <2>3, <2>6
    <3>4. n' + m' + o' <= cap + extra'
      BY <2>1, <2>6, <3>2, <3>3
    <3>5. \A q \in Schedulers : budget'[q] <= MaxActive
      BY <2>1, <3>1 DEF TypeOK
    <3>6. QED
      BY <2>1, <2>2, <3>3, <3>4, <3>5
  <2>7. ASSUME NEW p \in Schedulers, BeginPass(p) PROVE CapInv'
    <3>1. UNCHANGED <<late, overruns, active>>
      BY <2>7 DEF BeginPass, tableVars, lateVars
    <3>2. CASE ActiveJobs >= MaxActive
      BY <2>1, <2>5, <2>7, <3>1, <3>2 DEF BeginPass
    <3>3. CASE ~(ActiveJobs >= MaxActive)
      <4>1. Headroom \in Nat /\ Headroom + n <= MaxActive
        BY <2>1, <3>3, SchedulerConstantsOK
           DEF Headroom, Smaller, ActiveJobs, TypeOK, SchedulerConstantsOK, n
      <4>2. budget' = [budget EXCEPT ![p] = Headroom]
        BY <2>7, <3>3 DEF BeginPass
      <4>3. n + m' <= cap
        BY <2>1, <4>1, <4>2, AllowedRenewed DEF n, m, cap
      <4>4. n' = n /\ o' <= o /\ b' = b /\ extra' = extra /\ overruns' = overruns
        BY <2>3, <3>1 DEF n
      <4>5. n' + m' + o' <= cap + extra'
        BY <2>1, <4>3, <4>4
      <4>6. \A q \in Schedulers : budget'[q] <= MaxActive
        BY <2>1, <4>1, <4>2 DEF TypeOK
      <4>7. QED
        BY <2>1, <2>2, <4>4, <4>5, <4>6
    <3>4. QED
      BY <3>2, <3>3
  <2>8. ASSUME NEW p \in Schedulers, InsertJob(p) PROVE CapInv'
    <3>1. UNCHANGED <<late, overruns>>
      BY <2>8 DEF InsertJob, lateVars
    <3>2. CASE row[p] \notin active
      <4>1. n' = n + 1 /\ active \subseteq active'
        BY <2>1, <2>8, <3>2, FS_AddElement DEF InsertJob, n
      <4>2. QED
        BY <2>1, <2>6, <2>8, <3>1, <3>2, <4>1 DEF InsertJob
    <3>3. CASE row[p] \in active
      BY <2>1, <2>5, <2>8, <3>1, <3>3 DEF InsertJob
    <3>4. QED
      BY <3>2, <3>3
  <2>9. ASSUME NEW p \in Schedulers, RereadConflict(p) PROVE CapInv'
    <3>1. UNCHANGED <<late, overruns, active>>
      BY <2>9 DEF RereadConflict, Dies, tableVars, lateVars
    <3>2. CASE row[p] \in active
      <4>1. n' = n
        BY <3>1 DEF n
      <4>2. QED
        BY <2>1, <2>6, <2>9, <3>1, <3>2, <4>1 DEF RereadConflict
    <3>3. CASE row[p] \notin active
      <4>1. budget' = [budget EXCEPT ![p] = 0]
        BY <2>9, <3>3 DEF RereadConflict, Dies
      <4>2. QED
        BY <2>1, <2>5, <3>1, <4>1 DEF TypeOK
    <3>4. QED
      BY <3>2, <3>3
  <2>10. ASSUME NEW p \in Schedulers, Crash(p) \/ EndPass(p) PROVE CapInv'
    <3>1. /\ UNCHANGED <<late, overruns, active>>
          /\ budget' = [budget EXCEPT ![p] = 0]
      BY <2>10 DEF Crash, Dies, EndPass, tableVars, lateVars
    <3>2. QED
      BY <2>1, <2>5, <3>1 DEF TypeOK
  <2>11. ASSUME NEW i \in Items \cup {Api}, NEW W \in SUBSET Workers, LeavesBehind(i, W)
         PROVE  b' <= overruns' /\ extra <= extra'
    <3>1. b' = b + Cardinality(W) /\ Cardinality(W) \in Nat
      BY <2>1, <2>11, OwedGrows DEF b
    <3>2. overruns' = overruns + Cardinality(W)
      BY <2>11 DEF LeavesBehind
    <3>3. b' <= overruns'
      BY <2>1, <3>1, <3>2
    <3>4. extra <= extra'
      BY <2>1, <3>1, <3>2, OwedFinite DEF extra, Smaller
    <3>5. QED
      BY <3>3, <3>4
  <2>12. ASSUME NEW i \in Items, JobEnds(i) PROVE CapInv'
    <3>1. PICK W \in SUBSET Workers : LeavesBehind(i, W)
      BY <2>12 DEF JobEnds
    <3>2. n' = n - 1 /\ budget' = budget
      BY <2>1, <2>12, FS_RemoveElement DEF JobEnds, passVars, n
    <3>3. o' <= o + 1
      <4>1. Owed' \in SUBSET (Owed \cup {i})
        BY <2>1, <2>12, <3>1, OwedGrows DEF JobEnds
      <4>2. IsFiniteSet(Owed \cup {i})
            /\ Cardinality(Owed \cup {i}) = IF i \in Owed THEN o ELSE o + 1
        BY <2>1, FS_AddElement DEF o
      <4>3. o' <= Cardinality(Owed \cup {i})
        BY <4>1, <4>2, FS_Subset DEF o
      <4>4. QED
        BY <2>1, <4>2, <4>3
    <3>4. b' <= overruns' /\ extra <= extra'
      BY <2>11, <3>1
    <3>5. QED
      BY <2>1, <2>4, <3>2, <3>3, <3>4
  <2>13. CASE ApiJobEnds
    <3>1. PICK W \in SUBSET Workers : LeavesBehind(Api, W)
      BY <2>13 DEF ApiJobEnds
    <3>2. n' = n /\ active' = active /\ budget' = budget
      BY <2>13 DEF ApiJobEnds, passVars, n
    <3>3. Owed' \in SUBSET Owed
      BY <2>1, <3>1, <3>2, OwedGrows, SchedulerConstantsOK DEF SchedulerConstantsOK
    <3>4. o' <= o
      BY <2>1, <3>3, FS_Subset DEF o
    <3>5. b' <= overruns' /\ extra <= extra'
      BY <2>11, <3>1
    <3>6. QED
      BY <2>1, <2>4, <3>2, <3>4, <3>5
  <2>14. ASSUME NEW w \in Workers, LateVerdict(w) PROVE CapInv'
    <3>1. budget' = budget /\ overruns' = overruns /\ extra' = extra
      BY <2>14 DEF LateVerdict, passVars, extra
    <3>2. Behind' \in SUBSET Behind
      BY <2>1, <2>14 DEF LateVerdict, Behind, TypeOK
    <3>3. b' <= b
      BY <2>1, <3>2, FS_Subset DEF b
    <3>4. n' + o' <= n + o
      <4>1. CASE UNCHANGED active
        <5>1. Owed' \in SUBSET Owed
          BY <2>1, <2>14, <4>1, SchedulerConstantsOK
             DEF LateVerdict, Owed, TypeOK, SchedulerConstantsOK
        <5>2. o' <= o /\ n' = n
          BY <2>1, <4>1, <5>1, FS_Subset DEF o, n
        <5>3. QED
          BY <2>1, <5>2
      <4>2. ASSUME NEW i \in Items \ active, i = late[w], active' = active \cup {i}
            PROVE  n' + o' <= n + o
        <5>1. i \in Owed
          BY <4>2 DEF Owed
        <5>2. Owed' \in SUBSET (Owed \ {i})
          BY <2>1, <2>14, <4>2, SchedulerConstantsOK
             DEF LateVerdict, Owed, TypeOK, SchedulerConstantsOK
        <5>3. IsFiniteSet(Owed \ {i}) /\ Cardinality(Owed \ {i}) = o - 1
          BY <2>1, <5>1, FS_RemoveElement DEF o
        <5>4. o' <= o - 1
          BY <5>2, <5>3, FS_Subset DEF o
        <5>5. n' = n + 1
          BY <2>1, <4>2, FS_AddElement DEF n
        <5>6. QED
          BY <2>1, <5>4, <5>5
      <4>3. QED
        BY <2>14, <4>1, <4>2 DEF LateVerdict, PutsBack
    <3>5. QED
      BY <2>1, <2>4, <3>1, <3>3, <3>4
  <2>15. CASE UNCHANGED <<late, overruns, active, budget>>
    BY <2>1, <2>5, <2>15
  <2>16. QED
    BY <2>7, <2>8, <2>9, <2>10, <2>12, <2>13, <2>14, <2>15
       DEF Next, SchedulerStep, ExamineRow, FetchSources, AdvanceSchedule, Restart,
           BecomesDue, ApiEnqueue, tableVars, lateVars, passVars, schedVars
<1>3. SchedInv /\ CapInv => CapRespected
  <2> SUFFICES ASSUME SchedInv, CapInv PROVE CapRespected
    OBVIOUS
  <2>1. TypeOK
    BY DEF SchedInv
  <2>2. /\ Cardinality(active) \in Nat /\ Cardinality(Allowed) \in Nat
        /\ Cardinality(Owed) \in Nat
    BY <2>1, ActiveFinite, AllowedFinite, OwedFinite
  <2>3. /\ MaxActive * Cardinality(Schedulers) \in Nat
        /\ Smaller(Cardinality(Workers), overruns) \in Nat
    BY <2>1, SlotsCount, OwedFinite, SchedulerConstantsOK
       DEF Smaller, TypeOK, SchedulerConstantsOK
  <2>4. QED
    BY <2>2, <2>3 DEF CapInv, CapRespected
<1>4. QED
  <2>1. SchedInv <=> TypeOK /\ InHand
    BY DEF SchedInv
  <2>2. QED
    BY <1>1, <1>2, <1>3, <2>1, SchedulerTypeCorrect, PTL DEF Spec

-----------------------------------------------------------------------------
(* One scheduler.  Only it takes items off the due list, and it does so at *)
(* a commit: what its open transaction saw as due, what it fetched and the *)
(* row it holds are due still, though perhaps no longer the whole list.    *)

PictureIsDue ==
    \A p \in Schedulers :
        /\ seen[p] \subseteq due /\ todo[p] \subseteq due
        /\ pc[p] \in {"insert", "reread"} => row[p] \in due
        /\ pc[p] \in {"insert", "reread", "advance"} => row[p] \notin todo[p]

\* A source that is due and for which a job was created already is the one in
\* hand, its schedule about to be advanced; none that was fetched is, nor the
\* one whose INSERT is under way or met a job that was put back.
ServedIsInHand ==
    \A p \in Schedulers :
        /\ \A i \in todo[p] \cap Sources : i \notin served
        /\ pc[p] \in {"insert", "reread"} /\ row[p] \in Sources => row[p] \notin served
        /\ \A i \in Sources \cap served \cap due : pc[p] = "advance" /\ row[p] = i

OnceInv == PictureIsDue /\ (crashes = 0 => ServedIsInHand)

\* What appears while late stays as it is was created by the INSERT.
LEMMA OnlyInsertCreates ==
    ASSUME NEW s, Schedulers = {s}, TypeOK, Next, NEW i \in Items, JobCreated(i)
    PROVE  InsertJob(s)
<1>1. i \in active' \ active /\ late' = late
  BY DEF JobCreated
<1>2. \A w \in Workers : ~LateVerdict(w)
  BY <1>1 DEF LateVerdict, TypeOK
<1>3. QED
  BY <1>1, <1>2 DEF Next, SchedulerStep, BeginPass, ExamineRow, FetchSources, EndPass,
           RereadConflict, AdvanceSchedule, Restart, Crash, Dies, BecomesDue, JobEnds,
           ApiEnqueue, ApiJobEnds, tableVars, passVars

LEMMA PictureStaysDue ==
    ASSUME NEW s, Schedulers = {s}, SchedInv, PictureIsDue, [Next]_schedVars
    PROVE  PictureIsDue'
<1> USE DEF PictureIsDue
<1>1. TypeOK /\ DueNow(s) \subseteq due /\ seen[s] \subseteq due /\ todo[s] \subseteq due
  BY DEF SchedInv, DueNow
<1>2. CASE BeginPass(s)
  <2>1. CASE ActiveJobs >= MaxActive
    BY <1>1, <1>2, <2>1 DEF BeginPass, Reads, tableVars, TypeOK
  <2>2. CASE ~(ActiveJobs >= MaxActive)
    <3>1. DueTargets(s) \subseteq due
      BY <1>1 DEF DueTargets
    <3>2. QED
      BY <1>1, <1>2, <2>2, <3>1 DEF BeginPass, Reads, Goto, tableVars, TypeOK
  <2>3. QED
    BY <2>1, <2>2
<1>3. ASSUME NEW i \in Items, ExamineRow(s, i) PROVE PictureIsDue'
  BY <1>1, <1>3 DEF ExamineRow, Reaches, Reads, Goto, tableVars, TypeOK
<1>4. CASE FetchSources(s)
  BY <1>1, <1>4 DEF FetchSources, DueSources, Reads, Goto, tableVars, TypeOK
<1>5. CASE EndPass(s) \/ Restart(s)
  BY <1>1, <1>5 DEF EndPass, Restart, Goto, tableVars, TypeOK
<1>6. CASE InsertJob(s)
  BY <1>1, <1>6 DEF InsertJob, Created, Closes, Goto, TypeOK
<1>7. CASE RereadConflict(s)
  BY <1>1, <1>7 DEF RereadConflict, Created, Dies, Reads, Closes, Goto, tableVars, TypeOK
<1>8. CASE AdvanceSchedule(s)
  BY <1>1, <1>8 DEF AdvanceSchedule, Closes, Goto, TypeOK, SchedInv, InHand
<1>9. CASE Crash(s)
  BY <1>1, <1>9 DEF Crash, Dies, Closes, Goto, tableVars, TypeOK
<1>10. ASSUME NEW i \in Items, BecomesDue(i) \/ JobEnds(i) PROVE PictureIsDue'
  BY <1>1, <1>10 DEF BecomesDue, JobEnds, passVars
<1>11. CASE ApiEnqueue \/ ApiJobEnds \/ UNCHANGED schedVars
  BY <1>11 DEF ApiEnqueue, ApiJobEnds, passVars, schedVars
<1>12. ASSUME NEW w \in Workers, LateVerdict(w) PROVE PictureIsDue'
  BY <1>12 DEF LateVerdict, passVars
<1>13. QED
  BY <1>2, <1>3, <1>4, <1>5, <1>6, <1>7, <1>8, <1>9, <1>10, <1>11, <1>12
     DEF Next, SchedulerStep

\* A pass of one scheduler works on a consistent picture: however long its
\* transaction has been open, and whatever crashes and other creators of jobs
\* do meanwhile, it creates a job only for what is due.
THEOREM OnlyDueQueued ==
    ASSUME NEW s, Schedulers = {s}
    PROVE  Spec => OnlyDueItemsQueued
<1>1. Init => PictureIsDue
  BY DEF Init, PictureIsDue
<1>2. SchedInv /\ PictureIsDue /\ [Next]_schedVars => PictureIsDue'
  BY PictureStaysDue
<1>3. SchedInv /\ PictureIsDue /\ [Next]_schedVars =>
        [\A i \in Items : JobCreated(i) => i \in due]_schedVars
  <2> SUFFICES ASSUME SchedInv, PictureIsDue, Next, NEW i \in Items, JobCreated(i)
               PROVE  i \in due
    OBVIOUS
  <2>1. InsertJob(s)
    BY OnlyInsertCreates DEF SchedInv
  <2>2. QED
    BY <2>1 DEF JobCreated, InsertJob, PictureIsDue
<1>4. QED
  <2>1. SchedInv <=> TypeOK /\ InHand
    BY DEF SchedInv
  <2>2. QED
    BY <1>1, <1>2, <1>3, <2>1, SchedulerTypeCorrect, PTL DEF Spec, OnlyDueItemsQueued

LEMMA ServedStaysInHand ==
    ASSUME NEW s, Schedulers = {s}, SchedInv, PictureIsDue, ServedIsInHand,
           [Next]_schedVars, ~Crash(s)
    PROVE  ServedIsInHand'
<1> USE DEF ServedIsInHand, PictureIsDue
<1>1. TypeOK /\ Targets \cap Sources = {} /\ NoItem \notin Items
  BY SchedulerConstantsOK DEF SchedInv, SchedulerConstantsOK
<1>2. CASE BeginPass(s)
  <2>1. CASE ActiveJobs >= MaxActive
    BY <1>1, <1>2, <2>1 DEF BeginPass, tableVars, TypeOK
  <2>2. CASE ~(ActiveJobs >= MaxActive)
    <3>1. DueTargets(s) \subseteq Targets
      BY DEF DueTargets
    <3>2. QED
      BY <1>1, <1>2, <2>2, <3>1 DEF BeginPass, Goto, tableVars, TypeOK
  <2>3. QED
    BY <2>1, <2>2
<1>3. ASSUME NEW i \in Items, ExamineRow(s, i) PROVE ServedIsInHand'
  BY <1>1, <1>3 DEF ExamineRow, Reaches, Goto, tableVars, TypeOK
<1>4. CASE FetchSources(s)
  <2>1. todo'[s] \subseteq due \cap Sources
    BY <1>1, <1>4 DEF FetchSources, DueSources, DueNow, TypeOK
  <2>2. QED
    BY <1>1, <1>4, <2>1 DEF FetchSources, Goto, tableVars, TypeOK
<1>5. CASE EndPass(s) \/ Restart(s)
  BY <1>1, <1>5 DEF EndPass, Restart, Goto, tableVars, TypeOK
<1>6. CASE InsertJob(s)
  BY <1>1, <1>6 DEF InsertJob, Created, Goto, TypeOK, SchedInv, InHand
<1>7. CASE RereadConflict(s)
  BY <1>1, <1>7 DEF RereadConflict, Created, Dies, Goto, tableVars, TypeOK
<1>8. CASE AdvanceSchedule(s)
  BY <1>1, <1>8 DEF AdvanceSchedule, Goto, TypeOK
<1>9. ASSUME NEW i \in Items, BecomesDue(i) \/ JobEnds(i) PROVE ServedIsInHand'
  BY <1>1, <1>9 DEF BecomesDue, JobEnds, passVars
<1>10. ASSUME NEW w \in Workers, LateVerdict(w) PROVE ServedIsInHand'
  BY <1>10 DEF LateVerdict, passVars
<1>11. CASE ApiEnqueue \/ ApiJobEnds \/ UNCHANGED schedVars
  BY <1>11 DEF ApiEnqueue, ApiJobEnds, passVars, schedVars
<1>12. QED
  BY <1>2, <1>3, <1>4, <1>5, <1>6, <1>7, <1>8, <1>9, <1>10, <1>11 DEF Next, SchedulerStep

\* The count of crashes only grows.
LEMMA NoCrashYet ==
    ASSUME NEW s, Schedulers = {s}, TypeOK, [Next]_schedVars, crashes' = 0
    PROVE  crashes = 0 /\ ~Crash(s)
<1>1. ~Crash(s)
  BY DEF Crash, TypeOK
<1>2. QED
  BY <1>1 DEF Next, SchedulerStep, BeginPass, ExamineRow, FetchSources, EndPass, InsertJob,
              RereadConflict, AdvanceSchedule, Restart, BecomesDue, JobEnds, ApiEnqueue,
              ApiJobEnds, LateVerdict, schedVars

\* Until it crashes one scheduler discovers a source once per period, although
\* create_job and advance_source_schedule are transactions of their own, and
\* late failures put jobs back in between.
THEOREM DiscoveredOncePerPeriod ==
    ASSUME NEW p, Schedulers = {p}
    PROVE  Spec => OneDiscoveryPerPeriod
<1>1. Init => OnceInv
  BY DEF Init, OnceInv, PictureIsDue, ServedIsInHand
<1>2. SchedInv /\ OnceInv /\ [Next]_schedVars => OnceInv'
  BY PictureStaysDue, ServedStaysInHand, NoCrashYet DEF OnceInv, SchedInv
<1>3. SchedInv /\ OnceInv /\ [Next]_schedVars =>
        [crashes = 0 => \A s \in Sources : JobCreated(s) => s \notin served]_schedVars
  <2> SUFFICES ASSUME SchedInv, OnceInv, Next, crashes = 0, NEW s \in Sources, JobCreated(s)
               PROVE  s \notin served
    OBVIOUS
  <2>1. InsertJob(p)
    BY OnlyInsertCreates DEF SchedInv, Items
  <2>2. QED
    BY <2>1 DEF JobCreated, InsertJob, OnceInv, ServedIsInHand
<1>4. QED
  <2>1. SchedInv <=> TypeOK /\ InHand
    BY DEF SchedInv
  <2>2. QED
    BY <1>1, <1>2, <1>3, <2>1, SchedulerTypeCorrect, PTL DEF Spec, OneDiscoveryPerPeriod

-----------------------------------------------------------------------------
(* The job table the scheduler counts on.                                  *)

LEMMA SeenChanges ==
    ASSUME TypeOK, NEW i \in Items
    PROVE  /\ i \notin active /\ active' = active \cup {i} /\ apiJobs' = apiJobs => Table!Open(i)
           /\ i \in active /\ active' = active \ {i} /\ apiJobs' = apiJobs => Table!Close(i)
<1>0. Api \notin Items /\ active \subseteq Items
  BY SchedulerConstantsOK DEF SchedulerConstantsOK, TypeOK
<1>1. ASSUME i \notin active, active' = active \cup {i}, apiJobs' = apiJobs
      PROVE  Table!Open(i)
  <2>1. JobsSeen[i] = 0
    BY <1>0, <1>1 DEF JobsSeen
  <2>2. \A x \in Items \cup {Api} : JobsSeen[x]' = IF x = i THEN 1 ELSE JobsSeen[x]
    BY <1>0, <1>1 DEF JobsSeen
  <2>3. JobsSeen' = [JobsSeen EXCEPT ![i] = 1]
    BY <2>2 DEF JobsSeen
  <2>4. JobsSeen[i] + 1 = 1
    BY <2>1
  <2>5. QED
    BY <2>1, <2>3, <2>4 DEF Table!Open
<1>2. ASSUME i \in active, active' = active \ {i}, apiJobs' = apiJobs
      PROVE  Table!Close(i)
  <2>1. JobsSeen[i] = 1
    BY <1>0, <1>2 DEF JobsSeen
  <2>2. \A x \in Items \cup {Api} : JobsSeen[x]' = IF x = i THEN 0 ELSE JobsSeen[x]
    BY <1>0, <1>2 DEF JobsSeen
  <2>3. JobsSeen' = [JobsSeen EXCEPT ![i] = 0]
    BY <2>2 DEF JobsSeen
  <2>4. JobsSeen[i] - 1 = 0
    BY <2>1
  <2>5. QED
    BY <2>1, <2>3, <2>4 DEF Table!Close
<1>3. QED
  BY <1>1, <1>2

LEMMA ApiSeenChanges ==
    ASSUME TypeOK, active' = active
    PROVE  /\ apiJobs' = apiJobs + 1 => Table!Open(Api)
           /\ apiJobs > 0 /\ apiJobs' = apiJobs - 1 => Table!Close(Api)
<1>1. JobsSeen[Api] = apiJobs
  BY DEF JobsSeen
<1>2. JobsSeen' = [JobsSeen EXCEPT ![Api] = apiJobs']
  BY DEF JobsSeen
<1>3. QED
  BY <1>1, <1>2 DEF Table!Open, Table!Close

\* Whatever the schedulers, the API and the workers do to the job table here,
\* the slots that the queue implements allow: one job of an item at a time.
THEOREM SchedulerKeepsToSlots == Spec => Table!Spec
<1>1. Init => Table!Init
  BY SchedulerConstantsOK DEF Init, Table!Init, JobsSeen, SchedulerConstantsOK
<1>2. SchedInv /\ [Next]_schedVars => [Table!Next]_JobsSeen
  <2> SUFFICES ASSUME SchedInv, [Next]_schedVars
               PROVE  Table!Next \/ UNCHANGED JobsSeen
    OBVIOUS
  <2>1. CASE UNCHANGED <<active, apiJobs>>
    BY <2>1 DEF JobsSeen
  <2>2. ASSUME NEW p \in Schedulers, InsertJob(p)
        PROVE  Table!Next \/ UNCHANGED JobsSeen
    <3>1. CASE row[p] \notin active
      <4>1. PICK i \in Items : i = row[p]
        BY <2>2 DEF SchedInv, InHand, InsertJob
      <4>2. Table!Open(i)
        BY <2>2, <3>1, <4>1, SeenChanges DEF SchedInv, InsertJob
      <4>3. QED
        BY <4>2 DEF Table!Next
    <3>2. CASE row[p] \in active
      <4>1. UNCHANGED <<active, apiJobs>>
        BY <2>2, <3>2 DEF InsertJob
      <4>2. QED
        BY <4>1, <2>1
    <3>3. QED
      BY <3>1, <3>2
  <2>3. ASSUME NEW i \in Items, JobEnds(i)
        PROVE  Table!Next
    <3>1. Table!Close(i)
      BY <2>3, SeenChanges DEF SchedInv, JobEnds
    <3>2. QED
      BY <3>1 DEF Table!Next
  <2>4. CASE ApiEnqueue \/ ApiJobEnds
    <3>1. Table!Open(Api) \/ Table!Close(Api)
      BY <2>4, ApiSeenChanges DEF SchedInv, ApiEnqueue, ApiJobEnds
    <3>2. QED
      BY <3>1 DEF Table!Next
  <2>5. ASSUME NEW p \in Schedulers,
               \/ BeginPass(p) \/ (\E i \in Items : ExamineRow(p, i)) \/ FetchSources(p)
               \/ EndPass(p) \/ AdvanceSchedule(p) \/ Restart(p) \/ Crash(p)
        PROVE  UNCHANGED <<active, apiJobs>>
    BY <2>5 DEF BeginPass, ExamineRow, FetchSources, EndPass, AdvanceSchedule,
                Restart, Crash, Dies, tableVars
  <2>6. ASSUME NEW p \in Schedulers, RereadConflict(p)
        PROVE  UNCHANGED <<active, apiJobs>>
    BY <2>6 DEF RereadConflict, Dies, tableVars
  <2>7. ASSUME NEW i \in Items, BecomesDue(i)
        PROVE  UNCHANGED <<active, apiJobs>>
    BY <2>7 DEF BecomesDue
  <2>8. CASE UNCHANGED schedVars
    BY <2>1, <2>8 DEF schedVars
  <2>9. ASSUME NEW w \in Workers, LateVerdict(w)
        PROVE  Table!Next \/ UNCHANGED JobsSeen
    <3>1. CASE UNCHANGED <<active, apiJobs>>
      BY <2>1, <3>1
    <3>2. ASSUME NEW i \in Items \ active, active' = active \cup {i}, apiJobs' = apiJobs
          PROVE  Table!Next
      <4>1. Table!Open(i)
        BY <3>2, SeenChanges DEF SchedInv
      <4>2. QED
        BY <4>1 DEF Table!Next
    <3>3. CASE active' = active /\ apiJobs' = apiJobs + 1
      <4>1. Table!Open(Api)
        BY <3>3, ApiSeenChanges DEF SchedInv
      <4>2. QED
        BY <4>1 DEF Table!Next
    <3>4. QED
      BY <2>9, <3>1, <3>2, <3>3 DEF LateVerdict, PutsBack
  <2>10. QED
    BY <2>1, <2>2, <2>3, <2>4, <2>5, <2>6, <2>7, <2>8, <2>9 DEF Next, SchedulerStep
<1>3. SchedInv <=> TypeOK /\ InHand
  BY DEF SchedInv
<1>4. QED
  BY <1>1, <1>2, <1>3, SchedulerTypeCorrect, PTL DEF Spec, Table!Spec
=============================================================================
