-------------------------- MODULE DeviceSync_proofs --------------------------
(***************************************************************************)
(* TLAPS proofs about the export and the device, for every set of numbers, *)
(* reporters and tasks and every threshold.                                *)
(***************************************************************************)
EXTENDS DeviceSync, FiniteSetTheorems, TLAPS

-----------------------------------------------------------------------------
(* One response.                                                           *)

\* What the queries of an export return, by type.
LEMMA FlagsType ==
    ASSUME NEW flags \in SpamFlags
    PROVE  /\ Labelled(flags) \in LabelSets
           /\ Blockable(flags) \in SUBSET Callable
  <1> DEFINE S == Identified \cup (DOMAIN flags \cap Callable)
  <1>1. S \in SUBSET Callable
    BY CallDirectoryConstantsOK DEF CallDirectoryConstantsOK
  <1>2. Labelled(flags) \in [S -> {"name", "warned name", "scam", "spam"}]
    BY DEF Labelled, LabelOf, SpamLabel
  <1>3. Blockable(flags) \in SUBSET Callable
    BY DEF Blockable
  <1>4. QED
    BY <1>1, <1>2, <1>3 DEF LabelSets

\* Suppressed numbers are taken out of a set of labels.
LEMMA HiddenType ==
    ASSUME NEW f \in LabelSets, NEW H
    PROVE  [p \in DOMAIN f \ H |-> f[p]] \in LabelSets
  <1>1. PICK S \in SUBSET Callable : f \in [S -> {"name", "warned name", "scam", "spam"}]
    BY DEF LabelSets
  <1>2. DOMAIN f \ H \in SUBSET Callable
    BY <1>1
  <1>3. [p \in DOMAIN f \ H |-> f[p]]
            \in [DOMAIN f \ H -> {"name", "warned name", "scam", "spam"}]
    BY <1>1
  <1>4. QED
    BY <1>2, <1>3 DEF LabelSets

\* COUNT(DISTINCT COALESCE(reporter_ref, id)) counts what ManyReporters
\* asks for: one report may be chosen for every key.
LEMMA KeysAreReporters ==
    ASSUME IsFiniteSet(reports), NEW p, DistinctReporters(p) >= High
    PROVE  ManyReporters(About(p))
  <1> DEFINE R == About(p)
             K == {ReporterKey(r) : r \in R}
             f == [r \in R |-> ReporterKey(r)]
             g == [k \in K |-> CHOOSE r \in R : ReporterKey(r) = k]
             S == {g[k] : k \in K}
  <1>1. IsFiniteSet(R)
    BY FS_Subset DEF About
  <1>2. f \in Surjection(R, K)
    BY DEF Surjection
  <1>3. IsFiniteSet(K)
    <2> HIDE DEF R, K, f
    <2> QED BY <1>1, <1>2, FS_Surjection
  <1>4. \A k \in K : g[k] \in R /\ ReporterKey(g[k]) = k
    OBVIOUS
  <1>5. g \in Bijection(K, S)
    <2>1. g \in [K -> S]
      OBVIOUS
    <2>2. \A k, l \in K : g[k] = g[l] => k = l
      <3> HIDE DEF g, K
      <3> QED BY <1>4
    <2>3. \A s \in S : \E k \in K : g[k] = s
      OBVIOUS
    <2>4. QED
      <3> HIDE DEF g, K, S
      <3> QED BY <2>1, <2>2, <2>3 DEF Bijection, Injection, Surjection, IsInjective
  <1>6. Cardinality(S) = Cardinality(K)
    <2> HIDE DEF g, K, S
    <2> QED BY <1>3, <1>5, FS_Bijection DEF ExistsBijection
  <1>7. Cardinality(S) >= High
    BY <1>6 DEF DistinctReporters
  <1>8. S \in SUBSET R
    BY <1>4
  <1>9. ASSUME NEW r \in S, NEW q \in S, r # q
        PROVE  r.reporter # q.reporter \/ r.reporter = Anonymous
    <2>1. PICK k \in K : r = g[k]
      OBVIOUS
    <2>2. PICK l \in K : q = g[l]
      OBVIOUS
    <2>3. ReporterKey(r) # ReporterKey(q)
      <3> HIDE DEF g, K
      <3> QED BY <1>4, <1>9, <2>1, <2>2
    <2>4. QED
      BY <2>3 DEF ReporterKey
  <1>10. QED
    <2> HIDE DEF S
    <2> QED BY <1>7, <1>8, <1>9 DEF ManyReporters

\* Reports are numbered as they arrive.
Numbered == \A r \in reports : r.id \in 1..Cardinality(reports)

\* getBlockedDigits keeps to the rule.
LEMMA BlockableByTheRule ==
    ASSUME IsFiniteSet(reports), Numbered, NEW flags \in SpamFlags
    PROVE  WithinTheRule(Blockable(flags))
  <1> DEFINE n == Cardinality(reports)
  <1>1. n \in 0..n
    BY FS_CardinalityType
  <1>2. ASSUME NEW p \in Blockable(flags)
        PROVE  ManyReporters(Earliest(n, p)) /\ ScamLeads(Earliest(n, p))
    <2>1. p \in DOMAIN flags /\ flags[p].high /\ flags[p].top = "SCAM"
      BY DEF Blockable
    <2>2. PICK top \in [Flagged -> Categories] :
            /\ \A q \in Flagged : top[q] \in Leading(q)
            /\ flags = [q \in Flagged |-> [high |-> DistinctReporters(q) >= High,
                                           top |-> top[q]]]
      BY DEF SpamFlags
    <2>3. DistinctReporters(p) >= High /\ "SCAM" \in Leading(p)
      BY <2>1, <2>2, Zenon
    <2>4. Earliest(n, p) = About(p)
      <3>1. \A r \in About(p) : r.id <= n
        BY <1>1 DEF About, Numbered
      <3>2. QED
        BY <3>1 DEF Earliest
    <2>5. ManyReporters(About(p))
      BY <2>3, KeysAreReporters
    <2>6. ScamLeads(About(p))
      BY <2>3 DEF Leading, CategoryCount, ScamLeads, Scam
    <2>7. QED
      BY <2>4, <2>5, <2>6
  <1>3. Blockable(flags) \subseteq Callable
    BY DEF Blockable
  <1>4. QED
    BY <1>1, <1>2, <1>3 DEF WithinTheRule

\* A later report takes nothing from the moment at which the rule held.
LEMMA RuleKept ==
    ASSUME Cardinality(reports) \in Nat, Cardinality(reports)' \in Nat,
           Cardinality(reports) <= Cardinality(reports)', reports \subseteq reports',
           \A r \in reports' \ reports : r.id = Cardinality(reports) + 1
    PROVE  \A S : WithinTheRule(S) => WithinTheRule(S)'
  <1>1. \A p : \A n \in 0..Cardinality(reports) : Earliest(n, p)' = Earliest(n, p)
    BY DEF Earliest, About
  <1>2. 0..Cardinality(reports) \subseteq 0..Cardinality(reports)'
    OBVIOUS
  <1>3. \A R : (ManyReporters(R) => ManyReporters(R)') /\ (ScamLeads(R) => ScamLeads(R)')
    BY DEF ManyReporters, ScamLeads, Scam
  <1>4. QED
    BY <1>1, <1>2, <1>3 DEF WithinTheRule

-----------------------------------------------------------------------------
(* Types.                                                                  *)

\* A task that is about to send, or has sent, a change has one.
ChangeInHand ==
    \A t \in Tasks : pc[t] \in {"request", "reply"} => change[t] \in Changes

DeviceInv == TypeOK /\ IsFiniteSet(reports) /\ Numbered /\ ChangeInHand

LEMMA NoLabelsTyped == NoLabels \in LabelSets
  <1>1. NoLabels \in [{} -> {"name", "warned name", "scam", "spam"}]
    BY DEF NoLabels
  <1>2. QED
    BY <1>1 DEF LabelSets

LEMMA InitTyped == Init => DeviceInv
<1> SUFFICES ASSUME Init PROVE DeviceInv
  OBVIOUS
<1> USE CallDirectoryConstantsOK, DeviceConstantsOK
    DEF CallDirectoryConstantsOK, DeviceConstantsOK
<1>1. NoLabels \in LabelSets
  BY NoLabelsTyped
<1>2. saved \in Snapshot
  <2>1. PICK flags \in SpamFlags :
            saved \in {Empty, [labels |-> Labelled(flags), blocked |-> {}]}
    BY DEF Init
  <2>2. QED
    BY <1>1, <2>1, FlagsType DEF Empty, Snapshot
<1>3. ServerTypeOK /\ IsFiniteSet(reports) /\ Numbered
  BY DEF Init, ServerInit, ServerTypeOK, Numbered
<1>4. TasksTypeOK
  BY <1>1 DEF Init, TasksTypeOK
<1>5. ScreenTypeOK
  BY DEF Init, ScreenTypeOK
<1>6. installed \in Snapshot
  BY <1>2 DEF Init
<1>7. actions \in 0..MaxActions /\ failures \in 0..MaxFailures
  <2>1. actions = 0 /\ failures = 0
    BY DEF Init
  <2>2. QED
    BY <2>1
<1>8. enabled \in BOOLEAN /\ settled \in BOOLEAN /\ alone \subseteq Tasks
  BY DEF Init
<1>9. ChangeInHand
  BY DEF Init, ChangeInHand
<1>10. stray \subseteq [failure : 1..MaxFailures, change : Changes]
  BY DEF Init
<1>11. QED
  BY <1>2, <1>3, <1>4, <1>5, <1>6, <1>7, <1>8, <1>9, <1>10 DEF DeviceInv, TypeOK

LEMMA StepTyped == DeviceInv /\ [Next]_syncVars => DeviceInv'
<1> SUFFICES ASSUME DeviceInv, [Next]_syncVars PROVE DeviceInv'
  OBVIOUS
<1> USE CallDirectoryConstantsOK, DeviceConstantsOK
    DEF CallDirectoryConstantsOK, DeviceConstantsOK, DeviceInv, TypeOK
<1>1. ASSUME NEW t \in Tasks, PressSync(t) PROVE DeviceInv'
  <2>1. ServerTypeOK' /\ IsFiniteSet(reports)' /\ Numbered'
    BY <1>1 DEF PressSync, Starts, ServerTypeOK, Numbered, serverVars
  <2>2. TasksTypeOK'
    BY <1>1 DEF PressSync, Starts, TasksTypeOK, ownVars, exportVars, ExportBegins, ExportOver, Goto
  <2>3. ScreenTypeOK'
    BY <1>1 DEF PressSync, Starts, ScreenTypeOK, screenVars
  <2>4. ChangeInHand'
    BY <1>1 DEF PressSync, Starts, ChangeInHand, TasksTypeOK, ownVars, Goto
  <2>5. QED
    BY <1>1, <2>1, <2>2, <2>3, <2>4 DEF PressSync, Starts
<1>2. ASSUME NEW t \in Tasks, FlickSwitch(t) PROVE DeviceInv'
  <2>1. [switch |-> ~switch] \in Changes
    BY DEF Changes, ScreenTypeOK
  <2>2. ServerTypeOK' /\ IsFiniteSet(reports)' /\ Numbered'
    BY <1>2, <2>1 DEF FlickSwitch, Starts, ServerTypeOK, Numbered, serverVars
  <2>3. TasksTypeOK'
    BY <1>2, <2>1 DEF FlickSwitch, Starts, TasksTypeOK, ownVars, exportVars, ExportBegins, ExportOver, Goto
  <2>4. ScreenTypeOK'
    BY <1>2, <2>1 DEF FlickSwitch, Starts, ScreenTypeOK, screenVars
  <2>5. ChangeInHand'
    BY <1>2, <2>1 DEF FlickSwitch, Starts, ChangeInHand, TasksTypeOK, ownVars, Goto
  <2>6. QED
    BY <1>2, <2>1, <2>2, <2>3, <2>4, <2>5 DEF FlickSwitch, Starts
<1>3. ASSUME NEW t \in Tasks, NEW p \in Phones, FlickNumber(t, p) PROVE DeviceInv'
  <2>1. [phone |-> p, on |-> p \notin marks] \in Changes
    BY DEF Changes
  <2>2. ServerTypeOK' /\ IsFiniteSet(reports)' /\ Numbered'
    BY <1>3, <2>1 DEF FlickNumber, Starts, ServerTypeOK, Numbered, serverVars
  <2>3. TasksTypeOK'
    BY <1>3, <2>1 DEF FlickNumber, Starts, TasksTypeOK, ownVars, exportVars, ExportBegins, ExportOver, Goto
  <2>4. ScreenTypeOK'
    BY <1>3, <2>1 DEF FlickNumber, Starts, ScreenTypeOK, screenVars
  <2>5. ChangeInHand'
    BY <1>3, <2>1 DEF FlickNumber, Starts, ChangeInHand, TasksTypeOK, ownVars, Goto
  <2>6. QED
    BY <1>3, <2>1, <2>2, <2>3, <2>4, <2>5 DEF FlickNumber, Starts
<1>4. ASSUME NEW t \in Tasks, Handle(t) PROVE DeviceInv'
  <2>1. ServerTypeOK' /\ IsFiniteSet(reports)' /\ Numbered'
    BY <1>4 DEF Handle, Execute, Suppress, ServerTypeOK, Numbered, ChangeInHand, Changes
  <2>2. TasksTypeOK'
    BY <1>4 DEF Handle, Execute, TasksTypeOK, ownVars, exportVars, ExportBegins, ExportOver, Goto
  <2>3. ScreenTypeOK'
    BY <1>4 DEF Handle, Execute, ScreenTypeOK, screenVars
  <2>4. ChangeInHand'
    BY <1>4 DEF Handle, Execute, ChangeInHand, TasksTypeOK, ownVars, Goto
  <2>5. QED
    BY <1>4, <2>1, <2>2, <2>3, <2>4 DEF Handle, Execute
<1>5. ASSUME NEW t \in Tasks, Reply(t) PROVE DeviceInv'
  <2>1. ServerTypeOK' /\ IsFiniteSet(reports)' /\ Numbered'
    BY <1>5 DEF Reply, ServerTypeOK, Numbered, serverVars
  <2>2. TasksTypeOK'
    BY <1>5 DEF Reply, TasksTypeOK, ownVars, exportVars, ExportBegins, ExportOver, Goto
  <2>3. ScreenTypeOK'
    BY <1>5 DEF Reply, ScreenTypeOK, ChangeInHand, Changes
  <2>4. ChangeInHand'
    BY <1>5 DEF Reply, ChangeInHand, TasksTypeOK, ownVars, Goto
  <2>5. QED
    BY <1>5, <2>1, <2>2, <2>3, <2>4 DEF Reply
<1>6. ASSUME NEW t \in Tasks, QueryLabels(t) PROVE DeviceInv'
  <2>1. ServerTypeOK' /\ IsFiniteSet(reports)' /\ Numbered'
    BY <1>6, FlagsType DEF QueryLabels, Queries, ServerTypeOK, Numbered, serverVars
  <2>2. TasksTypeOK'
    BY <1>6, FlagsType DEF QueryLabels, Queries, TasksTypeOK, ownVars, exportVars, ExportBegins, ExportOver, Goto
  <2>3. ScreenTypeOK'
    BY <1>6, FlagsType DEF QueryLabels, Queries, ScreenTypeOK, screenVars
  <2>4. ChangeInHand'
    BY <1>6, FlagsType DEF QueryLabels, Queries, ChangeInHand, TasksTypeOK, ownVars, Goto
  <2>5. QED
    BY <1>6, FlagsType, <2>1, <2>2, <2>3, <2>4 DEF QueryLabels, Queries
<1>7. ASSUME NEW t \in Tasks, HideLabels(t) PROVE DeviceInv'
  <2>1. ServerTypeOK' /\ IsFiniteSet(reports)' /\ Numbered'
    BY <1>7, HiddenType DEF HideLabels, Queries, ServerTypeOK, Numbered, serverVars
  <2>2. TasksTypeOK'
    BY <1>7, HiddenType DEF HideLabels, Queries, TasksTypeOK, ownVars, exportVars, ExportBegins, ExportOver, Goto
  <2>3. ScreenTypeOK'
    BY <1>7, HiddenType DEF HideLabels, Queries, ScreenTypeOK, screenVars
  <2>4. ChangeInHand'
    BY <1>7, HiddenType DEF HideLabels, Queries, ChangeInHand, TasksTypeOK, ownVars, Goto
  <2>5. QED
    BY <1>7, HiddenType, <2>1, <2>2, <2>3, <2>4 DEF HideLabels, Queries
<1>8. ASSUME NEW t \in Tasks, QuerySetting(t) PROVE DeviceInv'
  <2>1. ServerTypeOK' /\ IsFiniteSet(reports)' /\ Numbered'
    BY <1>8 DEF QuerySetting, Queries, ServerTypeOK, Numbered, serverVars
  <2>2. TasksTypeOK'
    BY <1>8 DEF QuerySetting, Queries, TasksTypeOK, ownVars, exportVars, ExportBegins, ExportOver, Goto
  <2>3. ScreenTypeOK'
    BY <1>8 DEF QuerySetting, Queries, ScreenTypeOK, screenVars
  <2>4. ChangeInHand'
    BY <1>8 DEF QuerySetting, Queries, ChangeInHand, TasksTypeOK, ownVars, Goto
  <2>5. QED
    BY <1>8, <2>1, <2>2, <2>3, <2>4 DEF QuerySetting, Queries
<1>9. ASSUME NEW t \in Tasks, QueryBlocked(t) PROVE DeviceInv'
  <2>1. ServerTypeOK' /\ IsFiniteSet(reports)' /\ Numbered'
    BY <1>9, FlagsType DEF QueryBlocked, Queries, ServerTypeOK, Numbered, serverVars
  <2>2. TasksTypeOK'
    BY <1>9, FlagsType DEF QueryBlocked, Queries, TasksTypeOK, ownVars, exportVars, ExportBegins, ExportOver, Goto
  <2>3. ScreenTypeOK'
    BY <1>9, FlagsType DEF QueryBlocked, Queries, ScreenTypeOK, screenVars
  <2>4. ChangeInHand'
    BY <1>9, FlagsType DEF QueryBlocked, Queries, ChangeInHand, TasksTypeOK, ownVars, Goto
  <2>5. QED
    BY <1>9, FlagsType, <2>1, <2>2, <2>3, <2>4 DEF QueryBlocked, Queries
<1>10. ASSUME NEW t \in Tasks, HideBlocked(t) PROVE DeviceInv'
  <2>1. ServerTypeOK' /\ IsFiniteSet(reports)' /\ Numbered'
    BY <1>10 DEF HideBlocked, Queries, ServerTypeOK, Numbered, serverVars
  <2>2. TasksTypeOK'
    BY <1>10 DEF HideBlocked, Queries, TasksTypeOK, ownVars, exportVars, ExportBegins, ExportOver, Goto
  <2>3. ScreenTypeOK'
    BY <1>10 DEF HideBlocked, Queries, ScreenTypeOK, screenVars
  <2>4. ChangeInHand'
    BY <1>10 DEF HideBlocked, Queries, ChangeInHand, TasksTypeOK, ownVars, Goto
  <2>5. QED
    BY <1>10, <2>1, <2>2, <2>3, <2>4 DEF HideBlocked, Queries
<1>11. ASSUME NEW t \in Tasks, SaveSnapshot(t) PROVE DeviceInv'
  <2>1. ServerTypeOK' /\ IsFiniteSet(reports)' /\ Numbered'
    BY <1>11 DEF SaveSnapshot, ServerTypeOK, Numbered, serverVars
  <2>2. TasksTypeOK'
    BY <1>11, NoLabelsTyped DEF SaveSnapshot, TasksTypeOK, ownVars, exportVars, ExportBegins, ExportOver, Goto
  <2>3. ScreenTypeOK'
    BY <1>11 DEF SaveSnapshot, ScreenTypeOK, screenVars
  <2>4. ChangeInHand'
    BY <1>11 DEF SaveSnapshot, ChangeInHand, TasksTypeOK, ownVars, Goto
  <2>5. QED
    BY <1>11, <2>1, <2>2, <2>3, <2>4 DEF SaveSnapshot, Snapshot, TasksTypeOK
<1>12. ASSUME NEW t \in Tasks, Reload(t) PROVE DeviceInv'
  <2>1. ServerTypeOK' /\ IsFiniteSet(reports)' /\ Numbered'
    BY <1>12 DEF Reload, ServerTypeOK, Numbered, serverVars
  <2>2. TasksTypeOK'
    BY <1>12 DEF Reload, TasksTypeOK, ownVars, exportVars, ExportBegins, ExportOver, Goto
  <2>3. ScreenTypeOK'
    BY <1>12 DEF Reload, ScreenTypeOK, screenVars
  <2>4. ChangeInHand'
    BY <1>12 DEF Reload, ChangeInHand, TasksTypeOK, ownVars, Goto
  <2>5. QED
    BY <1>12, <2>1, <2>2, <2>3, <2>4 DEF Reload
<1>13. ASSUME NEW t \in Tasks, TaskFails(t) PROVE DeviceInv'
  <2>1. ServerTypeOK' /\ IsFiniteSet(reports)' /\ Numbered'
    BY <1>13 DEF TaskFails, ServerTypeOK, Numbered, serverVars
  <2>2. TasksTypeOK'
    BY <1>13, NoLabelsTyped DEF TaskFails, TasksTypeOK, ownVars, exportVars, ExportBegins, ExportOver, Goto
  <2>3. ScreenTypeOK'
    BY <1>13 DEF TaskFails, ScreenTypeOK, screenVars
  <2>4. ChangeInHand'
    BY <1>13 DEF TaskFails, ChangeInHand, TasksTypeOK, ownVars, Goto
  <2>5. stray' \subseteq [failure : 1..MaxFailures, change : Changes]
    <3>1. CASE pc[t] # "request"
      BY <1>13, <3>1 DEF TaskFails
    <3>2. CASE pc[t] = "request"
      <4>1. change[t] \in Changes
        BY <3>2 DEF ChangeInHand
      <4>2. failures' \in 1..MaxFailures
        BY <1>13 DEF TaskFails
      <4>3. QED
        BY <1>13, <3>2, <4>1, <4>2 DEF TaskFails
    <3>3. QED
      BY <3>1, <3>2
  <2>6. failures' \in 0..MaxFailures
    BY <1>13 DEF TaskFails
  <2>7. QED
    BY <1>13, <2>1, <2>2, <2>3, <2>4, <2>5, <2>6 DEF TaskFails
<1>14. CASE OpenSettings
  <2>0. DOMAIN saved.labels \subseteq Callable
    <3>1. saved.labels \in LabelSets
      BY DEF Snapshot
    <3>2. PICK S \in SUBSET Callable :
            saved.labels \in [S -> {"name", "warned name", "scam", "spam"}]
      BY ONLY <3>1 DEF LabelSets
    <3>3. QED
      BY ONLY <3>2
  <2>1. ServerTypeOK' /\ IsFiniteSet(reports)' /\ Numbered'
    BY <1>14 DEF OpenSettings, ServerTypeOK, Numbered, serverVars
  <2>2. TasksTypeOK'
    BY <1>14 DEF OpenSettings, TasksTypeOK, ownVars, exportVars, ExportBegins, ExportOver, Goto
  <2>3. ScreenTypeOK'
    BY <1>14, <2>0 DEF OpenSettings, ScreenTypeOK, screenVars
  <2>4. ChangeInHand'
    BY <1>14 DEF OpenSettings, ChangeInHand, TasksTypeOK, ownVars, Goto
  <2>5. QED
    BY <1>14, <2>1, <2>2, <2>3, <2>4 DEF OpenSettings
<1>15. CASE LoadStep \/ LoadFails
  <2>1. ServerTypeOK' /\ IsFiniteSet(reports)' /\ Numbered'
    BY <1>15 DEF LoadStep, LoadFails, AnswerLoad, ReceiveMarks, ReceiveSwitch, Loads, ServerTypeOK, Numbered, serverVars
  <2>2. TasksTypeOK'
    BY <1>15 DEF LoadStep, LoadFails, AnswerLoad, ReceiveMarks, ReceiveSwitch, Loads, TasksTypeOK, ownVars, exportVars, ExportBegins, ExportOver, Goto
  <2>3. ScreenTypeOK'
    <3>1. CASE AnswerLoad
      BY <3>1 DEF AnswerLoad, Loads, ScreenTypeOK, ServerTypeOK, Answers
    <3>2. CASE ReceiveMarks
      BY <3>2 DEF ReceiveMarks, Loads, ScreenTypeOK
    <3>3. CASE ReceiveSwitch
      BY <3>3 DEF ReceiveSwitch, Loads, ScreenTypeOK
    <3>4. CASE LoadFails
      BY <3>4 DEF LoadFails, Loads, ScreenTypeOK
    <3>5. QED
      BY <1>15, <3>1, <3>2, <3>3, <3>4 DEF LoadStep
  <2>4. ChangeInHand'
    BY <1>15 DEF LoadStep, LoadFails, AnswerLoad, ReceiveMarks, ReceiveSwitch, Loads, ChangeInHand, TasksTypeOK, ownVars, Goto
  <2>5. QED
    BY <1>15, <2>1, <2>2, <2>3, <2>4 DEF LoadStep, LoadFails, AnswerLoad, ReceiveMarks, ReceiveSwitch, Loads
<1>16. CASE ReportArrives
  <2>1. ServerTypeOK' /\ IsFiniteSet(reports)' /\ Numbered'
    <3>1. PICK p \in Phones, c \in Categories, who \in Reporters \cup {Anonymous} :
            Submit(p, c, who)
      BY <1>16 DEF ReportArrives
    <3>2. Cardinality(reports) \in Nat
      BY FS_CardinalityType
    <3>3. IsFiniteSet(reports') /\ Numbered'
      <4> DEFINE new == [id |-> Cardinality(reports) + 1, phone |-> p,
                         category |-> c, reporter |-> who]
      <4>1. new \notin reports
        <5>1. \A r \in reports : r.id # new.id
          BY <3>2 DEF Numbered
        <5>2. QED
          BY <5>1
      <4>. HIDE DEF new
      <4>2. reports' = reports \cup {new}
        BY <3>1 DEF Submit, new
      <4>3. IsFiniteSet(reports') /\ Cardinality(reports') = Cardinality(reports) + 1
        BY <4>1, <4>2, FS_AddElement
      <4>4. new.id = Cardinality(reports) + 1
        BY DEF new
      <4>5. \A r \in reports : r.id \in 1..Cardinality(reports)
        BY DEF Numbered
      <4>6. \A r \in reports' : r.id \in 1..Cardinality(reports')
        BY ONLY <3>2, <4>2, <4>3, <4>4, <4>5
      <4>7. QED
        BY <4>3, <4>6 DEF Numbered
    <3>4. reports' \subseteq Report
      BY <3>1, <3>2 DEF Submit, Report, ServerTypeOK
    <3>5. QED
      BY <1>16, <3>3, <3>4 DEF ReportArrives, ServerTypeOK
  <2>2. TasksTypeOK'
    BY <1>16 DEF ReportArrives, TasksTypeOK, ownVars, exportVars, ExportBegins, ExportOver, Goto
  <2>3. ScreenTypeOK'
    BY <1>16 DEF ReportArrives, ScreenTypeOK, screenVars
  <2>4. ChangeInHand'
    BY <1>16 DEF ReportArrives, ChangeInHand, TasksTypeOK, ownVars, Goto
  <2>5. QED
    BY <1>16, <2>1, <2>2, <2>3, <2>4 DEF ReportArrives
<1>17. CASE SystemLoadsExtension
  <2>1. ServerTypeOK' /\ IsFiniteSet(reports)' /\ Numbered'
    BY <1>17 DEF SystemLoadsExtension, ServerTypeOK, Numbered, serverVars
  <2>2. TasksTypeOK'
    BY <1>17 DEF SystemLoadsExtension, TasksTypeOK, ownVars, exportVars, ExportBegins, ExportOver, Goto
  <2>3. ScreenTypeOK'
    BY <1>17 DEF SystemLoadsExtension, ScreenTypeOK, screenVars
  <2>4. ChangeInHand'
    BY <1>17 DEF SystemLoadsExtension, ChangeInHand, TasksTypeOK, ownVars, Goto
  <2>5. QED
    BY <1>17, <2>1, <2>2, <2>3, <2>4 DEF SystemLoadsExtension
<1>18. CASE UNCHANGED syncVars
  <2>1. ServerTypeOK' /\ IsFiniteSet(reports)' /\ Numbered'
    BY <1>18 DEF syncVars, ServerTypeOK, Numbered, serverVars
  <2>2. TasksTypeOK'
    BY <1>18 DEF syncVars, TasksTypeOK, ownVars, exportVars, ExportBegins, ExportOver, Goto
  <2>3. ScreenTypeOK'
    BY <1>18 DEF syncVars, ScreenTypeOK, screenVars
  <2>4. ChangeInHand'
    BY <1>18 DEF syncVars, ChangeInHand, TasksTypeOK, ownVars, Goto
  <2>5. QED
    BY <1>18, <2>1, <2>2, <2>3, <2>4 DEF syncVars
<1>19. CASE HandleStray
  <2>1. PICK s \in stray : Execute(s.change)
    BY <1>19 DEF HandleStray
  <2>2. s.change \in Changes
    OBVIOUS
  <2>3. ServerTypeOK' /\ IsFiniteSet(reports)' /\ Numbered'
    BY <1>19, <2>1, <2>2 DEF HandleStray, Execute, Suppress, ServerTypeOK, Numbered, Changes
  <2>4. TasksTypeOK'
    BY <1>19 DEF HandleStray, TasksTypeOK, ownVars, exportVars
  <2>5. ScreenTypeOK'
    BY <1>19 DEF HandleStray, ScreenTypeOK, screenVars
  <2>6. ChangeInHand'
    BY <1>19 DEF HandleStray, ChangeInHand, TasksTypeOK, ownVars
  <2>7. QED
    BY <1>19, <2>1, <2>3, <2>4, <2>5, <2>6 DEF HandleStray, Execute
<1>20. QED
  BY <1>1, <1>2, <1>3, <1>4, <1>5, <1>6, <1>7, <1>8, <1>9, <1>10, <1>11, <1>12,
     <1>13, <1>14, <1>15, <1>16, <1>17, <1>18, <1>19 DEF Next, TaskStep

\* Every response, snapshot and answer keeps its shape through whatever
\* overlap of tasks, screens and failures.
THEOREM DeviceTypeCorrect == Spec => []TypeOK
<1>1. DeviceInv => TypeOK
  BY DEF DeviceInv
<1>2. Spec => []DeviceInv
  BY InitTyped, StepTyped, PTL DEF Spec
<1>3. QED
  BY <1>1, <1>2, PTL

-----------------------------------------------------------------------------
(* Blocking and the owner's consent.                                       *)

\* The switch is turned on only by a request the owner made for it, and only
\* a response that found it on holds blocked numbers.
Consent ==
    /\ autoBlock => enabled
    /\ \A t \in Tasks :
        /\ pc[t] = "request" /\ change[t] \in [switch : BOOLEAN] /\ change[t].switch
                => enabled
        /\ blocking[t] \in {"flags", "hide"} \/ blocked[t] # {} => enabled
    /\ \A s \in stray : s.change \in [switch : BOOLEAN] /\ s.change.switch => enabled
    /\ BlockingNeedsOptIn

\* What the owner has once asked for stays asked for, and blocked numbers
\* pass from the response to the file and from the file to the extension.
THEOREM NothingBlockedUnasked == Spec => []BlockingNeedsOptIn
<1>1. Init => Consent
  BY DEF Init, ServerInit, Consent, BlockingNeedsOptIn, Empty
<1>2. DeviceInv /\ Consent /\ [Next]_syncVars => Consent'
  <2> SUFFICES ASSUME DeviceInv, Consent, [Next]_syncVars PROVE Consent'
    OBVIOUS
  <2>0. TasksTypeOK /\ ScreenTypeOK
    BY DEF DeviceInv, TypeOK
  <2> USE <2>0 DEF Consent, BlockingNeedsOptIn, TasksTypeOK, serverVars, screenVars, Goto
  <2>1. ASSUME NEW t \in Tasks, PressSync(t) PROVE Consent'
    BY <2>1 DEF PressSync, Starts, ExportBegins
  <2>2. ASSUME NEW t \in Tasks, FlickSwitch(t) PROVE Consent'
    BY <2>2 DEF FlickSwitch, Starts, exportVars
  <2>3. ASSUME NEW t \in Tasks, NEW p \in Phones, FlickNumber(t, p) PROVE Consent'
    BY <2>3 DEF FlickNumber, Starts, exportVars
  <2>4. ASSUME NEW t \in Tasks, Handle(t) PROVE Consent'
    BY <2>4 DEF Handle, Execute, exportVars
  <2>5. ASSUME NEW t \in Tasks, Reply(t) PROVE Consent'
    BY <2>5 DEF Reply, ExportBegins
  <2>6. ASSUME NEW t \in Tasks, QueryLabels(t) \/ HideLabels(t) PROVE Consent'
    BY <2>6 DEF QueryLabels, HideLabels, Queries
  <2>7. ASSUME NEW t \in Tasks, QuerySetting(t) PROVE Consent'
    BY <2>7 DEF QuerySetting, Queries
  <2>8. ASSUME NEW t \in Tasks, QueryBlocked(t) \/ HideBlocked(t) PROVE Consent'
    BY <2>8 DEF QueryBlocked, HideBlocked, Queries
  <2>9. ASSUME NEW t \in Tasks, SaveSnapshot(t) PROVE Consent'
    BY <2>9 DEF SaveSnapshot, ExportOver
  <2>10. ASSUME NEW t \in Tasks, Reload(t) PROVE Consent'
    BY <2>10 DEF Reload, exportVars
  <2>11. ASSUME NEW t \in Tasks, TaskFails(t) PROVE Consent'
    BY <2>11 DEF TaskFails, ExportOver
  <2>12. CASE OpenSettings
    BY <2>12 DEF OpenSettings, ownVars
  <2>13. CASE LoadStep \/ LoadFails
    BY <2>13 DEF LoadStep, LoadFails, AnswerLoad, ReceiveMarks, ReceiveSwitch, Loads, ownVars
  <2>14. CASE ReportArrives
    BY <2>14 DEF ReportArrives, ownVars
  <2>15. CASE SystemLoadsExtension
    BY <2>15 DEF SystemLoadsExtension, ownVars
  <2>16. CASE UNCHANGED syncVars
    BY <2>16 DEF syncVars
  <2>17. CASE HandleStray
    BY <2>17 DEF HandleStray, Execute, ownVars
  <2>18. QED
    BY <2>1, <2>2, <2>3, <2>4, <2>5, <2>6, <2>7, <2>8, <2>9, <2>10, <2>11, <2>12,
       <2>13, <2>14, <2>15, <2>16, <2>17 DEF Next, TaskStep
<1>3. Consent => BlockingNeedsOptIn
  BY DEF Consent
<1>4. QED
  BY InitTyped, StepTyped, <1>1, <1>2, <1>3, PTL DEF Spec

-----------------------------------------------------------------------------
(* Blocking and the rule.                                                  *)

\* Blocked numbers have met the rule from the response on.
Ruled ==
    /\ \A t \in Tasks : WithinTheRule(blocked[t])
    /\ WithinTheRule(saved.blocked)
    /\ WithinTheRule(installed.blocked)

\* Apart from four steps of a task, blocked numbers only pass from the file to
\* the extension.
LEMMA BlockedMoves ==
    ASSUME [Next]_syncVars
    PROVE  \/ blocked' = blocked /\ saved' = saved /\ installed' \in {installed, saved}
           \/ \E t \in Tasks : \/ QueryBlocked(t) \/ HideBlocked(t)
                              \/ SaveSnapshot(t) \/ TaskFails(t)
<1> DEFINE Quiet == blocked' = blocked /\ saved' = saved /\ installed' \in {installed, saved}
<1>1. ASSUME NEW t \in Tasks, PressSync(t) \/ FlickSwitch(t) PROVE Quiet
  BY <1>1 DEF PressSync, FlickSwitch, Starts, ExportBegins, exportVars
<1>2. ASSUME NEW t \in Tasks, NEW p \in Phones, FlickNumber(t, p) PROVE Quiet
  BY <1>2 DEF FlickNumber, Starts, exportVars
<1>3. ASSUME NEW t \in Tasks, Handle(t) \/ Reply(t) \/ Reload(t) PROVE Quiet
  BY <1>3 DEF Handle, Reply, Reload, ExportBegins, exportVars
<1>4. ASSUME NEW t \in Tasks, QueryLabels(t) \/ HideLabels(t) \/ QuerySetting(t) PROVE Quiet
  BY <1>4 DEF QueryLabels, HideLabels, QuerySetting, Queries
<1>5. ASSUME OpenSettings \/ LoadStep \/ LoadFails PROVE Quiet
  BY <1>5 DEF OpenSettings, LoadStep, LoadFails, AnswerLoad, ReceiveMarks, ReceiveSwitch,
              Loads, ownVars
<1>6. ASSUME HandleStray \/ ReportArrives \/ SystemLoadsExtension PROVE Quiet
  BY <1>6 DEF HandleStray, ReportArrives, SystemLoadsExtension, ownVars
<1>7. ASSUME UNCHANGED syncVars PROVE Quiet
  BY <1>7 DEF syncVars
<1>8. QED
  BY <1>1, <1>2, <1>3, <1>4, <1>5, <1>6, <1>7 DEF Next, TaskStep

\* The device blocks only numbers that had HIGH many reporters who can be told
\* apart, and SCAM for their top category, at one moment: whichever responses
\* overlap, and however many reports follow.
THEOREM BlockedNumbersMetTheRule == Spec => []BlockedByTheRule
<1>1. Init => Ruled
  BY DEF Init, Ruled, WithinTheRule, Empty
<1>2. DeviceInv /\ Ruled /\ [Next]_syncVars => Ruled'
  <2> SUFFICES ASSUME DeviceInv, Ruled, [Next]_syncVars PROVE Ruled'
    OBVIOUS
  <2>1. TasksTypeOK /\ IsFiniteSet(reports) /\ Numbered
    BY DEF DeviceInv, TypeOK
  <2>2. UNCHANGED reports \/ ReportArrives
    BY DEF Next, TaskStep, PressSync, FlickSwitch, FlickNumber, Starts, Handle, Reply,
           QueryLabels, HideLabels, QuerySetting, QueryBlocked, HideBlocked, Queries,
           SaveSnapshot, Reload, TaskFails, OpenSettings, LoadStep, LoadFails, AnswerLoad,
           ReceiveMarks, ReceiveSwitch, Loads, HandleStray,
           SystemLoadsExtension, syncVars, serverVars
  <2>3. \A S : WithinTheRule(S) => WithinTheRule(S)'
    <3>1. Cardinality(reports) \in Nat
      BY <2>1, FS_CardinalityType
    <3>2. CASE UNCHANGED reports
      BY <3>1, <3>2, RuleKept
    <3>3. CASE ReportArrives
      <4>1. PICK p \in Phones, c \in Categories, who \in Reporters \cup {Anonymous} :
              Submit(p, c, who)
        BY <3>3 DEF ReportArrives
      <4> DEFINE new == [id |-> Cardinality(reports) + 1, phone |-> p,
                         category |-> c, reporter |-> who]
      <4>2. reports' = reports \cup {new} /\ new \notin reports
        BY <2>1, <3>1, <4>1 DEF Submit, Numbered
      <4>3. Cardinality(reports') = Cardinality(reports) + 1
        BY <2>1, <4>2, FS_AddElement
      <4>4. QED
        BY <3>1, <4>2, <4>3, RuleKept
    <3>4. QED
      BY <2>2, <3>2, <3>3
  <2>4. WithinTheRule({})'
    BY DEF WithinTheRule
  <2>5. \A S, T : WithinTheRule(T)' /\ S \subseteq T => WithinTheRule(S)'
    BY DEF WithinTheRule
  <2> USE <2>1, <2>3, <2>4, <2>5 DEF Ruled, TasksTypeOK
  <2>6. CASE blocked' = blocked /\ saved' = saved /\ installed' \in {installed, saved}
    BY <2>6
  <2>7. ASSUME NEW t \in Tasks, QueryBlocked(t) PROVE Ruled'
    <3>1. PICK flags \in SpamFlags : blocked' = [blocked EXCEPT ![t] = Blockable(flags)]
      BY <2>7 DEF QueryBlocked
    <3>2. WithinTheRule(Blockable(flags))
      BY BlockableByTheRule
    <3>3. QED
      BY <2>7, <3>1, <3>2 DEF QueryBlocked, Queries
  <2>8. ASSUME NEW t \in Tasks, HideBlocked(t) PROVE Ruled'
    BY <2>8 DEF HideBlocked, Queries
  <2>9. ASSUME NEW t \in Tasks, SaveSnapshot(t) PROVE Ruled'
    BY <2>9 DEF SaveSnapshot, ExportOver
  <2>10. ASSUME NEW t \in Tasks, TaskFails(t) PROVE Ruled'
    BY <2>10 DEF TaskFails, ExportOver
  <2>11. QED
    BY <2>6, <2>7, <2>8, <2>9, <2>10, BlockedMoves
<1>3. Ruled => BlockedByTheRule
  BY DEF Ruled, BlockedByTheRule, WithinTheRule
<1>4. QED
  BY InitTyped, StepTyped, <1>1, <1>2, <1>3, PTL DEF Spec

-----------------------------------------------------------------------------
(* Settled devices honour the settings.                                    *)

\* The response of t so far, by the settings as they are.
UpToDate(t) ==
    /\ labelling[t] = "done" => DOMAIN labels[t] \cap suppressed = {}
    /\ blocking[t] \in {"flags", "hide"} => autoBlock
    /\ blocking[t] = "done" => blocked[t] \cap suppressed = {} /\ (blocked[t] # {} => autoBlock)
    /\ blocking[t] \in {"none", "setting", "flags"} => blocked[t] = {}

\* Who is alone is the only one under way, and works for the settings as they
\* are; when the device is settled so does everybody, and the file and the
\* extension agree with them.
Settling ==
    /\ \A t \in alone : pc[t] # "idle" /\ \A u \in Tasks : pc[u] # "idle" => u = t
    /\ \A t \in Tasks : blocking[t] = "none" => blocked[t] = {}
    /\ \A t \in Tasks : settled \/ t \in alone => UpToDate(t)
    /\ \A t \in alone : pc[t] = "reload" => Honours(saved)
    /\ settled => Honours(saved) /\ Honours(installed)

\* Whatever failed and overlapped before, the extension honours the settings
\* from the first task that ran alone after the last change until the next.
THEOREM UndisturbedTaskRepairs == Spec => []SettledDeviceHonours
<1>1. Init => Settling
  <2> SUFFICES ASSUME Init PROVE Settling
    OBVIOUS
  <2>1. suppressed = {} /\ saved.blocked = {} /\ installed = saved
    BY DEF Init, ServerInit, Empty
  <2>2. Honours(saved) /\ Honours(installed)
    BY <2>1 DEF Honours
  <2>3. QED
    BY <2>1, <2>2 DEF Init, Settling, UpToDate
<1>2. DeviceInv /\ Settling /\ [Next]_syncVars => Settling'
  <2> SUFFICES ASSUME DeviceInv, Settling, [Next]_syncVars PROVE Settling'
    OBVIOUS
  <2>0. TasksTypeOK /\ ScreenTypeOK /\ settled \in BOOLEAN /\ alone \subseteq Tasks
    BY DEF DeviceInv, TypeOK
  <2> USE <2>0 DEF Settling, UpToDate, Honours, TasksTypeOK, serverVars, screenVars, Goto
  <2>1. ASSUME NEW t \in Tasks, NEW c, NEW l \in {"request", "export"}, Starts(t, c, l),
               UNCHANGED <<labels, blocked>>,
               \/ UNCHANGED <<labelling, blocking>>
               \/ ExportBegins(t)
        PROVE  Settling'
    BY <2>1 DEF Starts, Busy, ExportBegins
  <2>2. ASSUME NEW t \in Tasks, PressSync(t) PROVE Settling'
    BY <2>1, <2>2 DEF PressSync, ExportBegins
  <2>3. ASSUME NEW t \in Tasks, FlickSwitch(t) \/ \E p \in Phones : FlickNumber(t, p) PROVE Settling'
    BY <2>1, <2>3 DEF FlickSwitch, FlickNumber, exportVars
  <2>4. ASSUME NEW t \in Tasks, Handle(t) PROVE Settling'
    BY <2>4 DEF Handle, Execute, exportVars
  <2>5. ASSUME NEW t \in Tasks, Reply(t) PROVE Settling'
    BY <2>5 DEF Reply, ExportBegins
  <2>6. ASSUME NEW t \in Tasks, QueryLabels(t) PROVE Settling'
    BY <2>6 DEF QueryLabels, Queries
  <2>7. ASSUME NEW t \in Tasks, HideLabels(t) PROVE Settling'
    BY <2>7 DEF HideLabels, Queries
  <2>8. ASSUME NEW t \in Tasks, QuerySetting(t) PROVE Settling'
    BY <2>8 DEF QuerySetting, Queries
  <2>9. ASSUME NEW t \in Tasks, QueryBlocked(t) PROVE Settling'
    BY <2>9 DEF QueryBlocked, Queries
  <2>10. ASSUME NEW t \in Tasks, HideBlocked(t) PROVE Settling'
    BY <2>10 DEF HideBlocked, Queries
  <2>11. ASSUME NEW t \in Tasks, SaveSnapshot(t) PROVE Settling'
    BY <2>11 DEF SaveSnapshot, ExportOver
  <2>12. ASSUME NEW t \in Tasks, Reload(t) PROVE Settling'
    BY <2>12 DEF Reload, exportVars
  <2>13. ASSUME NEW t \in Tasks, TaskFails(t) PROVE Settling'
    BY <2>13 DEF TaskFails, ExportOver
  <2>14. CASE OpenSettings
    BY <2>14 DEF OpenSettings, ownVars
  <2>15. CASE LoadStep \/ LoadFails
    BY <2>15 DEF LoadStep, LoadFails, AnswerLoad, ReceiveMarks, ReceiveSwitch, Loads, ownVars
  <2>16. CASE ReportArrives
    BY <2>16 DEF ReportArrives, ownVars
  <2>17. CASE SystemLoadsExtension
    BY <2>17 DEF SystemLoadsExtension, ownVars
  <2>18. CASE UNCHANGED syncVars
    BY <2>18 DEF syncVars
  <2>19. CASE HandleStray
    BY <2>19 DEF HandleStray, Execute, ownVars
  <2>20. QED
    BY <2>2, <2>3, <2>4, <2>5, <2>6, <2>7, <2>8, <2>9, <2>10, <2>11, <2>12, <2>13,
       <2>14, <2>15, <2>16, <2>17, <2>18, <2>19 DEF Next, TaskStep
<1>3. Settling => SettledDeviceHonours
  BY DEF Settling, SettledDeviceHonours
<1>4. QED
  BY InitTyped, StepTyped, <1>1, <1>2, <1>3, PTL DEF Spec
=============================================================================
