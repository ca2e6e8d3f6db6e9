----------------------------- MODULE DeviceSync -----------------------------
(***************************************************************************)
(* The iOS application (SyncService.swift, SettingsView.swift) beside the  *)
(* API of CallDirectory: tasks that change a setting and synchronise, the  *)
(* snapshot file they share, and the Call Directory extension iOS loads    *)
(* from that file.                                                         *)
(*                                                                         *)
(* The application runs on the main actor, so its code is atomic between   *)
(* two awaits.  The settings screen and the main screen own a SyncService  *)
(* each and every flick of a toggle is a task of its own, so that tasks    *)
(* overlap freely.  The API answers an export with two chains of queries   *)
(* that run side by side, each query on its own snapshot of the database.  *)
(***************************************************************************)
EXTENDS CallDirectory

CONSTANTS
    Tasks,        \* tasks of the application that may be under way together
    NoChange,     \* the "change" of a plain synchronisation
    NoAnswer,
    MaxActions,   \* bound on what the owner does
    MaxFailures   \* bound on lost requests, failed saves and failed reloads

Changes == [phone : Phones, on : BOOLEAN] \cup [switch : BOOLEAN]

Answers == [marks : SUBSET Phones] \cup [switch : BOOLEAN]

ASSUME DeviceConstantsOK ==
    NoChange \notin Changes /\ MaxActions \in Nat /\ MaxFailures \in Nat

VARIABLES
    pc,         \* task -> "idle", or the await it is suspended in
    change,     \* task -> the change it makes before it synchronises
    labelling,  \* task -> next query of getCallDirectoryEntries
    labels,     \* task -> the entries so far
    blocking,   \* task -> next query of getBlockedDigits
    blocked,    \* task -> the blocked numbers so far
    saved,      \* the snapshot file
    installed,  \* what the extension last loaded
    known,      \* the numbers the settings screen lists
    marks,      \* those it shows as suppressed
    switch,     \* its auto-block switch
    loading,    \* the await the screen's own loading is suspended in
    answer,     \* what the API has answered it
    onScreen,   \* tasks started on the screen that is open
    stray,      \* requests given up by their tasks that may yet be executed
    actions, failures,
    enabled,    \* history: has the owner ever asked for auto-blocking?
    alone,      \* history: tasks no other task or stray request has overlapped
    settled     \* history: since the last change reached the API, has a task
                \* run alone to its end?

exportVars == <<labelling, labels, blocking, blocked>>
ownVars    == <<pc, change, labelling, labels, blocking, blocked>>
screenVars == <<known, marks, switch, loading, answer, onScreen>>
syncVars   == <<reports, suppressed, autoBlock, pc, change, labelling, labels,
                blocking, blocked, saved, installed, known, marks, switch,
                loading, answer, onScreen, stray, actions, failures,
                enabled, alone, settled>>

NoLabels == [p \in {} |-> "name"]
Empty == [labels |-> NoLabels, blocked |-> {}]

LabelSets == UNION {[S -> {"name", "warned name", "scam", "spam"}] : S \in SUBSET Callable}
Snapshot  == [labels : LabelSets, blocked : SUBSET Callable]

TasksTypeOK ==
    /\ pc \in [Tasks -> {"idle", "request", "reply", "export", "reload"}]
    /\ change \in [Tasks -> Changes \cup {NoChange}]
    /\ labelling \in [Tasks -> {"none", "flags", "hide", "done"}]
    /\ blocking \in [Tasks -> {"none", "setting", "flags", "hide", "done"}]
    /\ labels \in [Tasks -> LabelSets] /\ blocked \in [Tasks -> SUBSET Callable]
    /\ \A t \in Tasks : pc[t] # "export" => labelling[t] = "none" /\ blocking[t] = "none"

ScreenTypeOK ==
    /\ known \subseteq Callable /\ marks \subseteq Phones /\ switch \in BOOLEAN
    /\ loading \in {"closed", "marks", "marksReply", "switch", "switchReply", "done"}
    /\ answer \in {NoAnswer} \cup Answers
    /\ loading = "marksReply" => answer \in [marks : SUBSET Phones]
    /\ loading = "switchReply" => answer \in [switch : BOOLEAN]
    /\ onScreen \subseteq Tasks

TypeOK ==
    /\ ServerTypeOK /\ TasksTypeOK /\ ScreenTypeOK
    /\ saved \in Snapshot /\ installed \in Snapshot
    /\ stray \subseteq [failure : 1..MaxFailures, change : Changes]
    /\ actions \in 0..MaxActions /\ failures \in 0..MaxFailures
    /\ enabled \in BOOLEAN /\ settled \in BOOLEAN /\ alone \subseteq Tasks

Init ==
    /\ ServerInit
    /\ pc = [t \in Tasks |-> "idle"] /\ change = [t \in Tasks |-> NoChange]
    /\ labelling = [t \in Tasks |-> "none"] /\ labels = [t \in Tasks |-> NoLabels]
    /\ blocking = [t \in Tasks |-> "none"] /\ blocked = [t \in Tasks |-> {}]
    /\ \E flags \in SpamFlags :
            saved \in {Empty, [labels |-> Labelled(flags), blocked |-> {}]}
    /\ installed = saved
    /\ known = {} /\ marks = {} /\ switch = FALSE
    /\ loading = "closed" /\ answer = NoAnswer /\ onScreen = {}
    /\ stray = {} /\ actions = 0 /\ failures = 0
    /\ enabled = FALSE /\ alone = {} /\ settled = TRUE

Busy == {t \in Tasks : pc[t] # "idle"}
Goto(t, label) == pc' = [pc EXCEPT ![t] = label]

-----------------------------------------------------------------------------
(* The owner.                                                              *)

Starts(t, what, label) ==
    /\ pc[t] = "idle" /\ actions < MaxActions
    /\ actions' = actions + 1
    /\ change' = [change EXCEPT ![t] = what]
    /\ Goto(t, label)
    /\ alone' = IF Busy = {} THEN {t} ELSE {}
    /\ UNCHANGED <<serverVars, saved, installed, known, marks, switch,
                   loading, answer, stray, failures, settled>>

ExportBegins(t) ==
    /\ labelling' = [labelling EXCEPT ![t] = "flags"]
    /\ blocking' = [blocking EXCEPT ![t] = "setting"]
    /\ UNCHANGED <<labels, blocked>>

\* The main screen's button, disabled while its own SyncService is at work,
\* and its task at launch.
PressSync(t) ==
    /\ \A u \in Busy : change[u] # NoChange
    /\ Starts(t, NoChange, "export")
    /\ ExportBegins(t)
    /\ UNCHANGED <<enabled, onScreen>>

\* A settings screen opens with a view model of its own, in the place of the
\* last one, and loadKnownNumbers reads the snapshot file.
OpenSettings ==
    /\ actions < MaxActions
    /\ actions' = actions + 1
    /\ known' = DOMAIN saved.labels
    /\ marks' = {} /\ switch' = FALSE
    /\ loading' = "marks" /\ answer' = NoAnswer
    /\ onScreen' = {}
    /\ UNCHANGED <<serverVars, ownVars, saved, installed, stray, failures,
                   enabled, alone, settled>>

\* toggle: the task asks for the opposite of what the screen shows, and the
\* screen goes on showing it until the reply.
FlickNumber(t, p) ==
    /\ loading # "closed" /\ p \in known
    /\ Starts(t, [phone |-> p, on |-> p \notin marks], "request")
    /\ onScreen' = onScreen \cup {t}
    /\ UNCHANGED <<exportVars, enabled>>

\* setAutoBlockHighRisk
FlickSwitch(t) ==
    /\ loading # "closed"
    /\ Starts(t, [switch |-> ~switch], "request")
    /\ onScreen' = onScreen \cup {t}
    /\ enabled' = (enabled \/ ~switch)
    /\ UNCHANGED exportVars

-----------------------------------------------------------------------------
(* loadSuppressed, then loadAppSettings.                                   *)

Loads == UNCHANGED <<serverVars, ownVars, saved, installed, known, onScreen,
                     stray, actions, enabled, alone, settled>>

AnswerLoad ==
    /\ loading \in {"marks", "switch"}
    /\ answer' = IF loading = "marks" THEN [marks |-> suppressed]
                                   ELSE [switch |-> autoBlock]
    /\ loading' = IF loading = "marks" THEN "marksReply" ELSE "switchReply"
    /\ Loads /\ UNCHANGED <<marks, switch, failures>>

ReceiveMarks ==
    /\ loading = "marksReply"
    /\ marks' = answer.marks
    /\ loading' = "switch" /\ answer' = NoAnswer
    /\ Loads /\ UNCHANGED <<switch, failures>>

ReceiveSwitch ==
    /\ loading = "switchReply"
    /\ switch' = answer.switch
    /\ loading' = "done" /\ answer' = NoAnswer
    /\ Loads /\ UNCHANGED <<marks, failures>>

\* The screen keeps what it shows.
LoadFails ==
    /\ loading \notin {"closed", "done"} /\ failures < MaxFailures
    /\ failures' = failures + 1
    /\ loading' = IF loading \in {"marks", "marksReply"} THEN "switch" ELSE "done"
    /\ answer' = NoAnswer
    /\ Loads /\ UNCHANGED <<marks, switch>>

LoadStep == AnswerLoad \/ ReceiveMarks \/ ReceiveSwitch

-----------------------------------------------------------------------------
(* A task.                                                                 *)

Execute(what) ==
    /\ IF what \in [switch : BOOLEAN]
       THEN autoBlock' = what.switch /\ UNCHANGED suppressed
       ELSE Suppress(what.phone, what.on) /\ UNCHANGED autoBlock
    /\ settled' = FALSE

\* The API executes the request's statement.
Handle(t) ==
    /\ pc[t] = "request"
    /\ Execute(change[t])
    /\ Goto(t, "reply")
    /\ UNCHANGED <<reports, change, exportVars, saved, installed, screenVars,
                   stray, actions, failures, enabled, alone>>

\* It executes a request its task has given up, whatever is under way by then.
HandleStray ==
    /\ \E s \in stray : Execute(s.change) /\ stray' = stray \ {s}
    /\ alone' = {}
    /\ UNCHANGED <<reports, ownVars, saved, installed, screenVars,
                   actions, failures, enabled>>

\* Its reply arrives, the view model that sent it shows the change, and
\* sync() sends the export request.
Reply(t) ==
    /\ pc[t] = "reply"
    /\ Goto(t, "export")
    /\ ExportBegins(t)
    /\ IF t \notin onScreen THEN UNCHANGED <<marks, switch>>
       ELSE IF change[t] \in [switch : BOOLEAN]
       THEN switch' = change[t].switch /\ UNCHANGED marks
       ELSE /\ marks' = IF change[t].on THEN marks \cup {change[t].phone}
                                        ELSE marks \ {change[t].phone}
            /\ UNCHANGED switch
    /\ UNCHANGED <<serverVars, change, saved, installed, known, loading, answer, onScreen,
                   stray, actions, failures, enabled, alone, settled>>

\* One query of the export's two chains.
Queries(t) ==
    /\ pc[t] = "export"
    /\ UNCHANGED <<serverVars, pc, change, saved, installed, screenVars,
                   stray, actions, failures, enabled, alone, settled>>

QueryLabels(t) ==
    /\ Queries(t) /\ labelling[t] = "flags"
    /\ \E flags \in SpamFlags : labels' = [labels EXCEPT ![t] = Labelled(flags)]
    /\ labelling' = [labelling EXCEPT ![t] = "hide"]
    /\ UNCHANGED <<blocking, blocked>>

HideLabels_notAtAll(t) ==
    /\ Queries(t) /\ labelling[t] = "hide"
    /\ labelling' = [labelling EXCEPT ![t] = "done"]
    /\ UNCHANGED <<labels, blocking, blocked>>

\* getSuppressedSet for the labels
HideLabels(t) ==
    /\ Queries(t) /\ labelling[t] = "hide"
    /\ labels' = [labels EXCEPT ![t] =
                    [p \in DOMAIN @ \ suppressed |-> @[p]]]
    /\ labelling' = [labelling EXCEPT ![t] = "done"]
    /\ UNCHANGED <<blocking, blocked>>

QuerySetting_ignored(t) ==
    /\ Queries(t) /\ blocking[t] = "setting"
    /\ blocking' = [blocking EXCEPT ![t] = "flags"]
    /\ UNCHANGED <<labelling, labels, blocked>>

\* isAutoBlockHighRiskEnabled
QuerySetting(t) ==
    /\ Queries(t) /\ blocking[t] = "setting"
    /\ blocking' = [blocking EXCEPT ![t] = IF autoBlock THEN "flags" ELSE "done"]
    /\ UNCHANGED <<labelling, labels, blocked>>

QueryBlocked(t) ==
    /\ Queries(t) /\ blocking[t] = "flags"
    /\ \E flags \in SpamFlags : blocked' = [blocked EXCEPT ![t] = Blockable(flags)]
    /\ blocking' = [blocking EXCEPT ![t] = "hide"]
    /\ UNCHANGED <<labelling, labels>>

\* getSuppressedSet for the blocked numbers
HideBlocked(t) ==
    /\ Queries(t) /\ blocking[t] = "hide"
    /\ blocked' = [blocked EXCEPT ![t] = @ \ suppressed]
    /\ blocking' = [blocking EXCEPT ![t] = "done"]
    /\ UNCHANGED <<labelling, labels>>

ExportOver(t) ==
    /\ labelling' = [labelling EXCEPT ![t] = "none"]
    /\ labels' = [labels EXCEPT ![t] = NoLabels]
    /\ blocking' = [blocking EXCEPT ![t] = "none"]
    /\ blocked' = [blocked EXCEPT ![t] = {}]

SaveSnapshot_keepsExport(t) ==
    /\ pc[t] = "export" /\ labelling[t] = "done" /\ blocking[t] = "done"
    /\ saved' = [labels |-> labels[t], blocked |-> blocked[t]]
    /\ Goto(t, "reload")
    /\ UNCHANGED <<serverVars, change, exportVars, installed, screenVars,
                   stray, actions, failures, enabled, alone, settled>>

\* The response arrives and is written to the snapshot file, whatever other
\* responses were written meanwhile.
SaveSnapshot(t) ==
    /\ pc[t] = "export" /\ labelling[t] = "done" /\ blocking[t] = "done"
    /\ saved' = [labels |-> labels[t], blocked |-> blocked[t]]
    /\ ExportOver(t)
    /\ Goto(t, "reload")
    /\ UNCHANGED <<serverVars, change, installed, screenVars, stray, actions, failures,
                   enabled, alone, settled>>

\* reloadExtension: the extension loads the file as it is by then.
Reload(t) ==
    /\ pc[t] = "reload"
    /\ installed' = saved
    /\ Goto(t, "idle")
    /\ change' = [change EXCEPT ![t] = NoChange]
    /\ settled' = (settled \/ t \in alone)
    /\ alone' = alone \ {t}
    /\ onScreen' = onScreen \ {t}
    /\ UNCHANGED <<serverVars, exportVars, saved, known, marks, switch,
                   loading, answer, stray, actions, failures, enabled>>

\* A request or its reply is lost or late, or saving or reloading fails: the
\* error is shown, the rest of the task does not happen.  A change that was
\* not executed by then may be executed later, or never.
TaskFails(t) ==
    /\ pc[t] # "idle" /\ failures < MaxFailures
    /\ failures' = failures + 1
    /\ ExportOver(t)
    /\ Goto(t, "idle")
    /\ change' = [change EXCEPT ![t] = NoChange]
    /\ alone' = alone \ {t}
    /\ onScreen' = onScreen \ {t}
    /\ stray' = IF pc[t] # "request" THEN stray
                ELSE stray \cup {[failure |-> failures', change |-> change[t]]}
    /\ UNCHANGED <<serverVars, saved, installed, known, marks, switch,
                   loading, answer, actions, enabled, settled>>

TaskStep(t) ==
    \/ Handle(t) \/ Reply(t)
    \/ QueryLabels(t) \/ HideLabels(t)
    \/ QuerySetting(t) \/ QueryBlocked(t) \/ HideBlocked(t)
    \/ SaveSnapshot(t) \/ Reload(t)

-----------------------------------------------------------------------------
\* Someone reports a number.
ReportArrives ==
    /\ \E p \in Phones, c \in Categories, who \in Reporters \cup {Anonymous} :
            Submit(p, c, who)
    /\ UNCHANGED <<suppressed, autoBlock, ownVars, saved, installed, screenVars,
                   stray, actions, failures, enabled, alone, settled>>

\* "or periodically in the background" (CallDirectoryHandler.swift)
SystemLoadsExtension ==
    /\ installed # saved
    /\ installed' = saved
    /\ UNCHANGED <<serverVars, ownVars, saved, screenVars, stray, actions, failures,
                   enabled, alone, settled>>

Next ==
    \/ \E t \in Tasks :
        \/ PressSync(t) \/ FlickSwitch(t) \/ TaskStep(t) \/ TaskFails(t)
        \/ \E p \in Phones : FlickNumber(t, p)
    \/ OpenSettings \/ LoadStep \/ LoadFails
    \/ HandleStray \/ ReportArrives \/ SystemLoadsExtension

Spec == Init /\ [][Next]_syncVars

-----------------------------------------------------------------------------
(* Properties.                                                             *)

\* appSettings.ts: "a false-positive report shouldn't silently drop a real
\* call until the owner opts in".  No snapshot blocks a number before the
\* owner has asked for it, whatever is reported and however tasks overlap.
BlockingNeedsOptIn == saved.blocked \cup installed.blocked # {} => enabled

\* README.md: ">=10 distinct reporters AND SCAM as the top category".  Every
\* number the device blocks met both halves of the rule at one moment, by all
\* the reports about it there were by then, however late the device acts on it.
BlockedByTheRule == WithinTheRule(saved.blocked \cup installed.blocked)

\* SettingsView.swift promises the owner that only numbers reported as SCAM by
\* at least ten people are blocked (violated: reporters of every category count).
BlockedAsPromised ==
    \A p \in saved.blocked \cup installed.blocked : ManyReporters(Scam(About(p)))

\* Does a snapshot honour what the owner has set?  "An owner's suppression
\* override always wins over auto-blocking too" (README.md).
Honours(s) ==
    /\ (DOMAIN s.labels \cup s.blocked) \cap suppressed = {}
    /\ s.blocked # {} => autoBlock

\* One undisturbed task repairs everything: after it the extension honours
\* the settings, whatever failed or overlapped before, until the next change,
\* an old request the API executes late being one too.
SettledDeviceHonours == settled => Honours(installed)
=============================================================================
