---------------------------- MODULE CallLogPage ----------------------------
(***************************************************************************)
(* The call-log tab of app.js beside the API's callLog.ts: calls typed     *)
(* line by line, their import, and the tables of callers and of unknown    *)
(* callers.  A line is one call the owner wants recorded once, and all     *)
(* lines lie in the dates of the summary form.  They are typed in their    *)
(* order, once each: the set of its lines stands for a text.               *)
(***************************************************************************)
EXTENDS LookupPage

CONSTANTS
    Scrawls,    \* numbers without a normalized form, grouped as written
    Caller,     \* the numbers of the lines the owner types, in that order
    Readable    \* the lines parseCallLogLine reads

Lines == DOMAIN Caller

ASSUME CallLogConstantsOK ==
    /\ Caller \in Seq(Phones \cup Scrawls) /\ Phones \cap Scrawls = {}
    /\ Readable \subseteq Lines

VARIABLES
    rows,          \* personal_call_logs: line -> rows inserted for it
    text,          \* the lines in callEntriesInput
    imports,       \* POST /call-logs/import under way
    importStatus,
    summaries,     \* GET /call-logs/summary under way
    summaryTable,  \* what summaryTableWrap holds
    summaryLast,
    unknowns,      \* GET /call-logs/unknown under way
    unknownTable,  \* what unknownTableWrap holds
    unknownLast,
    typed,         \* lines typed so far
    hasty,         \* history: typed while an import was under way
    sends,         \* history: line -> times sent while not yet confirmed
    confirmed      \* history: lines of imports the page said were saved

tableVars == <<summaries, summaryTable, summaryLast, unknowns, unknownTable, unknownLast>>
importVars == <<rows, text, imports, importStatus, typed, hasty, sends, confirmed>>
callLogVars == <<importVars, tableVars>>

Summaries == [entries : SUBSET [number : Phones \cup Scrawls, calls : Nat, known : BOOLEAN]]
Unknowns == [entries : SUBSET [number : Phones \cup Scrawls, calls : Nat]]

\* An error text is not taken for a table.
ASSUME RefusedIsNoTable == Refused \notin Summaries \cup Unknowns

CallLogTypeOK ==
    /\ rows \in [Lines -> Nat] /\ text \subseteq typed
    /\ imports \in Seq([ask : SUBSET Readable, left : SUBSET Readable, heard : BOOLEAN])
    /\ importStatus \in {"hidden", "loading", "saved", "error"}
    /\ summaries \in Requests({None}, Summaries)
    /\ unknowns \in Requests({None}, Unknowns)
    /\ summaryTable \in {None, NoAnswer, Refused} \cup Summaries
    /\ unknownTable \in {None, NoAnswer, Refused} \cup Unknowns
    /\ {summaryLast, unknownLast} \subseteq BOOLEAN
    /\ typed \subseteq Lines /\ hasty \subseteq typed /\ confirmed \subseteq typed
    /\ sends \in [Lines -> Nat]

CallLogInit ==
    /\ rows = [l \in Lines |-> 0] /\ text = {} /\ imports = <<>>
    /\ importStatus = "hidden"
    /\ summaries = <<>> /\ summaryTable = None /\ summaryLast = TRUE
    /\ unknowns = <<>> /\ unknownTable = None /\ unknownLast = TRUE
    /\ typed = {} /\ hasty = {} /\ confirmed = {} /\ sends = [l \in Lines |-> 0]

-----------------------------------------------------------------------------
(* The API.                                                                *)

Callers == {Caller[l] : l \in {m \in Lines : rows[m] > 0}}

\* An identity that is not REJECTED; NULL matches no number.
Known(n) == n \in Phones /\ directory[n] = "named"

CallsOf(n) ==
    Cardinality(UNION {{l} \X (1..rows[l]) : l \in {m \in Lines : Caller[m] = n}})

\* getCallLogSummary
CallLogSummary ==
    [entries |-> {[number |-> n, calls |-> CallsOf(n), known |-> Known(n)] : n \in Callers}]

\* getUnknownNumbers
UnknownNumbers ==
    [entries |-> {[number |-> n, calls |-> CallsOf(n)] : n \in {m \in Callers : ~Known(m)}}]

\* importCallLogEntries: one entry, one statement.  (The name it looks up for
\* the reply is only counted there.)
InsertEntry(i) ==
    /\ \E l \in imports[i].left :
            /\ \A m \in imports[i].left : l <= m
            /\ rows' = [rows EXCEPT ![l] = @ + 1]
            /\ imports' = [imports EXCEPT ![i].left = @ \ {l}]
    /\ UNCHANGED <<browserVars, lookupVars, text, importStatus, typed, hasty,
                   sends, confirmed, tableVars>>

AnswerTables ==
    /\ \/ \E i \in DOMAIN summaries :
            /\ summaries[i].answer = NoAnswer
            /\ summaries' = Answered(summaries, i, CallLogSummary)
            /\ UNCHANGED unknowns
       \/ \E i \in DOMAIN unknowns :
            /\ unknowns[i].answer = NoAnswer
            /\ unknowns' = Answered(unknowns, i, UnknownNumbers)
            /\ UNCHANGED summaries
    /\ UNCHANGED <<browserVars, lookupVars, importVars, summaryTable, summaryLast,
                   unknownTable, unknownLast>>

-----------------------------------------------------------------------------
(* The tables.                                                             *)

\* loadSummary and loadUnknown up to their awaits: "Dang tai" is NoAnswer.
LoadTables ==
    /\ Room(summaries) /\ Room(unknowns)
    /\ summaries' = Sent(summaries, None) /\ summaryTable' = NoAnswer
    /\ unknowns' = Sent(unknowns, None) /\ unknownTable' = NoAnswer
    /\ UNCHANGED <<summaryLast, unknownLast>>

DeliverSummary(i, table) ==
    /\ summaries' = Taken(summaries, i)
    /\ summaryTable' = table /\ summaryLast' = IsLast(summaries, i)
    /\ UNCHANGED <<lookupVars, importVars, unknowns, unknownTable, unknownLast>>

DeliverUnknown(i, table) ==
    /\ unknowns' = Taken(unknowns, i)
    /\ unknownTable' = table /\ unknownLast' = IsLast(unknowns, i)
    /\ UNCHANGED <<lookupVars, importVars, summaries, summaryTable, summaryLast>>

ReceiveTables ==
    \/ \E i \in DOMAIN summaries :
            /\ summaries[i].answer # NoAnswer
            /\ DeliverSummary(i, summaries[i].answer) /\ UNCHANGED browserVars
    \/ \E i \in DOMAIN unknowns :
            /\ unknowns[i].answer # NoAnswer
            /\ DeliverUnknown(i, unknowns[i].answer) /\ UNCHANGED browserVars

LoseTable_uncaught ==
    \/ \E i \in DOMAIN summaries : DeliverSummary(i, summaryTable) /\ Loss
    \/ \E i \in DOMAIN unknowns : DeliverUnknown(i, Refused) /\ Loss

\* A response that is not ok has no entries to render: Refused is the error text.
LoseTable ==
    \/ \E i \in DOMAIN summaries : DeliverSummary(i, Refused) /\ Loss
    \/ \E i \in DOMAIN unknowns : DeliverUnknown(i, Refused) /\ Loss

\* The summary form's button.
SubmitSummary ==
    /\ Gesture("calllog") /\ Room(summaries)
    /\ summaries' = Sent(summaries, None) /\ summaryTable' = NoAnswer
    /\ UNCHANGED <<lookupVars, importVars, summaryLast, unknowns, unknownTable, unknownLast>>

-----------------------------------------------------------------------------
(* The import form.                                                        *)

TypeLine ==
    /\ tab = "calllog"
    /\ \E l \in Lines \ typed :
            /\ typed = 1..(l - 1)
            /\ text' = text \cup {l} /\ typed' = typed \cup {l}
            /\ hasty' = IF \E i \in DOMAIN imports : imports[i].heard
                        THEN hasty \cup {l} ELSE hasty
    /\ UNCHANGED <<browserVars, lookupVars, rows, imports, importStatus, sends,
                   confirmed, tableVars>>

\* The submit listener up to its await.  The button stays enabled.
SubmitImport ==
    /\ Gesture("calllog") /\ Room(imports)
    /\ LET entries == text \cap Readable IN
        IF entries = {}
        THEN importStatus' = "error" /\ UNCHANGED <<imports, sends>>
        ELSE /\ importStatus' = "loading"
             /\ imports' = Append(imports, [ask |-> entries, left |-> entries, heard |-> TRUE])
             /\ sends' = [l \in Lines |-> IF l \in entries \ confirmed
                                          THEN sends[l] + 1 ELSE sends[l]]
    /\ UNCHANGED <<lookupVars, rows, text, typed, hasty, confirmed, tableVars>>

DeliverImport_keepsText(i) ==
    /\ imports[i].heard /\ imports[i].left = {}
    /\ imports' = RemoveAt(imports, i)
    /\ importStatus' = "saved"
    /\ confirmed' = confirmed \cup imports[i].ask
    /\ LoadTables
    /\ UNCHANGED <<browserVars, lookupVars, rows, text, typed, hasty, sends>>

\* The reply: the text area is cleared, whatever was typed into it meanwhile.
DeliverImport(i) ==
    /\ imports[i].heard /\ imports[i].left = {}
    /\ imports' = RemoveAt(imports, i)
    /\ importStatus' = "saved" /\ text' = {}
    /\ confirmed' = confirmed \cup imports[i].ask
    /\ LoadTables
    /\ UNCHANGED <<browserVars, lookupVars, rows, typed, hasty, sends>>

\* A statement fails and the rest of the loop does not happen, or only the
\* connection is lost and the API goes on unheard.  The text stays.
LoseImport(i) ==
    /\ imports[i].heard /\ Loss
    /\ importStatus' = "error"
    /\ \/ imports' = RemoveAt(imports, i)
       \/ imports[i].left # {} /\ imports' = [imports EXCEPT ![i].heard = FALSE]
    /\ UNCHANGED <<lookupVars, rows, text, typed, hasty, sends, confirmed, tableVars>>

\* A handler that was not heard ends.
EndUnheard(i) ==
    /\ ~imports[i].heard /\ imports[i].left = {}
    /\ imports' = RemoveAt(imports, i)
    /\ UNCHANGED <<browserVars, lookupVars, rows, text, importStatus, typed, hasty,
                   sends, confirmed, tableVars>>

CallLogAnswers ==
    \/ \E i \in DOMAIN imports : InsertEntry(i) \/ DeliverImport(i) \/ EndUnheard(i)
    \/ AnswerTables \/ ReceiveTables

CallLogStep ==
    \/ TypeLine \/ SubmitImport \/ SubmitSummary
    \/ CallLogAnswers
    \/ LoseTable \/ \E i \in DOMAIN imports : LoseImport(i)

-----------------------------------------------------------------------------
(* Properties.                                                             *)

\* The import clears the text only once it is stored, and keeps it when it
\* fails: a readable call that was not typed while an import was under way is
\* in the text area or in the database.
TypedCallsKept ==
    \A l \in (typed \cap Readable) \ hasty : l \in text \/ rows[l] > 0

\* callLog.ts: resubmitting "just adds another row".  Every row of a call is
\* owed to a time the owner sent it without knowing it was saved: after
\* "saved" it is never sent again, whatever fails or overlaps.
RowsOwedToSends == \A l \in Lines : rows[l] <= sends[l]

\* The tables are two responses of two moments.  At rest, a call the page said
\* was saved is in the summary, and its number is listed as unknown or has an
\* identity by now: none falls between the tables.
ConfirmedCallsListed ==
    summaries = <<>> /\ unknowns = <<>> /\ summaryLast /\ unknownLast
        /\ summaryTable \in Summaries /\ unknownTable \in Unknowns
    => \A l \in confirmed :
        /\ \E row \in summaryTable.entries : row.number = Caller[l]
        /\ Known(Caller[l]) \/ \E row \in unknownTable.entries : row.number = Caller[l]

\* No call of the owner is lost, doubled behind the owner's back, or missing
\* from both tables once the page has said that it was saved.
CallsKept == TypedCallsKept /\ RowsOwedToSends /\ ConfirmedCallsListed
=============================================================================
