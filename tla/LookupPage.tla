----------------------------- MODULE LookupPage -----------------------------
(***************************************************************************)
(* The look-up tab of app.js beside the API: looking a number up           *)
(* (lookup.ts) and reporting it as spam (spamReports.ts).  What the page   *)
(* shows of a number is whether it has been observed and named, and its    *)
(* spam warning.                                                           *)
(***************************************************************************)
EXTENDS CallDirectory, Browser

CONSTANTS
    Garbage,     \* a query that has no normalized form
    Refused,     \* the answer to it
    Inserted,    \* a report that is in the table, but not yet summarised
    None,        \* no query yet, no number, nothing to show
    EarlierDirectories,  \* what aggregation may have committed at the start
    BrowserRef   \* phoneintel_reporter_ref in this browser's local storage

Progress == {"absent", "counted", "named"}

ASSUME LookupConstantsOK ==
    /\ BrowserRef \in Reporters /\ Garbage \notin Phones
    /\ EarlierDirectories \subseteq [Phones -> Progress]

VARIABLES
    directory,     \* number -> what aggregation has committed about it
    query,         \* the last query submitted
    lookups,       \* GET /phones/:phone under way
    lookupLast,    \* was the last look-up delivered the last one sent?
    status,        \* statusEl
    shown,         \* resultEl, None while it is hidden
    current,       \* currentLookupPhone
    form,          \* the number the report form was opened for, None if hidden
    banner,        \* spamBanner, None while it is hidden
    posts,         \* POST /spam-reports under way
    reportStatus,  \* spamReportStatus
    calm,          \* history: was no look-up under way when the last was sent?
    apart,         \* history: did no look-up and report overlap?
    acknowledged   \* history: numbers this page said it has reported

resultVars == <<shown, current, form, banner, reportStatus>>
lookupVars == <<serverVars, directory, query, lookups, lookupLast, status,
                resultVars, posts, calm, apart, acknowledged>>

Spam == [reporters : Nat, risk : {"NONE", "MEDIUM", "HIGH"}]
Asks == [phone : Phones \cup {Garbage}, due : BOOLEAN]

\* The answer to a look-up as far as lookupPhone has got with it.
SpamRead == [spam : Spam]
NumberRead == [spam : Spam, seen : BOOLEAN]
Found == [spam : Spam, seen : BOOLEAN, named : BOOLEAN]
Replies == {Refused} \cup SpamRead \cup NumberRead \cup Found

\* What resultEl and spamBanner hold.
Results == [phone : Phones, seen : BOOLEAN, named : BOOLEAN, due : BOOLEAN]
Banners == [phone : Phones, reporters : Nat, risk : {"MEDIUM", "HIGH"}]

\* An answer is not taken for another, nor a panel for a hidden one.
ASSUME SignsDiffer ==
    /\ \A sign \in {NoAnswer, Refused, Inserted} :
            sign \notin SpamRead \cup NumberRead \cup Found \cup Spam
    /\ NoAnswer \notin {Refused, Inserted}
    /\ None \notin Results \cup Banners

LookupTypeOK ==
    /\ ServerTypeOK
    /\ directory \in [Phones -> Progress]
    /\ query \in Phones \cup {Garbage, None}
    /\ lookups \in Requests(Asks, Replies)
    /\ status \in {"none", "loading", "empty", "error"}
    /\ shown \in {None} \cup Results
    /\ current \in Phones \cup {None} /\ form \in Phones \cup {None}
    /\ banner \in {None} \cup Banners
    /\ posts \in Requests(Phones, {Inserted} \cup Spam)
    /\ reportStatus \in {"hidden", "loading", "sent", "error"}
    /\ {lookupLast, calm, apart} \subseteq BOOLEAN /\ acknowledged \subseteq Phones

LookupInit ==
    /\ ServerInit
    /\ directory \in EarlierDirectories
    /\ query = None /\ lookups = <<>> /\ lookupLast = TRUE /\ status = "none"
    /\ shown = None /\ current = None /\ form = None /\ banner = None
    /\ posts = <<>> /\ reportStatus = "hidden"
    /\ calm = TRUE /\ apart = TRUE /\ acknowledged = {}

-----------------------------------------------------------------------------
(* The API.                                                                *)

\* computeRiskLevel
RiskLevel(n) == IF n >= High THEN "HIGH" ELSE IF n >= 1 THEN "MEDIUM" ELSE "NONE"

\* getSpamSummary, one statement
SpamSummary(p) ==
    [reporters |-> DistinctReporters(p), risk |-> RiskLevel(DistinctReporters(p))]

Reads(i, answer) ==
    /\ lookups' = Answered(lookups, i, answer)
    /\ UNCHANGED <<browserVars, serverVars, directory, query, lookupLast, status,
                   resultVars, posts, calm, apart, acknowledged>>

\* lookupPhone normalizes the query and reads the reports, ...
ReadSpam(i) ==
    /\ lookups[i].answer = NoAnswer
    /\ LET p == lookups[i].ask.phone
       IN  Reads(i, IF p = Garbage THEN Refused ELSE [spam |-> SpamSummary(p)])

\* ... then the number, which answers at once for one that has no row, ...
ReadNumber(i) ==
    /\ lookups[i].answer \in SpamRead
    /\ LET spam == lookups[i].answer.spam
       IN  Reads(i, IF directory[lookups[i].ask.phone] = "absent"
                    THEN [spam |-> spam, seen |-> FALSE, named |-> FALSE]
                    ELSE [spam |-> spam, seen |-> TRUE])

\* ... and its identities.  (The count of its sources is left out.)
ReadIdentities(i) ==
    /\ lookups[i].answer \in NumberRead
    /\ Reads(i, [spam |-> lookups[i].answer.spam, seen |-> TRUE,
                 named |-> directory[lookups[i].ask.phone] = "named"])

\* submitSpamReport, the INSERT ...
InsertReport(i) ==
    /\ posts[i].answer = NoAnswer
    /\ \E c \in Categories : Submit(posts[i].ask, c, BrowserRef)
    /\ posts' = Answered(posts, i, Inserted)
    /\ UNCHANGED <<browserVars, suppressed, autoBlock, directory, query, lookups,
                   lookupLast, status, resultVars, calm, apart, acknowledged>>

\* ... and the summary of its reply.
SummariseReport(i) ==
    /\ posts[i].answer = Inserted
    /\ posts' = Answered(posts, i, SpamSummary(posts[i].ask))
    /\ UNCHANGED <<browserVars, serverVars, directory, query, lookups, lookupLast,
                   status, resultVars, calm, apart, acknowledged>>

-----------------------------------------------------------------------------
(* The page.                                                               *)

SubmitLookup_keepsResult ==
    /\ Gesture("lookup") /\ Room(lookups)
    /\ \E p \in Phones \cup {Garbage} :
            /\ query' = p
            /\ lookups' = Sent(lookups, [phone |-> p, due |-> p \in acknowledged])
    /\ status' = "loading"
    /\ calm' = (lookups = <<>>) /\ apart' = (posts = <<>>)
    /\ UNCHANGED <<serverVars, directory, lookupLast, shown, current, form, banner,
                   posts, reportStatus, acknowledged>>

\* The form's submit listener and lookupPhone up to its await.
SubmitLookup ==
    /\ Gesture("lookup") /\ Room(lookups)
    /\ \E p \in Phones \cup {Garbage} :
            /\ query' = p
            /\ lookups' = Sent(lookups, [phone |-> p, due |-> p \in acknowledged])
    /\ status' = "loading" /\ shown' = None
    /\ calm' = (lookups = <<>>) /\ apart' = (posts = <<>>)
    /\ UNCHANGED <<serverVars, directory, lookupLast, current, form, banner,
                   posts, reportStatus, acknowledged>>

\* renderSpamBanner
SpamBanner(p, spam) ==
    IF spam.risk = "NONE" THEN None
    ELSE [phone |-> p, reporters |-> spam.reporters, risk |-> spam.risk]

RenderResult_keepsForm(ask, data) ==
    /\ shown' = [phone |-> ask.phone, seen |-> data.seen, named |-> data.named, due |-> ask.due]
    /\ current' = ask.phone
    /\ banner' = SpamBanner(ask.phone, data.spam)
    /\ reportStatus' = "hidden" /\ UNCHANGED form

RenderResult(ask, data) ==
    /\ shown' = [phone |-> ask.phone, seen |-> data.seen, named |-> data.named, due |-> ask.due]
    /\ current' = ask.phone
    /\ banner' = SpamBanner(ask.phone, data.spam)
    /\ form' = None /\ reportStatus' = "hidden"

LookupReturns(i) ==
    /\ lookups' = Taken(lookups, i)
    /\ lookupLast' = IsLast(lookups, i)
    /\ UNCHANGED <<serverVars, directory, query, posts, calm, apart, acknowledged>>

\* lookupPhone after its awaits: whatever reply arrives is rendered.
DeliverLookup(i) ==
    /\ LookupReturns(i) /\ UNCHANGED browserVars
    /\ LET data == lookups[i].answer IN
        \/ /\ data = Refused
           /\ status' = "error" /\ UNCHANGED resultVars
        \/ /\ data \in Found
           /\ status' = IF data.seen THEN "none" ELSE "empty"
           /\ RenderResult(lookups[i].ask, data)

LoseLookup(i) ==
    /\ LookupReturns(i) /\ Loss
    /\ status' = "error" /\ UNCHANGED resultVars

ToggleForm ==
    /\ tab = "lookup" /\ shown # None
    /\ form' = IF form = None THEN shown.phone ELSE None
    /\ UNCHANGED <<browserVars, serverVars, directory, query, lookups, lookupLast,
                   status, shown, current, banner, posts, reportStatus, calm,
                   apart, acknowledged>>

SubmitReport ==
    /\ Gesture("lookup") /\ Room(posts)
    /\ shown # None /\ form # None
    /\ posts' = Sent(posts, current)
    /\ reportStatus' = "loading"
    /\ apart' = (apart /\ lookups = <<>>)
    /\ UNCHANGED <<serverVars, directory, query, lookups, lookupLast, status,
                   shown, current, form, banner, calm, acknowledged>>

ReportReturns(i) ==
    /\ posts' = Taken(posts, i)
    /\ UNCHANGED <<serverVars, directory, query, lookups, lookupLast, status,
                   shown, current, calm, apart>>

\* The text is replaced; if a result has hidden it, it stays hidden.
ReportSays(what) == reportStatus' = IF reportStatus = "hidden" THEN "hidden" ELSE what

\* The banner becomes that of the reported number, whatever number is shown.
DeliverReport(i) ==
    /\ posts[i].answer \in Spam
    /\ ReportReturns(i) /\ UNCHANGED browserVars
    /\ banner' = SpamBanner(posts[i].ask, posts[i].answer)
    /\ form' = None /\ ReportSays("sent")
    /\ acknowledged' = acknowledged \cup {posts[i].ask}

\* Before or after the INSERT; the form keeps its text.
LoseReport(i) ==
    /\ ReportReturns(i) /\ Loss
    /\ ReportSays("error")
    /\ UNCHANGED <<form, banner, acknowledged>>

-----------------------------------------------------------------------------
\* Someone else reports a number; aggregation commits a number, then its name.
OtherReports ==
    /\ Event({"lookup"})
    /\ \E p \in Phones, c \in Categories, who \in (Reporters \ {BrowserRef}) \cup {Anonymous} :
            Submit(p, c, who)
    /\ UNCHANGED <<suppressed, autoBlock, directory, query, lookups, lookupLast,
                   status, resultVars, posts, calm, apart, acknowledged>>

Aggregate ==
    /\ Event({"lookup", "calllog"})
    /\ \E p \in Phones :
            /\ directory[p] # "named"
            /\ directory' = [directory EXCEPT ![p] =
                                IF @ = "absent" THEN "counted" ELSE "named"]
    /\ UNCHANGED <<serverVars, query, lookups, lookupLast, status, resultVars,
                   posts, calm, apart, acknowledged>>

LookupAnswers ==
    \/ \E i \in DOMAIN lookups :
            ReadSpam(i) \/ ReadNumber(i) \/ ReadIdentities(i) \/ DeliverLookup(i)
    \/ \E i \in DOMAIN posts :
            InsertReport(i) \/ SummariseReport(i) \/ DeliverReport(i)

LookupStep ==
    \/ SubmitLookup \/ ToggleForm \/ SubmitReport
    \/ LookupAnswers
    \/ \E i \in DOMAIN lookups : LoseLookup(i)
    \/ \E i \in DOMAIN posts : LoseReport(i)
    \/ OtherReports \/ Aggregate

-----------------------------------------------------------------------------
(* Properties.                                                             *)

\* app.js reports currentLookupPhone, a variable beside the page: whatever
\* order look-ups and reports are answered in, a form that can be submitted
\* was opened for the number on the screen and reports that number.
ReportsConcernShown ==
    shown # None /\ form # None => form = shown.phone /\ current = shown.phone

\* renderSpamBanner: unless a look-up and a report overlapped, a warning on
\* the screen is about the number on the screen.
BannerOfShown ==
    shown # None /\ banner # None /\ apart => banner.phone = shown.phone

\* spamReports.ts: "a single report already matters here and should surface
\* immediately".  A result looked up after the page has acknowledged a report
\* of the number carries a warning.
AcknowledgedWarns == shown # None => (shown.due => banner # None)

\* getReporterRef and COALESCE(reporter_ref, id): repeated, doubled and retried
\* reports of this browser add one to the people a warning speaks of.
BrowserCountsOnce ==
    banner # None =>
        banner.reporters <= 1 + Cardinality({r \in About(banner.phone) :
                                                r.reporter # BrowserRef})

\* lookupPhone has no guard against crossed replies.  Once no look-up is under
\* way and none was overtaken, what is shown answers the last query; if none
\* overlapped at all, an error stands alone and never beside an old result.
SettledLookupAnswers ==
    lookups = <<>> /\ lookupLast /\ query # None =>
        /\ status # "error" => shown # None /\ shown.phone = query
        /\ status = "error" /\ calm => shown = None

\* A warning appears as soon as this browser's report is acknowledged, and
\* this browser is one of the people it speaks of however often it reported.
WarningsHonest == AcknowledgedWarns /\ BrowserCountsOnce
=============================================================================
