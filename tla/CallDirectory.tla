---------------------------- MODULE CallDirectory ----------------------------
(***************************************************************************)
(* What the API keeps for the phone's owner and what it makes of it: spam  *)
(* reports (spamReports.ts), suppressed numbers (labelSuppressions.ts),    *)
(* the auto-block switch (appSettings.ts), and the labels and blocked      *)
(* numbers of the call-directory export (callDirectoryExport.ts).          *)
(*                                                                         *)
(* A number is a model value; a label is one of its four kinds.  The       *)
(* identities aggregation has found are fixed here.                        *)
(***************************************************************************)
EXTENDS Naturals, FiniteSets

CONSTANTS
    Phones,         \* numbers that may be reported
    Callable,       \* those of type MOBILE or LANDLINE
    Identified,     \* callable ones with an identity from a HIGH-trust source
    Categories,     \* spam_report_category
    Reporters,      \* values of reporter_ref
    Anonymous,      \* a report without reporter_ref
    High,           \* distinct reporters of risk level HIGH (10)
    EarlierReports, \* spam_reports at the start
    MaxReports      \* bound on spam_reports

Report == [id : Nat, phone : Phones, category : Categories,
           reporter : Reporters \cup {Anonymous}]

ASSUME CallDirectoryConstantsOK ==
    /\ Callable \subseteq Phones /\ Identified \subseteq Callable
    /\ "SCAM" \in Categories
    /\ Anonymous \notin Reporters /\ Reporters \cap Nat = {}
    /\ EarlierReports \subseteq Report /\ IsFiniteSet(EarlierReports)
    /\ \A r \in EarlierReports : r.id \in 1..Cardinality(EarlierReports)
    /\ \A r, q \in EarlierReports : r.id = q.id => r = q
    /\ High \in Nat \ {0} /\ MaxReports \in Nat

VARIABLES
    reports,     \* the table spam_reports
    suppressed,  \* the table label_suppressions
    autoBlock    \* app_settings.auto_block_high_risk

serverVars == <<reports, suppressed, autoBlock>>

ServerTypeOK ==
    /\ reports \subseteq Report
    /\ suppressed \subseteq Phones
    /\ autoBlock \in BOOLEAN

ServerInit ==
    /\ reports = EarlierReports
    /\ suppressed = {}
    /\ autoBlock = FALSE

-----------------------------------------------------------------------------
(* The writes, one statement each.  Operators named <Definition>_<fault>   *)
(* are mutated forms of the definition that follows; no specification uses *)
(* them.                                                                   *)

\* submitSpamReport
Submit(p, c, who) ==
    /\ Cardinality(reports) < MaxReports
    /\ reports' = reports \cup {[id |-> Cardinality(reports) + 1, phone |-> p,
                                 category |-> c, reporter |-> who]}

\* suppressNumber's upsert, unsuppressNumber's DELETE
Suppress(p, on) ==
    suppressed' = IF on THEN suppressed \cup {p} ELSE suppressed \ {p}

-----------------------------------------------------------------------------
(* The reads.                                                              *)

About(p) == {r \in reports : r.phone = p}

ReporterKey_perReport(r) == r.id

\* COALESCE(reporter_ref, id::text)
ReporterKey(r) == IF r.reporter = Anonymous THEN r.id ELSE r.reporter

DistinctReporters(p) == Cardinality({ReporterKey(r) : r \in About(p)})

CategoryCount(p, c) == Cardinality({r \in About(p) : r.category = c})

\* The categories that may come out on top: the loop keeps the first one with
\* the largest count, and SQL orders equal ones as it likes.
Leading(p) ==
    {c \in Categories : /\ CategoryCount(p, c) > 0
                        /\ \A d \in Categories : CategoryCount(p, d) <= CategoryCount(p, c)}

Flagged == {p \in Phones : About(p) # {}}

\* The answers getSpamFlags may give now.
SpamFlags ==
    {[p \in Flagged |-> [high |-> DistinctReporters(p) >= High, top |-> top[p]]] :
        top \in {f \in [Flagged -> Categories] : \A p \in Flagged : f[p] \in Leading(p)}}

SpamLabel(flag) == IF flag.top = "SCAM" THEN "scam" ELSE "spam"

LabelOf(p, flags) ==
    IF p \notin DOMAIN flags THEN "name"
    ELSE IF p \in Identified /\ ~flags[p].high THEN "warned name"
    ELSE SpamLabel(flags[p])

\* getCallDirectoryEntries before the suppressed numbers are dropped.
Labelled(flags) ==
    [p \in Identified \cup (DOMAIN flags \cap Callable) |-> LabelOf(p, flags)]

\* getBlockedDigits before the suppressed numbers are dropped.
Blockable(flags) ==
    {p \in DOMAIN flags \cap Callable : flags[p].high /\ flags[p].top = "SCAM"}

-----------------------------------------------------------------------------
(* Properties of what a response, and hence a device, may hold.            *)

\* As many as High of them come from different people, as far as can be told:
\* no two carry the same reporter_ref.
ManyReporters(R) ==
    \E S \in SUBSET R :
        /\ Cardinality(S) >= High
        /\ \A r, q \in S : r # q => r.reporter # q.reporter \/ r.reporter = Anonymous

Scam(R) == {r \in R : r.category = "SCAM"}

ScamLeads(R) ==
    \A c \in Categories : Cardinality({r \in R : r.category = c}) <= Cardinality(Scam(R))

\* The first n reports there have been, those about p.
Earliest(n, p) == {r \in About(p) : r.id <= n}

\* README.md: ">=10 distinct reporters AND SCAM as the top category".  The rule
\* has held for every number of S, of all the reports there were at some time.
WithinTheRule(S) ==
    /\ S \subseteq Callable
    /\ \A p \in S : \E n \in 0..Cardinality(reports) :
            ManyReporters(Earliest(n, p)) /\ ScamLeads(Earliest(n, p))
=============================================================================
