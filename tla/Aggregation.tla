----------------------------- MODULE Aggregation -----------------------------
(***************************************************************************)
(* The tables phone_numbers, phone_identities and phone_identity_evidence  *)
(* under runAggregation (aggregation.ts: one SELECT, then a statement per  *)
(* number, identity and link) and importUserConfirmedIdentities            *)
(* (userConfirmedIdentity.ts: six statements per entry).  Neither runs in  *)
(* a transaction, so every statement is an action and a crash may come     *)
(* between any two.  What arrives while a run is under way arrives through *)
(* the imports; what was crawled is there from the start.                  *)
(***************************************************************************)
EXTENDS IdentityRules

CONSTANTS
    Crawled,      \* phone_observations extraction has committed, each with
                  \* its upsert of phone_numbers
    Requests,     \* POST /identities/user-confirmed requests
    Entries,      \* request -> its entries: the observation each will add
    Submitted,    \* entry -> [name, category] as the owner typed them
    About,        \* observation -> ObservationRow
    Timer,        \* the runs aggregation.timer starts, one after the other
    Manual,       \* npm run aggregate typed by hand
    UserSource,   \* the source "Nguoi dung tu xac nhan"
    None,
    MaxManual,    \* bound on runs by hand
    Mortal,       \* the runs and requests that crashes are tried on
    MaxCrashes    \* bound on crashes

Typed == UNION {{Entries[r][i] : i \in DOMAIN Entries[r]} : r \in Requests}
Observations == Crawled \cup Typed
Aggregators  == Timer \cup Manual
Claims == {"rule_based_aggregation_v1", "user_confirmed_v1"}
Keys   == [phone : Phones, name : Names, claim : Claims]

IdentityRow == [evidenceCount : Nat, confidence : 0..100,
                category : Categories \cup {NoCategory},
                status : {"CANDIDATE", "CONFIRMED", "REJECTED"}]

ASSUME AggregationConstantsOK ==
    /\ IsFiniteSet(Observations) /\ Crawled \cap Typed = {}
    /\ Timer \cap Manual = {}
    /\ UserSource \in Sources
    /\ Entries \in [Requests -> Seq(Observations)]
    /\ \A r, q \in Requests : \A i \in DOMAIN Entries[r], j \in DOMAIN Entries[q] :
            Entries[r][i] = Entries[q][j] => r = q /\ i = j
    /\ About \in [Observations -> ObservationRow]
    /\ \A e \in Typed : /\ About[e].source = UserSource /\ About[e].high
                        /\ About[e].company = NoCompany /\ ~About[e].official
    /\ Submitted \in [Typed -> [name : Companies, category : Categories \cup {NoCategory}]]
    /\ None \notin Phones \cup Names \cup IdentityRow
    /\ MaxManual \in Nat /\ MaxCrashes \in Nat

VARIABLES
    sourceKnown, \* does data_sources hold UserSource?
    observed,    \* phone_observations
    counted,     \* phone_numbers: observation_count, 0 for a missing row
    identity,    \* phone_identities: key -> row or None
    evidence,    \* phone_identity_evidence: pairs of key and observation
    agg,         \* aggregator -> the run's local variables
    req,         \* request -> where its loop is
    manualRuns, crashes,
    torn,        \* history: entries a crash cut short, and before what
    settled      \* history: has a run gone undisturbed since the last
                 \* observation or number arrived?

tables == <<sourceKnown, observed, counted, identity, evidence>>
vars   == <<tables, agg, req, manualRuns, crashes, torn, settled>>

\* rows: what the SELECT returned.  phones, names, links: what the three
\* nested loops have left.  alone: history, has nobody else written?
Run == [pc : {"idle", "phones", "names", "links"},
        rows : SUBSET Observations, phones : SUBSET Phones,
        phone : Phones \cup {None}, names : SUBSET Names,
        name : Names \cup {None}, links : SUBSET Observations, alone : BOOLEAN]

NoRun == [pc |-> "idle", rows |-> {}, phones |-> {}, phone |-> None,
          names |-> {}, name |-> None, links |-> {}, alone |-> FALSE]

\* the statements of an entry after the first
Stages == {"number", "identity", "evidence", "recount"}

TypeOK ==
    /\ sourceKnown \in BOOLEAN
    /\ observed \subseteq Observations
    /\ counted \in [Phones -> Nat]
    /\ identity \in [Keys -> IdentityRow \cup {None}]
    /\ evidence \subseteq Keys \X Observations
    /\ agg \in [Aggregators -> Run]
    /\ req \in [Requests -> [pc : Stages \cup {"new", "source", "entry", "done",
                                              "refused", "dead"},
                             at : Nat]]
    /\ manualRuns \in 0..MaxManual /\ crashes \in 0..MaxCrashes
    /\ torn \subseteq Typed \X Stages /\ settled \in BOOLEAN

Init ==
    /\ sourceKnown = FALSE /\ observed = Crawled /\ evidence = {}
    /\ counted = [p \in Phones |-> Cardinality({o \in Crawled : About[o].phone = p})]
    /\ identity = [k \in Keys |-> None]
    /\ agg = [a \in Aggregators |-> NoRun]
    /\ req = [r \in Requests |-> [pc |-> "new", at |-> 1]]
    /\ manualRuns = 0 /\ crashes = 0
    /\ torn = {} /\ settled = FALSE

-----------------------------------------------------------------------------
(* Operators named <Definition>_<fault> are mutated forms of the           *)
(* definition that follows; no specification uses them.                    *)

RuleKey_unversioned(p, n) ==
    [phone |-> p, name |-> n, claim |-> "user_confirmed_v1"]

RuleKey(p, n) == [phone |-> p, name |-> n, claim |-> "rule_based_aggregation_v1"]

UserKey(e) == [phone |-> About[e].phone, name |-> NameKey[Submitted[e].name],
               claim |-> "user_confirmed_v1"]

\* the observations of one candidate
Members(rows, p, n) == {o \in rows : About[o].phone = p /\ GuessName(About[o]) = n}

NamesOf(rows, p) == {GuessName(About[o]) : o \in {q \in rows : About[q].phone = p}}

Active == {a \in Aggregators : agg[a].pc # "idle"}

\* New data: what any run under way has read, or what was settled, is old.
Arrives ==
    /\ agg' = [a \in Aggregators |-> [agg[a] EXCEPT !.alone = FALSE]]
    /\ settled' = FALSE

-----------------------------------------------------------------------------
(* runAggregation.                                                         *)

\* the WHERE clause and the grouping by phone
Select == {o \in observed : About[o].phone # NoPhone}

StartRun(a) ==
    /\ agg[a].pc = "idle"
    /\ IF a \in Timer THEN UNCHANGED manualRuns
       ELSE manualRuns < MaxManual /\ manualRuns' = manualRuns + 1
    /\ agg' = [b \in Aggregators |->
                IF b = a THEN [NoRun EXCEPT !.pc = "phones", !.rows = Select,
                                   !.phones = {About[o].phone : o \in Select},
                                   !.alone = (Active = {})]
                ELSE [agg[b] EXCEPT !.alone = FALSE]]
    /\ UNCHANGED <<tables, req, crashes, torn, settled>>

\* The SELECT on phone_numbers; a number that has no row yet is skipped.
TakePhone(a, p) ==
    LET left == agg[a].phones \ {p} IN
    /\ agg[a].pc = "phones" /\ p \in agg[a].phones
    /\ agg' = [agg EXCEPT ![a] =
                IF counted[p] = 0 THEN [@ EXCEPT !.phones = left]
                ELSE [@ EXCEPT !.pc = "names", !.phones = left, !.phone = p,
                               !.names = NamesOf(agg[a].rows, p)]]
    /\ UNCHANGED <<tables, req, manualRuns, crashes, torn, settled>>

Upserted_countOnly(old, rows, category) ==
    IF old = None
    THEN [evidenceCount |-> Cardinality(rows), confidence |-> Score(rows, About),
          category |-> category, status |-> "CANDIDATE"]
    ELSE [old EXCEPT !.evidenceCount = Cardinality(rows)]

Upserted_increments(old, rows, category) ==
    IF old = None
    THEN [evidenceCount |-> Cardinality(rows), confidence |-> Score(rows, About),
          category |-> category, status |-> "CANDIDATE"]
    ELSE [old EXCEPT !.evidenceCount = @ + Cardinality(rows),
                     !.confidence = Score(rows, About)]

\* INSERT ... ON CONFLICT DO UPDATE.  A null category is passed as undefined,
\* which leaves the column out of the statement.
Upserted(old, rows, category) ==
    IF old = None
    THEN [evidenceCount |-> Cardinality(rows), confidence |-> Score(rows, About),
          category |-> category, status |-> "CANDIDATE"]
    ELSE [old EXCEPT !.evidenceCount = Cardinality(rows),
                     !.confidence = Score(rows, About),
                     !.category = IF category = NoCategory THEN old.category
                                 ELSE category]

\* Which observation is the candidate's first is open: the SELECT is unordered.
UpsertIdentity(a, n) ==
    /\ agg[a].pc = "names" /\ n \in agg[a].names
    /\ LET k == RuleKey(agg[a].phone, n)
           rows == Members(agg[a].rows, agg[a].phone, n)
       IN  /\ \E first \in rows :
                identity' = [identity EXCEPT ![k] =
                                Upserted(@, rows, GuessCategory(About[first]))]
           /\ agg' = [agg EXCEPT ![a] = [@ EXCEPT !.pc = "links", !.name = n,
                                         !.names = agg[a].names \ {n}, !.links = rows]]
    /\ UNCHANGED <<sourceKnown, observed, counted, evidence, req, manualRuns,
                   crashes, torn, settled>>

\* One INSERT ... ON CONFLICT DO NOTHING per observation, then the next
\* candidate or the next number.
LinkRule(a, o) ==
    /\ agg[a].pc = "links" /\ o \in agg[a].links
    /\ evidence' = evidence \cup {<<RuleKey(agg[a].phone, agg[a].name), o>>}
    /\ LET left == agg[a].links \ {o} IN
       agg' = [agg EXCEPT ![a] =
                IF left # {} THEN [@ EXCEPT !.links = left]
                ELSE IF agg[a].names # {}
                THEN [@ EXCEPT !.pc = "names", !.name = None, !.links = {}]
                ELSE [@ EXCEPT !.pc = "phones", !.phone = None, !.name = None, !.links = {}]]
    /\ UNCHANGED <<sourceKnown, observed, counted, identity, req, manualRuns,
                   crashes, torn, settled>>

FinishRun(a) ==
    /\ agg[a].pc = "phones" /\ agg[a].phones = {}
    /\ agg' = [agg EXCEPT ![a] = NoRun]
    /\ settled' = (settled \/ agg[a].alone)
    /\ UNCHANGED <<tables, req, manualRuns, crashes, torn>>

AggregatorStep(a) ==
    \/ StartRun(a)
    \/ \E p \in Phones : TakePhone(a, p)
    \/ \E n \in Names : UpsertIdentity(a, n)
    \/ \E o \in Observations : LinkRule(a, o)
    \/ FinishRun(a)

AggregatorCrashes(a) ==
    /\ a \in Mortal /\ agg[a].pc # "idle" /\ crashes < MaxCrashes
    /\ crashes' = crashes + 1
    /\ agg' = [agg EXCEPT ![a] = NoRun]
    /\ UNCHANGED <<tables, req, manualRuns, torn, settled>>

-----------------------------------------------------------------------------
(* importUserConfirmedIdentities.                                          *)

Entry(r) == Entries[r][req[r].at]

Goto(r, label) == req' = [req EXCEPT ![r].pc = label]

\* The route refuses an empty list; ensureUserSubmittedSource looks the
\* source up.
FindSource(r) ==
    /\ req[r].pc = "new"
    /\ Goto(r, IF Entries[r] = <<>> THEN "refused"
               ELSE IF sourceKnown THEN "entry" ELSE "source")
    /\ UNCHANGED <<tables, agg, manualRuns, crashes, torn, settled>>

\* Its INSERT; data_sources.name is unique.
InsertSource(r) ==
    /\ req[r].pc = "source"
    /\ Goto(r, IF sourceKnown THEN "refused" ELSE "entry")
    /\ sourceKnown' = TRUE
    /\ UNCHANGED <<observed, counted, identity, evidence, agg, manualRuns, crashes,
                   torn, settled>>

SkipEntry(r) ==
    /\ req[r].pc = "entry" /\ req[r].at \in DOMAIN Entries[r]
    /\ About[Entry(r)].phone = NoPhone
    /\ req' = [req EXCEPT ![r].at = @ + 1]
    /\ UNCHANGED <<tables, agg, manualRuns, crashes, torn, settled>>

\* Its raw_document, which nothing reads before the observation is there, and
\* the observation.
RecordObservation(r) ==
    /\ req[r].pc = "entry" /\ req[r].at \in DOMAIN Entries[r]
    /\ About[Entry(r)].phone # NoPhone
    /\ observed' = observed \cup {Entry(r)}
    /\ Goto(r, "number")
    /\ Arrives
    /\ UNCHANGED <<sourceKnown, counted, identity, evidence, manualRuns, crashes, torn>>

CountNumber(r) ==
    LET p == About[Entry(r)].phone IN
    /\ req[r].pc = "number"
    /\ counted' = [counted EXCEPT ![p] = @ + 1]
    /\ Goto(r, "identity")
    /\ IF counted[p] = 0 THEN Arrives ELSE UNCHANGED <<agg, settled>>
    /\ UNCHANGED <<sourceKnown, observed, identity, evidence, manualRuns, crashes, torn>>

ConfirmIdentity(r) ==
    LET e == Entry(r) IN
    /\ req[r].pc = "identity"
    /\ identity' = [identity EXCEPT ![UserKey(e)] =
            IF @ = None
            THEN [evidenceCount |-> 1, confidence |-> 95,
                  category |-> Submitted[e].category, status |-> "CONFIRMED"]
            ELSE [identity[UserKey(e)] EXCEPT !.category = Submitted[e].category]]
    /\ Goto(r, "evidence")
    /\ UNCHANGED <<sourceKnown, observed, counted, evidence, agg, manualRuns, crashes,
                   torn, settled>>

LinkConfirmed(r) ==
    /\ req[r].pc = "evidence"
    /\ evidence' = evidence \cup {<<UserKey(Entry(r)), Entry(r)>>}
    /\ Goto(r, "recount")
    /\ UNCHANGED <<sourceKnown, observed, counted, identity, agg, manualRuns, crashes,
                   torn, settled>>

Links(k) == {o \in Observations : <<k, o>> \in evidence}

Recounted_increments(k) == identity[k].evidenceCount + 1

\* SELECT count(*), "not a blind increment"
Recounted(k) == Cardinality(Links(k))

Recount(r) ==
    LET k == UserKey(Entry(r)) IN
    /\ req[r].pc = "recount"
    /\ identity' = [identity EXCEPT ![k].evidenceCount = Recounted(k)]
    /\ req' = [req EXCEPT ![r] = [pc |-> "entry", at |-> @.at + 1]]
    /\ torn' = {t \in torn : ~(t[2] \in {"evidence", "recount"} /\ UserKey(t[1]) = k)}
    /\ UNCHANGED <<sourceKnown, observed, counted, evidence, agg, manualRuns, crashes,
                   settled>>

Answer(r) ==
    /\ req[r].pc = "entry" /\ req[r].at \notin DOMAIN Entries[r]
    /\ Goto(r, "done")
    /\ UNCHANGED <<tables, agg, manualRuns, crashes, torn, settled>>

\* The server or its connection dies, or a statement fails.
RequestDies(r) ==
    /\ r \in Mortal /\ req[r].pc \in Stages /\ crashes < MaxCrashes
    /\ crashes' = crashes + 1
    /\ Goto(r, "dead")
    /\ torn' = IF req[r].pc \in Stages THEN torn \cup {<<Entry(r), req[r].pc>>} ELSE torn
    /\ UNCHANGED <<tables, agg, manualRuns, settled>>

RequestStep(r) ==
    \/ FindSource(r) \/ InsertSource(r) \/ SkipEntry(r) \/ RecordObservation(r)
    \/ CountNumber(r) \/ ConfirmIdentity(r) \/ LinkConfirmed(r) \/ Recount(r)
    \/ Answer(r) \/ RequestDies(r)

-----------------------------------------------------------------------------
Next ==
    \/ \E a \in Aggregators : AggregatorStep(a) \/ AggregatorCrashes(a)
    \/ \E r \in Requests : RequestStep(r)

Spec == Init /\ [][Next]_vars

-----------------------------------------------------------------------------
(* Properties.                                                             *)

FromOneSet(row, rows) ==
    row.evidenceCount = Cardinality(rows) /\ row.confidence = Score(rows, About)

\* The identities say what the observations of numbers with a row say.
Agrees(p, n) ==
    /\ identity[RuleKey(p, n)] # None
    /\ FromOneSet(identity[RuleKey(p, n)], Members(Select, p, n))
    /\ Links(RuleKey(p, n)) = Members(Select, p, n)

AllAgree ==
    \A p \in Phones : counted[p] > 0 => \A n \in NamesOf(Select, p) : Agrees(p, n)

\* One run that nobody disturbed brings every count, score and link in line
\* with the observations, and no later run takes them out of line again,
\* whether it overlaps others or dies half way, until data arrives
\* (docs/architecture.md:106, "converges to the same state").
SettledAgrees == settled => AllAgree

\* Count and score of an identity come from one set of its observations, even
\* while overlapping runs overwrite each other's rows from different snapshots.
CountAndScoreTogether ==
    \A p \in Phones, n \in Names :
        identity[RuleKey(p, n)] # None =>
            \E rows \in SUBSET Members(observed, p, n) :
                rows # {} /\ FromOneSet(identity[RuleKey(p, n)], rows)

\* Evidence is an observation of the identity's own number and name.
LinksTraceable ==
    \A k \in Keys : \A o \in Links(k) :
        /\ o \in observed /\ About[o].phone = k.phone /\ identity[k] # None
        /\ IF k.claim = "user_confirmed_v1" THEN o \in Typed /\ UserKey(o) = k
           ELSE GuessName(About[o]) = k.name

\* Categories rest on the text of an observation, and neither claim engine
\* touches the other's rows.
RowsTraceable ==
    \A k \in Keys : identity[k] # None =>
        IF k.claim = "user_confirmed_v1"
        THEN identity[k].confidence = 95 /\ identity[k].status = "CONFIRMED"
        ELSE /\ identity[k].status = "CANDIDATE"
             /\ \E o \in Members(observed, k.phone, k.name) :
                    GuessCategory(About[o]) = identity[k].category

\* Identities rest on observations of their own number and name, categories
\* on the text of one of these, and neither claim engine touches the other's
\* rows (docs/architecture.md:41 and 160).
ClaimsTraceable == LinksTraceable /\ RowsTraceable

\* An import is between ConfirmIdentity and Recount of this identity, or
\* died there.
AwaitsRecount(k) ==
    \/ \E r \in Requests :
            req[r].pc \in {"evidence", "recount"} /\ UserKey(Entry(r)) = k
    \/ \E t \in torn : t[2] \in {"evidence", "recount"} /\ UserKey(t[1]) = k

\* A confirmed identity's evidence_count is the number of its links unless an
\* import is between its statements or died there; the next import of the
\* same identity heals it (userConfirmedIdentity.ts:112).
ConfirmedCountsExact ==
    \A k \in Keys :
        k.claim = "user_confirmed_v1" /\ identity[k] # None /\ ~AwaitsRecount(k)
        => identity[k].evidenceCount = Cardinality(Links(k))

\* The import stands, or died, between RecordObservation and CountNumber.
Uncounted(o) ==
    \/ <<o, "number">> \in torn
    \/ \E r \in Requests : req[r].pc = "number" /\ Entry(r) = o

\* observation_count misses exactly the observations whose import stands, or
\* died, before its second statement.
ObservationsAccounted ==
    \A p \in Phones :
        counted[p] = Cardinality({o \in observed : About[o].phone = p /\ ~Uncounted(o)})

\* An import that dies leaves the entries before the one in hand complete, and
\* one refused leaves nothing.
EntriesWhole ==
    \A r \in Requests : \A i \in DOMAIN Entries[r] :
        LET e == Entries[r][i] IN
        IF req[r].pc = "refused" THEN e \notin observed
        ELSE i < req[r].at /\ About[e].phone # NoPhone =>
                /\ e \in observed /\ counted[About[e].phone] > 0
                /\ identity[UserKey(e)] # None /\ <<UserKey(e), e>> \in evidence

\* What an import of call-log entries leaves, finished, refused, under way or
\* dead, is accounted for: number counts, confirmed counts and whole entries.
ImportsAccounted ==
    TypeOK /\ ObservationsAccounted /\ ConfirmedCountsExact /\ EntriesWhole
=============================================================================
