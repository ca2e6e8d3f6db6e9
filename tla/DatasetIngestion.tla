-------------------------- MODULE DatasetIngestion --------------------------
(***************************************************************************)
(* Runs of ingest_dataset.py (dataset_service.py, row_processor.py) beside *)
(* runs of crawl_worker --normalize-only, which takes every raw document   *)
(* without observations, those of dataset rows included.                   *)
(*                                                                         *)
(* A row is two transactions: its document, then the observations of its   *)
(* phone columns, each followed by the upsert that counts its number and   *)
(* locks the number's row until the commit.                                *)
(***************************************************************************)
EXTENDS Naturals, Sequences, FiniteSets, FiniteSetsExt

CONSTANTS
    Ingestors,    \* ingest_dataset.py, one file at a time
    Normalizers,  \* crawl_worker --normalize-only
    Phones,       \* numbers with a normalized form
    Scrawl,       \* a cell whose number has none
    Blank,        \* an empty cell
    Rows,         \* file -> its rows -> the cells of its phone columns
    Columnless,   \* files whose headers name no phone column
    None,
    MaxRuns,      \* bound on runs of the two programs
    MaxCrashes    \* bound on crashes

Files == DOMAIN Rows
Procs == Ingestors \cup Normalizers

ASSUME DatasetConstantsOK ==
    /\ Ingestors \cap Normalizers = {} /\ None \notin Files
    /\ {Scrawl, Blank} \cap Phones = {}
    /\ \A f \in Files : Rows[f] \in Seq(Seq(Phones \cup {Scrawl, Blank}))
    /\ Columnless \subseteq Files
    /\ {MaxRuns, MaxCrashes} \subseteq Nat

VARIABLES
    status,     \* datasets, by checksum: file -> status
    processed,  \* datasets.processed_rows
    documents,  \* raw_documents, in the order they were committed
    counts,     \* phone_numbers.observation_count
    pc,         \* process -> where it is
    file,       \* ingestor -> the file it reads
    row,        \* ingestor -> rows_processed
    doc,        \* process -> the document in hand
    todo,       \* normalizer -> documents listed and not yet checked
    cell,       \* process -> the next cell of that document
    added,      \* process -> cells of it upserted and not yet committed
    runs, crashes,
    disturbed,  \* history: files not ingested by undisturbed runs alone
    raced       \* history: documents two processes had in hand at once

datasetVars == <<status, processed, documents, counts>>
procVars == <<pc, file, row, doc, todo, cell, added>>
vars == <<datasetVars, procVars, runs, crashes, disturbed, raced>>

\* loads, scans: committed passes of an ingestor, of a normalizer over it.
Document == [file : Files, row : Nat, loads : Nat, scans : Nat]

TypeOK ==
    /\ status \in [Files -> {"none", "PENDING", "SUCCESS", "FAILED"}]
    /\ processed \in [Files -> Nat] /\ documents \in Seq(Document)
    /\ counts \in [Phones -> Nat]
    /\ pc \in [Procs -> {"idle", "lookup", "insert", "columns", "row", "cells", "check"}]
    /\ file \in [Ingestors -> Files \cup {None}] /\ row \in [Ingestors -> Nat]
    /\ doc \in [Procs -> Nat] /\ cell \in [Procs -> Nat]
    /\ \A p \in Procs : (pc[p] = "cells") = (doc[p] \in DOMAIN documents)
    /\ todo \in [Normalizers -> SUBSET (DOMAIN documents)]
    /\ \A p \in Procs : pc[p] # "cells" => doc[p] = 0
    /\ added \in [Procs -> SUBSET Nat]
    /\ runs \in 0..MaxRuns /\ crashes \in 0..MaxCrashes
    /\ disturbed \subseteq Files /\ raced \subseteq DOMAIN documents

Init ==
    /\ status = [f \in Files |-> "none"] /\ processed = [f \in Files |-> 0]
    /\ documents = <<>> /\ counts = [p \in Phones |-> 0]
    /\ pc = [p \in Procs |-> "idle"] /\ file = [p \in Ingestors |-> None]
    /\ row = [p \in Ingestors |-> 0] /\ doc = [p \in Procs |-> 0]
    /\ todo = [n \in Normalizers |-> {}] /\ cell = [p \in Procs |-> 0]
    /\ added = [p \in Procs |-> {}]
    /\ runs = 0 /\ crashes = 0 /\ disturbed = {} /\ raced = {}

-----------------------------------------------------------------------------
Goto(p, label) == pc' = [pc EXCEPT ![p] = label]

Cells(d) == Rows[documents[d].file][documents[d].row]

Numbers(d) == {i \in DOMAIN Cells(d) : Cells(d)[i] \in Phones}

\* What an ingestor's pass inserts into phone_observations; the extractor
\* run by a normalizer finds the numbers only.
Noted(d) == {i \in DOMAIN Cells(d) : Cells(d)[i] # Blank}

\* The numbers p has upserted in its open transaction, whose rows it locks.
Upserted(p) == {Cells(doc[p])[i] : i \in added[p]}

\* observations_exist_for_document
Observed(d) ==
    \/ documents[d].loads > 0 /\ Noted(d) # {}
    \/ documents[d].scans > 0 /\ Numbers(d) # {}

\* The process ends; what it has not committed is rolled back.
Ends(p) ==
    /\ Goto(p, "idle")
    /\ file' = IF p \in Ingestors THEN [file EXCEPT ![p] = None] ELSE file
    /\ row' = IF p \in Ingestors THEN [row EXCEPT ![p] = 0] ELSE row
    /\ todo' = IF p \in Normalizers THEN [todo EXCEPT ![p] = {}] ELSE todo
    /\ doc' = [doc EXCEPT ![p] = 0] /\ cell' = [cell EXCEPT ![p] = 0]
    /\ added' = [added EXCEPT ![p] = {}]

\* d is in p's hand from now on.
TakesDocument(p, d) ==
    /\ Goto(p, "cells")
    /\ doc' = [doc EXCEPT ![p] = d] /\ cell' = [cell EXCEPT ![p] = 1]
    /\ raced' = IF \E q \in Procs \ {p} : doc[q] = d THEN raced \cup {d} ELSE raced

-----------------------------------------------------------------------------
(* ingest_dataset.                                                         *)

\* The file is validated, its source upserted and its checksum computed.
StartIngestion(p, f) ==
    /\ pc[p] = "idle" /\ runs < MaxRuns
    /\ runs' = runs + 1
    /\ Goto(p, "lookup")
    /\ file' = [file EXCEPT ![p] = f]
    /\ disturbed' = IF \E q \in Ingestors : file[q] = f THEN disturbed \cup {f}
                                                        ELSE disturbed
    /\ UNCHANGED <<datasetVars, row, doc, todo, cell, added, crashes, raced>>

LookUpDataset_anyStatus(p) ==
    /\ pc[p] = "lookup"
    /\ Goto(p, IF status[file[p]] = "none" THEN "insert" ELSE "columns")
    /\ UNCHANGED <<datasetVars, file, row, doc, todo, cell, added, runs, crashes,
                   disturbed, raced>>

\* insert_dataset's SELECT; a file that was ingested is skipped.
LookUpDataset(p) ==
    /\ pc[p] = "lookup"
    /\ \/ /\ status[file[p]] = "SUCCESS"
          /\ Ends(p)
       \/ /\ status[file[p]] # "SUCCESS"
          /\ Goto(p, IF status[file[p]] = "none" THEN "insert" ELSE "columns")
          /\ UNCHANGED <<file, row, doc, todo, cell, added>>
    /\ UNCHANGED <<datasetVars, runs, crashes, disturbed, raced>>

\* Its INSERT, which violates datasets_checksum_uq if another run was faster.
InsertDataset(p) ==
    /\ pc[p] = "insert"
    /\ \/ /\ status[file[p]] = "none"
          /\ status' = [status EXCEPT ![file[p]] = "PENDING"]
          /\ Goto(p, "columns")
          /\ UNCHANGED <<file, row, doc, todo, cell, added>>
       \/ /\ status[file[p]] # "none"
          /\ Ends(p) /\ UNCHANGED status
    /\ UNCHANGED <<processed, documents, counts, runs, crashes, disturbed, raced>>

FindColumns_resume(p) ==
    /\ pc[p] = "columns" /\ file[p] \notin Columnless
    /\ Goto(p, "row")
    /\ row' = [row EXCEPT ![p] =
            Max({0} \cup {documents[d].row :
                            d \in {e \in DOMAIN documents : documents[e].file = file[p]}})]
    /\ UNCHANGED <<datasetVars, file, doc, todo, cell, added, runs, crashes,
                   disturbed, raced>>

\* detect_phone_columns
FindColumns(p) ==
    /\ pc[p] = "columns"
    /\ \/ /\ file[p] \in Columnless
          /\ status' = [status EXCEPT ![file[p]] = "FAILED"]
          /\ processed' = [processed EXCEPT ![file[p]] = 0]
          /\ Ends(p)
       \/ /\ file[p] \notin Columnless
          /\ Goto(p, "row")
          /\ UNCHANGED <<status, processed, file, row, doc, todo, cell, added>>
    /\ UNCHANGED <<documents, counts, runs, crashes, disturbed, raced>>

\* process_row's first transaction
InsertDocument(p) ==
    /\ pc[p] = "row" /\ row[p] < Len(Rows[file[p]])
    /\ documents' = Append(documents,
            [file |-> file[p], row |-> row[p] + 1, loads |-> 0, scans |-> 0])
    /\ TakesDocument(p, Len(documents) + 1)
    /\ UNCHANGED <<status, processed, counts, file, row, todo, added, runs, crashes,
                   disturbed>>

\* Has another process locked the number's row?
Locked(p, phone) == \E q \in Procs \ {p} : phone \in Upserted(q)

Locked_ownToo(p, phone) == \E q \in Procs : phone \in Upserted(q)

ObserveCell_selfWait(p) ==
    /\ pc[p] = "cells" /\ cell[p] <= Len(Cells(doc[p]))
    /\ cell' = [cell EXCEPT ![p] = @ + 1]
    /\ LET c == Cells(doc[p])[cell[p]]
       IN  IF c \in Phones
           THEN ~Locked_ownToo(p, c) /\ added' = [added EXCEPT ![p] = @ \cup {cell[p]}]
           ELSE UNCHANGED added
    /\ UNCHANGED <<datasetVars, pc, file, row, doc, todo, runs, crashes,
                   disturbed, raced>>

\* insert_phone_observation and upsert_phone_number for one cell, or one
\* candidate: the upsert waits while the number's row is locked.
ObserveCell(p) ==
    /\ pc[p] = "cells" /\ cell[p] <= Len(Cells(doc[p]))
    /\ cell' = [cell EXCEPT ![p] = @ + 1]
    /\ LET c == Cells(doc[p])[cell[p]]
       IN  IF c \in Phones
           THEN ~Locked(p, c) /\ added' = [added EXCEPT ![p] = @ \cup {cell[p]}]
           ELSE UNCHANGED added
    /\ UNCHANGED <<datasetVars, pc, file, row, doc, todo, runs, crashes,
                   disturbed, raced>>

\* The commit at the end of process_row, of extract_and_store_observations
Commit(p) ==
    /\ pc[p] = "cells" /\ cell[p] > Len(Cells(doc[p]))
    /\ counts' = [q \in Phones |->
                    counts[q] + Cardinality({i \in added[p] : Cells(doc[p])[i] = q})]
    /\ documents' = IF p \in Ingestors THEN [documents EXCEPT ![doc[p]].loads = @ + 1]
                                       ELSE [documents EXCEPT ![doc[p]].scans = @ + 1]
    /\ row' = IF p \in Ingestors THEN [row EXCEPT ![p] = @ + 1] ELSE row
    /\ Goto(p, IF p \in Ingestors THEN "row" ELSE "check")
    /\ doc' = [doc EXCEPT ![p] = 0] /\ cell' = [cell EXCEPT ![p] = 0]
    /\ added' = [added EXCEPT ![p] = {}]
    /\ UNCHANGED <<status, processed, file, todo, runs, crashes, disturbed, raced>>

\* update_dataset_progress
FinishFile(p) ==
    /\ pc[p] = "row" /\ row[p] = Len(Rows[file[p]])
    /\ status' = [status EXCEPT ![file[p]] = "SUCCESS"]
    /\ processed' = [processed EXCEPT ![file[p]] = row[p]]
    /\ Ends(p)
    /\ UNCHANGED <<documents, counts, runs, crashes, disturbed, raced>>

-----------------------------------------------------------------------------
(* run_normalize_only.                                                     *)

ListUnprocessed(n) ==
    /\ pc[n] = "idle" /\ runs < MaxRuns
    /\ runs' = runs + 1
    /\ LET listed == {d \in DOMAIN documents : ~Observed(d)} IN
        /\ listed # {}
        /\ todo' = [todo EXCEPT ![n] = listed]
        /\ disturbed' = disturbed \cup
                {documents[d].file : d \in {e \in listed : Numbers(e) # {}}}
    /\ Goto(n, "check")
    /\ UNCHANGED <<datasetVars, file, row, doc, cell, added, crashes, raced>>

\* extract_and_store_observations checks each listed document again, in the
\* order of a SELECT without ORDER BY.
CheckListed(n) ==
    /\ pc[n] = "check"
    /\ \E d \in todo[n] :
        /\ todo' = [todo EXCEPT ![n] = @ \ {d}]
        /\ IF Observed(d) THEN UNCHANGED <<pc, doc, cell, raced>>
                          ELSE TakesDocument(n, d)
    /\ UNCHANGED <<datasetVars, file, row, added, runs, crashes, disturbed>>

FinishList(n) ==
    /\ pc[n] = "check" /\ todo[n] = {}
    /\ Goto(n, "idle")
    /\ UNCHANGED <<datasetVars, file, row, doc, todo, cell, added, runs, crashes,
                   disturbed, raced>>

-----------------------------------------------------------------------------
\* A run that dies leaves its file unfinished.
Dies(p) ==
    /\ disturbed' = IF p \in Ingestors THEN disturbed \cup {file[p]} ELSE disturbed
    /\ Ends(p)
    /\ UNCHANGED <<datasetVars, runs, raced>>

Crash(p) ==
    /\ pc[p] # "idle" /\ crashes < MaxCrashes
    /\ crashes' = crashes + 1
    /\ Dies(p)

\* The processes p's next upsert waits for.
WaitsFor(p) ==
    IF pc[p] = "cells" /\ cell[p] <= Len(Cells(doc[p]))
    THEN {q \in Procs \ {p} : Cells(doc[p])[cell[p]] \in Upserted(q)}
    ELSE {}

\* PostgreSQL aborts one transaction of a cycle; nothing catches the error.
DeadlockAborts(p) ==
    /\ \E S \in SUBSET Procs :
            p \in S /\ \A q \in S : WaitsFor(q) \cap S # {}
    /\ Dies(p)
    /\ UNCHANGED crashes

Step(p) ==
    \/ p \in Ingestors /\ (\/ LookUpDataset(p) \/ InsertDataset(p) \/ FindColumns(p)
                           \/ InsertDocument(p) \/ FinishFile(p))
    \/ p \in Normalizers /\ (CheckListed(p) \/ FinishList(p))
    \/ ObserveCell(p) \/ Commit(p)

Next ==
    \/ \E p \in Ingestors, f \in Files : StartIngestion(p, f)
    \/ \E n \in Normalizers : ListUnprocessed(n)
    \/ \E p \in Procs : Step(p) \/ DeadlockAborts(p) \/ Crash(p)

\* A run that has begun goes on, and PostgreSQL resolves deadlocks.
Fairness == \A p \in Procs : WF_vars(Step(p)) /\ WF_vars(DeadlockAborts(p))

Spec == Init /\ [][Next]_vars /\ Fairness

-----------------------------------------------------------------------------
(* Properties.                                                             *)

\* The committed observations of q: a cell of a document, by each pass over it.
Observations(q) ==
    UNION { {d} \X (1..(documents[d].loads + documents[d].scans))
                \X {i \in Numbers(d) : Cells(d)[i] = q} : d \in DOMAIN documents }

\* upsert_phone_number counts in the transaction that inserts: through every
\* crash, deadlock and overlap, observation_count is the number of
\* observations committed.
CountsMatch == \A q \in Phones : counts[q] = Cardinality(Observations(q))

\* A dataset marked SUCCESS has every row ingested whole, although runs that
\* crash leave documents without observations behind.
SuccessComplete ==
    \A f \in Files : status[f] = "SUCCESS" =>
        /\ processed[f] = Len(Rows[f])
        /\ \A r \in DOMAIN Rows[f] : \E d \in DOMAIN documents :
            documents[d].file = f /\ documents[d].row = r /\ documents[d].loads > 0

\* insert_dataset: "Idempotent on checksum".  A file no run of which died or
\* met another, and no row of which was met half-way by --normalize-only, is
\* stored exactly once however often it is ingested.
ExactUnlessDisturbed ==
    \A f \in Files \ disturbed : status[f] = "SUCCESS" =>
        \A r \in DOMAIN Rows[f] :
            LET D == {d \in DOMAIN documents : documents[d].file = f /\ documents[d].row = r}
            IN  Cardinality(D) = 1 /\ \A d \in D :
                    documents[d].loads = 1 /\ (Numbers(d) # {} => documents[d].scans = 0)

\* extract_and_store_observations: the list of a normalizer goes stale, and
\* the check of each document does not help against a row that is between its
\* two commits.  Only then are the numbers of a document observed twice.
DoublesNeedRace ==
    \A d \in DOMAIN documents :
        documents[d].loads + documents[d].scans > 1 /\ Numbers(d) # {} => d \in raced

\* Every run ends: upserts in opposite orders wait for each other only until
\* one of them is aborted.
EveryRunEnds == \A p \in Procs : pc[p] # "idle" ~> pc[p] = "idle"

\* The numbers' counts are those of committed observations and a SUCCESS means
\* every row, through crashes, deadlocks and overlapping runs.
StoredWhole == TypeOK /\ CountsMatch /\ SuccessComplete

\* No row is stored, and no number of a row observed, more often than once,
\* but where a run died, met another or raced --normalize-only for the row.
StoredOnce == ExactUnlessDisturbed /\ DoublesNeedRace
=============================================================================
