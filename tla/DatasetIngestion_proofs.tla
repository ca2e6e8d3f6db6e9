---------------------- MODULE DatasetIngestion_proofs ----------------------
(***************************************************************************)
(* TLAPS proofs about the ingestion of datasets beside --normalize-only,   *)
(* for every set of processes, every set of files with any rows, and any   *)
(* numbers of runs and crashes.                                            *)
(***************************************************************************)
EXTENDS DatasetIngestion, Integers, FiniteSetTheorems, SequenceTheorems, TLAPS

\* An ingestor reads one file from its look-up on and has ingested the first
\* rows of it, whole; the document in its hand is the next row's and nobody
\* has loaded it.
ReadingOne(p) ==
    /\ pc[p] # "check"
    /\ file[p] = None <=> pc[p] = "idle"
    /\ pc[p] \notin {"row", "cells"} => row[p] = 0
    /\ pc[p] \in {"row", "cells"} => file[p] \notin Columnless
    /\ pc[p] = "row" => row[p] <= Len(Rows[file[p]])
    /\ pc[p] = "cells" =>
        /\ documents[doc[p]].file = file[p] /\ documents[doc[p]].row = row[p] + 1
        /\ documents[doc[p]].loads = 0

Reading == \A p \in Ingestors : ReadingOne(p)

\* Every document is of a row of its file, and no two ingestors hold one.
RowsExist ==
    /\ \A d \in DOMAIN documents : documents[d].row \in DOMAIN Rows[documents[d].file]
    /\ \A p, q \in Ingestors : pc[p] = "cells" /\ doc[p] = doc[q] => p = q
    /\ \A n \in Normalizers : pc[n] \in {"idle", "check", "cells"}

Loaded(f, r) ==
    \E d \in DOMAIN documents :
        documents[d].file = f /\ documents[d].row = r /\ documents[d].loads > 0

RowsLoaded ==
    /\ \A p \in Ingestors : file[p] # None => \A r \in 1..row[p] : Loaded(file[p], r)
    /\ \A f \in Files : status[f] = "SUCCESS" => f \notin Columnless

\* What is upserted and not committed: the numbers before the next cell.
AddedOne(p) ==
    IF pc[p] = "cells"
    THEN /\ cell[p] \in 1..(Len(Cells(doc[p])) + 1)
         /\ added[p] = {i \in Numbers(doc[p]) : i < cell[p]}
    ELSE added[p] = {}

AddedSoFar == \A p \in Procs : AddedOne(p)

HandInv == TypeOK /\ Reading /\ RowsExist /\ AddedSoFar

\* A document that no two processes had in hand at once was taken up with no
\* numbers observed, and observed once at most.
RacesSeen ==
    /\ \A d \in DOMAIN documents \ raced : \A p, q \in Procs :
        doc[p] = d /\ doc[q] = d => p = q
    /\ \A d \in DOMAIN documents \ raced : Numbers(d) # {} =>
        /\ documents[d].loads + documents[d].scans <= 1
        /\ \A p \in Procs : doc[p] = d => documents[d].loads + documents[d].scans = 0

DocumentsOf(f) == {d \in DOMAIN documents : documents[d].file = f}

\* Of a file whose runs never died or met: each row has one document, loaded
\* once unless it is in hand now, and out of the normalizers' sight; before
\* SUCCESS its documents are those of the run under way.
OneReader(f) == \A p, q \in Ingestors : file[p] = f /\ file[q] = f => p = q

OneEach(f) == \A d, e \in DocumentsOf(f) : documents[d].row = documents[e].row => d = e

OnePass(f) ==
    \A d \in DocumentsOf(f) :
        /\ documents[d].loads = IF \E p \in Ingestors : doc[p] = d THEN 0 ELSE 1
        /\ Numbers(d) # {} =>
            /\ documents[d].scans = 0
            /\ \A n \in Normalizers : d \notin todo[n] /\ doc[n] # d

OfThisRun(f) ==
    /\ \A p \in Ingestors : file[p] = f /\ status[f] = "SUCCESS" => pc[p] = "lookup"
    /\ status[f] # "SUCCESS" => \A d \in DocumentsOf(f) : \E p \in Ingestors :
        /\ file[p] = f
        /\ \/ pc[p] = "row" /\ documents[d].row <= row[p]
           \/ pc[p] = "cells" /\ documents[d].row <= row[p] + 1

Undisturbed(f) == OneReader(f) /\ OneEach(f) /\ OnePass(f) /\ OfThisRun(f)

UndisturbedFiles == \A f \in Files \ disturbed : Undisturbed(f)

-----------------------------------------------------------------------------
(* What the steps do to the tables and the processes.                      *)

Labels == {"idle", "lookup", "insert", "columns", "row", "cells", "check"}

LEMMA DocumentsAre ==
    ASSUME TypeOK
    PROVE  /\ Len(documents) \in Nat /\ DOMAIN documents = 1..Len(documents)
           /\ \A d \in DOMAIN documents : documents[d] \in Document
  BY LenProperties, ElementOfSeq DEF TypeOK

LEMMA CellsAre ==
    ASSUME TypeOK, RowsExist, NEW d \in DOMAIN documents
    PROVE  /\ Cells(d) \in Seq(Phones \cup {Scrawl, Blank})
           /\ Len(Cells(d)) \in Nat /\ DOMAIN Cells(d) = 1..Len(Cells(d))
  <1>1. documents[d].file \in Files /\ documents[d].row \in DOMAIN Rows[documents[d].file]
    BY DocumentsAre DEF RowsExist, Document
  <1>2. Rows[documents[d].file] \in Seq(Seq(Phones \cup {Scrawl, Blank}))
    BY <1>1, DatasetConstantsOK DEF DatasetConstantsOK
  <1>3. Cells(d) \in Seq(Phones \cup {Scrawl, Blank})
    BY <1>1, <1>2, LenProperties, ElementOfSeq DEF Cells
  <1>4. QED
    BY <1>3, LenProperties

\* Who ends has nothing in hand any more; nobody else notices.
LEMMA EndsOne ==
    ASSUME TypeOK, NEW p \in Procs, Ends(p)
    PROVE  /\ pc' \in [Procs -> Labels] /\ doc' \in [Procs -> Nat] /\ cell' \in [Procs -> Nat]
           /\ file' \in [Ingestors -> Files \cup {None}] /\ row' \in [Ingestors -> Nat]
           /\ todo' \in [Normalizers -> SUBSET (DOMAIN documents)]
           /\ added' \in [Procs -> SUBSET Nat]
           /\ pc'[p] = "idle" /\ doc'[p] = 0 /\ added'[p] = {}
           /\ p \in Ingestors => file'[p] = None /\ row'[p] = 0
           /\ p \in Normalizers => todo'[p] = {}
           /\ \A q \in Procs \ {p} : pc'[q] = pc[q] /\ doc'[q] = doc[q]
                                     /\ cell'[q] = cell[q] /\ added'[q] = added[q]
           /\ \A q \in Ingestors \ {p} : file'[q] = file[q] /\ row'[q] = row[q]
           /\ \A q \in Normalizers \ {p} : todo'[q] = todo[q]
  <1> USE DEF TypeOK, Ends, Goto, Labels
  <1>1. /\ pc' \in [Procs -> Labels] /\ doc' \in [Procs -> Nat] /\ cell' \in [Procs -> Nat]
        /\ added' \in [Procs -> SUBSET Nat]
    OBVIOUS
  <1>2. /\ file' \in [Ingestors -> Files \cup {None}] /\ row' \in [Ingestors -> Nat]
        /\ todo' \in [Normalizers -> SUBSET (DOMAIN documents)]
    OBVIOUS
  <1>3. /\ pc'[p] = "idle" /\ doc'[p] = 0 /\ added'[p] = {}
        /\ \A q \in Procs \ {p} : pc'[q] = pc[q] /\ doc'[q] = doc[q]
                                  /\ cell'[q] = cell[q] /\ added'[q] = added[q]
    OBVIOUS
  <1>4. /\ p \in Ingestors => file'[p] = None /\ row'[p] = 0
        /\ p \in Normalizers => todo'[p] = {}
        /\ \A q \in Ingestors \ {p} : file'[q] = file[q] /\ row'[q] = row[q]
        /\ \A q \in Normalizers \ {p} : todo'[q] = todo[q]
    OBVIOUS
  <1>5. QED
    BY <1>1, <1>2, <1>3, <1>4

New(p) == [file |-> file[p], row |-> row[p] + 1, loads |-> 0, scans |-> 0]

LEMMA InsertsOne ==
    ASSUME TypeOK, Reading, NEW p \in Ingestors, InsertDocument(p)
    PROVE  /\ documents' \in Seq(Document) /\ Len(documents') = Len(documents) + 1
           /\ DOMAIN documents' = 1..(Len(documents) + 1)
           /\ \A d \in DOMAIN documents : documents'[d] = documents[d]
           /\ \A d \in DOMAIN documents' : d \in DOMAIN documents \/ d = Len(documents) + 1
           /\ documents'[Len(documents) + 1] = New(p)
           /\ Len(documents) + 1 \notin DOMAIN documents
           /\ row[p] + 1 \in DOMAIN Rows[file[p]] /\ file[p] \in Files
  <1>1. file[p] \in Files /\ row[p] \in Nat
    BY DEF TypeOK, Reading, ReadingOne, InsertDocument
  <1>2. New(p) \in Document
    BY <1>1 DEF New, Document
  <1>3. documents \in Seq(Document)
    BY DEF TypeOK
  <1>4. /\ Append(documents, New(p)) \in Seq(Document)
        /\ Len(Append(documents, New(p))) = Len(documents) + 1
        /\ \A d \in 1..Len(documents) : Append(documents, New(p))[d] = documents[d]
        /\ Append(documents, New(p))[Len(documents) + 1] = New(p)
    BY <1>2, <1>3, AppendProperties
  <1>5. documents' = Append(documents, New(p))
    BY DEF InsertDocument, New
  <1>6. DOMAIN documents' = 1..(Len(documents) + 1)
    BY <1>4, <1>5, LenProperties
  <1>7. Rows[file[p]] \in Seq(Seq(Phones \cup {Scrawl, Blank})) /\ row[p] < Len(Rows[file[p]])
    BY <1>1, DatasetConstantsOK DEF DatasetConstantsOK, InsertDocument
  <1>8. row[p] + 1 \in DOMAIN Rows[file[p]]
    BY <1>1, <1>7, LenProperties
  <1>9. \A d \in 1..(Len(documents) + 1) : d \in 1..Len(documents) \/ d = Len(documents) + 1
    BY DocumentsAre
  <1>10. DOMAIN documents = 1..Len(documents) /\ Len(documents) + 1 \notin 1..Len(documents)
    BY DocumentsAre
  <1>11. QED
    BY <1>1, <1>4, <1>5, <1>6, <1>8, <1>9, <1>10

LEMMA CommitsOne ==
    ASSUME TypeOK, NEW p \in Procs, Commit(p)
    PROVE  /\ documents' \in Seq(Document) /\ DOMAIN documents' = DOMAIN documents
           /\ doc[p] \in DOMAIN documents
           /\ \A d \in DOMAIN documents :
                /\ documents'[d].file = documents[d].file
                /\ documents'[d].row = documents[d].row
                /\ documents'[d].loads = documents[d].loads
                        + IF d = doc[p] /\ p \in Ingestors THEN 1 ELSE 0
                /\ documents'[d].scans = documents[d].scans
                        + IF d = doc[p] /\ p \notin Ingestors THEN 1 ELSE 0
  <1>0. /\ documents \in Seq(Document) /\ Len(documents) \in Nat
        /\ DOMAIN documents = 1..Len(documents)
        /\ \A d \in DOMAIN documents : documents[d] \in Document
    BY DocumentsAre DEF TypeOK
  <1>1. doc[p] \in DOMAIN documents
    BY DEF TypeOK, Commit
  <1> DEFINE r == IF p \in Ingestors
                  THEN [documents[doc[p]] EXCEPT !.loads = @ + 1]
                  ELSE [documents[doc[p]] EXCEPT !.scans = @ + 1]
  <1>2. documents' = [documents EXCEPT ![doc[p]] = r]
    BY DEF Commit
  <1>3. /\ documents[doc[p]].loads \in Nat /\ documents[doc[p]].scans \in Nat
        /\ documents[doc[p]].loads + 1 \in Nat /\ documents[doc[p]].scans + 1 \in Nat
    <2>1. documents[doc[p]] \in Document
      BY <1>0, <1>1
    <2>2. \A o \in Document : o.loads \in Nat /\ o.scans \in Nat
      BY DEF Document
    <2>3. QED
      BY <2>1, <2>2
  <1>4. /\ r \in Document /\ r.file = documents[doc[p]].file /\ r.row = documents[doc[p]].row
        /\ r.loads = documents[doc[p]].loads + IF p \in Ingestors THEN 1 ELSE 0
        /\ r.scans = documents[doc[p]].scans + IF p \in Ingestors THEN 0 ELSE 1
    <2> DEFINE o == documents[doc[p]]
    <2>1. o \in Document
      BY <1>0, <1>1
    <2>2. CASE p \in Ingestors
      <3>1. r = [o EXCEPT !.loads = o.loads + 1]
        BY <2>2
      <3> HIDE DEF o, r
      <3>2. o.loads + 1 \in Nat /\ o.scans + 0 = o.scans
        BY <1>3, <2>1 DEF Document
      <3>3. QED
        BY <2>1, <2>2, <3>1, <3>2 DEF Document, o
    <2>3. CASE p \notin Ingestors
      <3>1. r = [o EXCEPT !.scans = o.scans + 1]
        BY <2>3
      <3> HIDE DEF o, r
      <3>2. o.scans + 1 \in Nat /\ o.loads + 0 = o.loads
        BY <1>3, <2>1 DEF Document
      <3>3. QED
        BY <2>1, <2>3, <3>1, <3>2 DEF Document, o
    <2>4. QED
      BY <2>2, <2>3
  <1> HIDE DEF r
  <1>5. documents' \in Seq(Document) /\ DOMAIN documents' = DOMAIN documents
    BY <1>0, <1>1, <1>2, <1>4, ExceptSeq
  <1>6. ASSUME NEW d \in DOMAIN documents
        PROVE  documents'[d] = IF d = doc[p] THEN r ELSE documents[d]
    BY <1>2
  <1>7. \A d \in DOMAIN documents : documents[d].loads \in Nat /\ documents[d].scans \in Nat
    BY <1>0 DEF Document
  <1>8. QED
    BY <1>1, <1>4, <1>5, <1>6, <1>7

\* Whatever happens, documents only join the table, keep their rows and are
\* observed more often.
DocumentsOnlyGrow ==
    /\ documents' \in Seq(Document) /\ DOMAIN documents \subseteq DOMAIN documents'
    /\ \A d \in DOMAIN documents :
        /\ documents'[d].file = documents[d].file
        /\ documents'[d].row = documents[d].row
        /\ documents'[d].loads >= documents[d].loads
        /\ documents'[d].scans >= documents[d].scans

LEMMA DocumentsGrow == ASSUME TypeOK, Reading, [Next]_vars PROVE DocumentsOnlyGrow
  <1>1. /\ documents \in Seq(Document) /\ Len(documents) \in Nat
        /\ DOMAIN documents = 1..Len(documents)
        /\ \A d \in DOMAIN documents : /\ documents[d] \in Document
                                       /\ documents[d].loads \in Nat
                                       /\ documents[d].scans \in Nat
    BY DocumentsAre DEF TypeOK, Document
  <1>2. CASE documents' = documents
    BY <1>1, <1>2 DEF DocumentsOnlyGrow
  <1>3. ASSUME NEW p \in Ingestors, InsertDocument(p) PROVE DocumentsOnlyGrow
    <2>1. /\ documents' \in Seq(Document) /\ DOMAIN documents \subseteq DOMAIN documents'
          /\ \A d \in DOMAIN documents : documents'[d] = documents[d]
      BY <1>1, <1>3, InsertsOne
    <2>2. QED
      BY <1>1, <2>1 DEF DocumentsOnlyGrow
  <1>4. ASSUME NEW p \in Procs, Commit(p) PROVE DocumentsOnlyGrow
    <2>1. /\ documents' \in Seq(Document) /\ DOMAIN documents' = DOMAIN documents
          /\ \A d \in DOMAIN documents :
                /\ documents'[d].file = documents[d].file
                /\ documents'[d].row = documents[d].row
      BY <1>4, CommitsOne
    <2>2. \A d \in DOMAIN documents :
                /\ documents'[d].loads >= documents[d].loads
                /\ documents'[d].scans >= documents[d].scans
      BY <1>1, <1>4, CommitsOne
    <2>3. QED
      BY <2>1, <2>2 DEF DocumentsOnlyGrow
  <1>5. \/ documents' = documents
        \/ \E p \in Ingestors : InsertDocument(p)
        \/ \E p \in Procs : Commit(p)
    BY DEF Next, Step, StartIngestion, ListUnprocessed, LookUpDataset, InsertDataset,
           FindColumns, FinishFile, CheckListed, FinishList, ObserveCell,
           DeadlockAborts, Crash, Dies, datasetVars, vars
  <1>6. QED
    BY <1>2, <1>3, <1>4, <1>5

-----------------------------------------------------------------------------
(* Types.                                                                  *)

\* The conjuncts of TypeOK about where a process is and what it holds.
InHand ==
    /\ \A p \in Procs : (pc[p] = "cells") = (doc[p] \in DOMAIN documents)
    /\ \A p \in Procs : pc[p] # "cells" => doc[p] = 0

LEMMA EndsKeepsType ==
    ASSUME TypeOK, NEW p \in Procs, Ends(p), documents' = documents, counts' = counts,
           status' \in [Files -> {"none", "PENDING", "SUCCESS", "FAILED"}],
           processed' \in [Files -> Nat], runs' = runs, crashes' \in 0..MaxCrashes,
           disturbed' \subseteq Files, raced' = raced
    PROVE  TypeOK'
  <1>1. InHand'
    <2>1. 0 \notin DOMAIN documents
      BY DocumentsAre
    <2>2. /\ pc'[p] = "idle" /\ doc'[p] = 0
          /\ \A q \in Procs \ {p} : pc'[q] = pc[q] /\ doc'[q] = doc[q]
      BY EndsOne
    <2>3. InHand
      BY DEF TypeOK, InHand
    <2>4. QED
      BY <2>1, <2>2, <2>3 DEF InHand
  <1>2. QED
    BY <1>1, EndsOne DEF TypeOK, InHand, Labels

LEMMA TypeInitially == ASSUME Init PROVE TypeOK
  <1>1. documents \in Seq(Document) /\ DOMAIN documents = {}
    BY EmptySeq DEF Init
  <1>2. 0 \in 0..MaxRuns /\ 0 \in 0..MaxCrashes
    BY DatasetConstantsOK DEF DatasetConstantsOK
  <1>3. QED
    BY <1>1, <1>2 DEF Init, TypeOK

LEMMA UpsertedFinite ==
    ASSUME TypeOK, RowsExist, AddedSoFar, NEW p \in Procs, pc[p] = "cells",
           NEW S, S \subseteq added[p]
    PROVE  IsFiniteSet(S) /\ Cardinality(S) \in Nat
  <1>1. doc[p] \in DOMAIN documents
    BY DEF TypeOK
  <1>2. Len(Cells(doc[p])) \in Int /\ DOMAIN Cells(doc[p]) = 1..Len(Cells(doc[p]))
    BY <1>1, CellsAre
  <1>3. IsFiniteSet(1..Len(Cells(doc[p])))
    BY <1>2, FS_Interval
  <1>4. S \subseteq 1..Len(Cells(doc[p]))
    BY <1>2 DEF AddedSoFar, AddedOne, Numbers
  <1>5. IsFiniteSet(S)
    BY <1>3, <1>4, FS_Subset
  <1>6. QED
    BY <1>5, FS_CardinalityType

LEMMA TypeKept ==
    ASSUME TypeOK, Reading, RowsExist, AddedSoFar, [Next]_vars PROVE TypeOK'
  <1> USE DEF Labels, datasetVars
  <1>0. /\ Len(documents) \in Nat /\ DOMAIN documents = 1..Len(documents)
        /\ MaxRuns \in Nat /\ MaxCrashes \in Nat
        /\ \A d \in DOMAIN documents : documents[d].file \in Files
    BY DocumentsAre, DatasetConstantsOK DEF DatasetConstantsOK, Document
  <1>1. ASSUME NEW p \in Ingestors, NEW f \in Files, StartIngestion(p, f) PROVE TypeOK'
    <2>1. runs' \in 0..MaxRuns
      BY <1>0, <1>1 DEF StartIngestion, TypeOK
    <2>2. /\ pc' \in [Procs -> Labels] /\ file' \in [Ingestors -> Files \cup {None}]
          /\ disturbed' \subseteq Files
      BY <1>1 DEF StartIngestion, Goto, TypeOK
    <2>3. InHand'
      BY <1>1 DEF StartIngestion, Goto, TypeOK, InHand, Procs
    <2>4. QED
      BY <1>1, <2>1, <2>2, <2>3 DEF StartIngestion, TypeOK, InHand
  <1>2. ASSUME NEW p \in Procs, NEW l \in {"insert", "columns", "row", "idle"}, Goto(p, l),
               pc[p] # "cells",
               status' \in [Files -> {"none", "PENDING", "SUCCESS", "FAILED"}],
               UNCHANGED <<processed, documents, counts, file, row, doc, todo, cell, added,
                           runs, crashes, disturbed, raced>>
        PROVE  TypeOK'
    <2>1. pc' \in [Procs -> Labels]
      BY <1>2 DEF Goto, TypeOK
    <2>2. InHand'
      BY <1>2 DEF Goto, TypeOK, InHand
    <2>3. QED
      BY <1>2, <2>1, <2>2 DEF TypeOK, InHand
  <1>3. ASSUME NEW p \in Ingestors, LookUpDataset(p) PROVE TypeOK'
    <2>1. CASE Ends(p)
      BY <1>3, <2>1, EndsKeepsType DEF LookUpDataset, TypeOK, Procs
    <2>2. CASE /\ Goto(p, IF status[file[p]] = "none" THEN "insert" ELSE "columns")
               /\ UNCHANGED <<file, row, doc, todo, cell, added>>
      BY <1>2, <1>3, <2>2 DEF LookUpDataset, TypeOK, Procs
    <2>3. QED
      BY <1>3, <2>1, <2>2 DEF LookUpDataset
  <1>4. ASSUME NEW p \in Ingestors, InsertDataset(p) PROVE TypeOK'
    <2>1. CASE Ends(p) /\ UNCHANGED status
      BY <1>4, <2>1, EndsKeepsType DEF InsertDataset, TypeOK, Procs
    <2>2. CASE /\ status' = [status EXCEPT ![file[p]] = "PENDING"] /\ Goto(p, "columns")
               /\ UNCHANGED <<file, row, doc, todo, cell, added>>
      <3>1. status' \in [Files -> {"none", "PENDING", "SUCCESS", "FAILED"}]
        BY <2>2 DEF TypeOK
      <3>2. QED
        BY <1>2, <1>4, <2>2, <3>1 DEF InsertDataset, Procs
    <2>3. QED
      BY <1>4, <2>1, <2>2 DEF InsertDataset
  <1>5. ASSUME NEW p \in Ingestors, FindColumns(p) PROVE TypeOK'
    <2>1. CASE /\ status' = [status EXCEPT ![file[p]] = "FAILED"]
               /\ processed' = [processed EXCEPT ![file[p]] = 0] /\ Ends(p)
      <3>1. /\ status' \in [Files -> {"none", "PENDING", "SUCCESS", "FAILED"}]
            /\ processed' \in [Files -> Nat]
        BY <2>1 DEF TypeOK
      <3>2. QED
        BY <1>5, <2>1, <3>1, EndsKeepsType DEF FindColumns, TypeOK, Procs
    <2>2. CASE Goto(p, "row") /\ UNCHANGED <<status, processed, file, row, doc, todo, cell, added>>
      BY <1>2, <1>5, <2>2 DEF FindColumns, TypeOK, Procs
    <2>3. QED
      BY <1>5, <2>1, <2>2 DEF FindColumns
  <1>6. ASSUME NEW p \in Ingestors, InsertDocument(p) PROVE TypeOK'
    <2>1. /\ documents' \in Seq(Document) /\ DOMAIN documents' = 1..(Len(documents) + 1)
          /\ Len(documents) + 1 \notin DOMAIN documents
      BY <1>6, InsertsOne
    <2>2. /\ pc' = [pc EXCEPT ![p] = "cells"] /\ doc' = [doc EXCEPT ![p] = Len(documents) + 1]
          /\ cell' = [cell EXCEPT ![p] = 1] /\ raced' \subseteq raced \cup {Len(documents) + 1}
      BY <1>6 DEF InsertDocument, TakesDocument, Goto
    <2>3. /\ pc' \in [Procs -> Labels] /\ doc' \in [Procs -> Nat] /\ cell' \in [Procs -> Nat]
      <3>1. Len(documents) + 1 \in Nat
        BY <1>0
      <3>2. QED
        BY <2>2, <3>1 DEF TypeOK
    <2>4. DOMAIN documents \subseteq DOMAIN documents' /\ Len(documents) + 1 \in DOMAIN documents'
      BY <1>0, <2>1
    <2>5. InHand'
      <3>1. \A q \in Procs \ {p} : doc[q] # Len(documents) + 1
        <4>1. Len(documents) + 1 \notin DOMAIN documents /\ Len(documents) + 1 # 0
          BY <1>0
        <4>2. QED
          BY <4>1 DEF TypeOK
      <3>2. \A d \in DOMAIN documents' : d \in DOMAIN documents \/ d = Len(documents) + 1
        BY <1>0, <2>1
      <3>3. QED
        BY <2>2, <2>4, <3>1, <3>2 DEF TypeOK, InHand, Procs
    <2>6. raced' \subseteq DOMAIN documents' /\ todo' \in [Normalizers -> SUBSET (DOMAIN documents')]
      BY <1>6, <2>2, <2>4 DEF InsertDocument, TypeOK
    <2>7. QED
      BY <1>6, <2>1, <2>3, <2>5, <2>6 DEF InsertDocument, TypeOK, InHand
  <1>7. ASSUME NEW p \in Ingestors, FinishFile(p) PROVE TypeOK'
    <2>1. file[p] \in Files /\ row[p] \in Nat
      BY <1>7 DEF FinishFile, TypeOK, Reading, ReadingOne
    <2>2. /\ status' \in [Files -> {"none", "PENDING", "SUCCESS", "FAILED"}]
          /\ processed' \in [Files -> Nat]
      BY <1>7, <2>1 DEF FinishFile, TypeOK
    <2>3. QED
      BY <1>7, <2>2, EndsKeepsType DEF FinishFile, TypeOK, Procs
  <1>8. ASSUME NEW n \in Normalizers, ListUnprocessed(n) PROVE TypeOK'
    <2>1. runs' \in 0..MaxRuns
      BY <1>0, <1>8 DEF ListUnprocessed, TypeOK
    <2>2. /\ pc' \in [Procs -> Labels] /\ todo' \in [Normalizers -> SUBSET (DOMAIN documents)]
          /\ disturbed' \subseteq Files
      <3>1. /\ pc' = [pc EXCEPT ![n] = "check"]
            /\ \E L, E \in SUBSET (DOMAIN documents) :
                /\ todo' = [todo EXCEPT ![n] = L]
                /\ disturbed' = disturbed \cup {documents[d].file : d \in E}
        <4> DEFINE L == {d \in DOMAIN documents : ~Observed(d)}
                   E == {e \in L : Numbers(e) # {}}
        <4>1. /\ todo' = [todo EXCEPT ![n] = L] /\ pc' = [pc EXCEPT ![n] = "check"]
              /\ disturbed' = disturbed \cup {documents[d].file : d \in E}
          BY <1>8 DEF ListUnprocessed, Goto
        <4>2. L \in SUBSET (DOMAIN documents) /\ E \in SUBSET (DOMAIN documents)
          OBVIOUS
        <4> HIDE DEF L, E
        <4>3. QED
          BY <4>1, <4>2
      <3>2. QED
        <4>1. pc' \in [Procs -> Labels] /\ todo' \in [Normalizers -> SUBSET (DOMAIN documents)]
          <5>1. PICK L \in SUBSET (DOMAIN documents) : todo' = [todo EXCEPT ![n] = L]
            BY <3>1
          <5>2. todo \in [Normalizers -> SUBSET (DOMAIN documents)] /\ pc \in [Procs -> Labels]
            BY DEF TypeOK
          <5>3. QED
            BY <3>1, <5>1, <5>2
        <4>2. disturbed' \subseteq Files
          BY <1>0, <3>1 DEF TypeOK
        <4>3. QED
          BY <4>1, <4>2
    <2>3. InHand'
      BY <1>8 DEF ListUnprocessed, Goto, TypeOK, InHand, Procs
    <2>4. QED
      BY <1>8, <2>1, <2>2, <2>3 DEF ListUnprocessed, TypeOK, InHand
  <1>9. ASSUME NEW n \in Normalizers, CheckListed(n) PROVE TypeOK'
    <2>1. PICK d \in todo[n] :
            /\ todo' = [todo EXCEPT ![n] = @ \ {d}]
            /\ IF Observed(d) THEN UNCHANGED <<pc, doc, cell, raced>> ELSE TakesDocument(n, d)
      BY <1>9 DEF CheckListed
    <2>2. d \in DOMAIN documents /\ d \in Nat
      BY <1>0, <2>1 DEF TypeOK
    <2>3. todo' \in [Normalizers -> SUBSET (DOMAIN documents)]
      BY <2>1 DEF TypeOK
    <2>4. CASE UNCHANGED <<pc, doc, cell, raced>>
      BY <1>9, <2>3, <2>4 DEF CheckListed, TypeOK
    <2>5. CASE TakesDocument(n, d)
      <3>1. /\ pc' \in [Procs -> Labels] /\ doc' \in [Procs -> Nat] /\ cell' \in [Procs -> Nat]
            /\ raced' \subseteq DOMAIN documents
        BY <2>2, <2>5 DEF TakesDocument, Goto, TypeOK
      <3>2. InHand'
        BY <1>9, <2>2, <2>5 DEF CheckListed, TakesDocument, Goto, TypeOK, InHand, Procs
      <3>3. QED
        BY <1>9, <2>3, <3>1, <3>2 DEF CheckListed, TypeOK, InHand
    <2>6. QED
      BY <2>1, <2>4, <2>5
  <1>10. ASSUME NEW n \in Normalizers, FinishList(n) PROVE TypeOK'
    BY <1>2, <1>10 DEF FinishList, TypeOK, Procs
  <1>11. ASSUME NEW p \in Procs, ObserveCell(p) PROVE TypeOK'
    <2>1. cell' \in [Procs -> Nat] /\ added' \in [Procs -> SUBSET Nat]
      <3>1. /\ cell' = [cell EXCEPT ![p] = @ + 1]
            /\ added' = added \/ added' = [added EXCEPT ![p] = @ \cup {cell[p]}]
        BY <1>11 DEF ObserveCell
      <3>2. cell[p] \in Nat /\ cell[p] + 1 \in Nat /\ added[p] \cup {cell[p]} \in SUBSET Nat
        BY DEF TypeOK
      <3>3. cell \in [Procs -> Nat] /\ added \in [Procs -> SUBSET Nat]
        BY DEF TypeOK
      <3>4. cell' \in [Procs -> Nat]
        BY <3>1, <3>2, <3>3
      <3>5. [added EXCEPT ![p] = @ \cup {cell[p]}] \in [Procs -> SUBSET Nat]
        BY <3>2, <3>3
      <3>6. QED
        BY <3>1, <3>3, <3>4, <3>5
    <2>2. QED
      BY <1>11, <2>1 DEF ObserveCell, TypeOK
  <1>12. ASSUME NEW p \in Procs, Commit(p) PROVE TypeOK'
    <2>1. documents' \in Seq(Document) /\ DOMAIN documents' = DOMAIN documents
      BY <1>12, CommitsOne
    <2>2. counts' \in [Phones -> Nat]
      <3>1. doc[p] \in DOMAIN documents
        BY <1>12, CommitsOne
      <3>2. ASSUME NEW q \in Phones PROVE Cardinality({i \in added[p] : Cells(doc[p])[i] = q}) \in Nat
        BY <1>12, UpsertedFinite DEF Commit
      <3>3. QED
        <4>1. \A q \in Phones :
                counts[q] + Cardinality({i \in added[p] : Cells(doc[p])[i] = q}) \in Nat
          <5> SUFFICES ASSUME NEW q \in Phones
                       PROVE  counts[q] + Cardinality({i \in added[p] : Cells(doc[p])[i] = q}) \in Nat
            OBVIOUS
          <5>1. counts[q] \in Nat
            BY DEF TypeOK
          <5>2. QED
            BY <3>2, <5>1
        <4>2. QED
          BY <1>12, <4>1 DEF Commit
    <2>3. /\ pc' \in [Procs -> Labels] /\ doc' \in [Procs -> Nat] /\ cell' \in [Procs -> Nat]
          /\ added' \in [Procs -> SUBSET Nat] /\ row' \in [Ingestors -> Nat]
      BY <1>12 DEF Commit, Goto, TypeOK
    <2>4. InHand'
      BY <1>0, <1>12, <2>1 DEF Commit, Goto, TypeOK, InHand
    <2>5. QED
      BY <1>12, <2>1, <2>2, <2>3, <2>4 DEF Commit, TypeOK, InHand
  <1>13. ASSUME NEW p \in Procs, DeadlockAborts(p) \/ Crash(p) PROVE TypeOK'
    <2>1. crashes' \in 0..MaxCrashes
      BY <1>0, <1>13 DEF DeadlockAborts, Crash, TypeOK
    <2>2. disturbed' \subseteq Files
      <3>1. pc[p] # "idle"
        BY <1>13 DEF DeadlockAborts, Crash, WaitsFor
      <3>2. p \in Ingestors => file[p] \in Files
        BY <3>1 DEF TypeOK, Reading, ReadingOne
      <3>3. QED
        BY <1>13, <3>2 DEF DeadlockAborts, Crash, Dies, TypeOK
    <2>3. QED
      BY <1>13, <2>1, <2>2, EndsKeepsType DEF DeadlockAborts, Crash, Dies, TypeOK
  <1>14. CASE UNCHANGED vars
    BY <1>14 DEF vars, procVars, TypeOK
  <1>15. QED
    BY <1>1, <1>3, <1>4, <1>5, <1>6, <1>7, <1>8, <1>9, <1>10, <1>11, <1>12, <1>13, <1>14
       DEF Next, Step

-----------------------------------------------------------------------------
(* What is in hand.                                                        *)

LEMMA CellsStay ==
    ASSUME DocumentsOnlyGrow, NEW d \in DOMAIN documents
    PROVE  Cells(d)' = Cells(d) /\ Numbers(d)' = Numbers(d) /\ Noted(d)' = Noted(d)
  <1>1. documents'[d].file = documents[d].file /\ documents'[d].row = documents[d].row
    BY DEF DocumentsOnlyGrow
  <1>2. Cells(d)' = Cells(d)
    BY <1>1 DEF Cells
  <1>3. QED
    BY <1>2 DEF Numbers, Noted

\* Steps of q leave everybody else as they are.
OnlyMoves(q) ==
    /\ \A p \in Procs \ {q} : /\ pc'[p] = pc[p] /\ doc'[p] = doc[p]
                              /\ cell'[p] = cell[p] /\ added'[p] = added[p]
    /\ \A p \in Ingestors \ {q} : file'[p] = file[p] /\ row'[p] = row[p]
    /\ \A p \in Normalizers \ {q} : todo'[p] = todo[p]

LoadsStay == \A p \in Ingestors : pc[p] = "cells" /\ pc'[p] = "cells" =>
                 documents'[doc[p]].loads = documents[doc[p]].loads

LEMMA OthersKeepHands ==
    ASSUME HandInv, DocumentsOnlyGrow, NEW q \in Procs, OnlyMoves(q), LoadsStay
    PROVE  /\ \A p \in Procs \ {q} : AddedOne(p)'
           /\ \A p \in Ingestors \ {q} : ReadingOne(p)'
  <1> USE DEF HandInv
  <1>1. ASSUME NEW p \in Procs \ {q} PROVE AddedOne(p)'
    <2>1. /\ pc'[p] = pc[p] /\ doc'[p] = doc[p] /\ cell'[p] = cell[p] /\ added'[p] = added[p]
      BY DEF OnlyMoves
    <2>2. AddedOne(p)
      BY DEF AddedSoFar
    <2>3. CASE pc[p] = "cells"
      <3>1. doc[p] \in DOMAIN documents
        BY <2>3 DEF TypeOK
      <3>2. Cells(doc[p])' = Cells(doc[p]) /\ Numbers(doc[p])' = Numbers(doc[p])
        <4>1. \A d \in DOMAIN documents :
                documents'[d].file = documents[d].file /\ documents'[d].row = documents[d].row
          BY DEF DocumentsOnlyGrow
        <4>2. Cells(doc[p])' = Cells(doc[p])
          BY <2>1, <3>1, <4>1 DEF Cells
        <4>3. QED
          BY <2>1, <4>2 DEF Numbers
      <3>3. QED
        BY <2>1, <2>2, <2>3, <3>2 DEF AddedOne
    <2>4. CASE pc[p] # "cells"
      BY <2>1, <2>2, <2>4 DEF AddedOne
    <2>5. QED
      BY <2>3, <2>4
  <1>2. ASSUME NEW p \in Ingestors \ {q} PROVE ReadingOne(p)'
    <2>1. /\ pc'[p] = pc[p] /\ doc'[p] = doc[p] /\ file'[p] = file[p] /\ row'[p] = row[p]
      BY DEF OnlyMoves, Procs
    <2>2. ReadingOne(p) /\ (pc[p] = "cells" => doc[p] \in DOMAIN documents)
      BY DEF Reading, TypeOK, Procs
    <2>3. pc[p] = "cells" =>
            /\ documents'[doc[p]].file = documents[doc[p]].file
            /\ documents'[doc[p]].row = documents[doc[p]].row
            /\ documents'[doc[p]].loads = documents[doc[p]].loads
      BY <2>1, <2>2 DEF LoadsStay, DocumentsOnlyGrow
    <2>4. QED
      BY <2>1, <2>2, <2>3 DEF ReadingOne
  <1>3. QED
    BY <1>1, <1>2

\* Nobody but its ingestor loads a document.
LEMMA LoadsKept == ASSUME HandInv, [Next]_vars PROVE LoadsStay
  <1> USE DEF HandInv
  <1>1. CASE documents' = documents
    BY <1>1 DEF LoadsStay
  <1>2. ASSUME NEW q \in Ingestors, InsertDocument(q) PROVE LoadsStay
    <2>1. \A d \in DOMAIN documents : documents'[d] = documents[d]
      BY <1>2, InsertsOne
    <2>2. QED
      BY <2>1 DEF LoadsStay, TypeOK, Procs
  <1>3. ASSUME NEW q \in Procs, Commit(q) PROVE LoadsStay
    <2> SUFFICES ASSUME NEW p \in Ingestors, pc[p] = "cells", pc'[p] = "cells"
                 PROVE  documents'[doc[p]].loads = documents[doc[p]].loads
      BY DEF LoadsStay
    <2>1. doc[p] \in DOMAIN documents /\ documents[doc[p]].loads \in Nat
      BY DocumentsAre DEF TypeOK, Document, Procs
    <2>2. p # q /\ pc[q] = "cells"
      BY <1>3 DEF Commit, Goto, TypeOK
    <2>3. ~(doc[p] = doc[q] /\ q \in Ingestors)
      BY <2>2 DEF RowsExist
    <2>4. QED
      BY <1>3, <2>1, <2>3, CommitsOne
  <1>4. \/ documents' = documents
        \/ \E p \in Ingestors : InsertDocument(p)
        \/ \E p \in Procs : Commit(p)
    BY DEF Next, Step, StartIngestion, ListUnprocessed, LookUpDataset, InsertDataset,
           FindColumns, FinishFile, CheckListed, FinishList, ObserveCell,
           DeadlockAborts, Crash, Dies, datasetVars, vars
  <1>5. QED
    BY <1>1, <1>2, <1>3, <1>4

\* Every step is of one process, or of nobody.
LEMMA OneMoves ==
    ASSUME TypeOK, NEW p \in Procs,
           \/ p \in Ingestors /\ \E f \in Files : StartIngestion(p, f)
           \/ p \in Normalizers /\ ListUnprocessed(p)
           \/ Step(p) \/ DeadlockAborts(p) \/ Crash(p)
    PROVE  OnlyMoves(p)
  <1> USE DEF OnlyMoves, TypeOK, Procs
  <1>1. CASE Ends(p)
    BY <1>1, EndsOne DEF Procs
  <1>2. CASE p \in Ingestors /\ \E f \in Files : StartIngestion(p, f)
    BY <1>2 DEF StartIngestion, Goto
  <1>3. CASE p \in Normalizers /\ ListUnprocessed(p)
    <2>1. \E L : todo' = [todo EXCEPT ![p] = L]
      BY <1>3 DEF ListUnprocessed
    <2>2. QED
      BY <1>3, <2>1, DatasetConstantsOK DEF ListUnprocessed, Goto, DatasetConstantsOK
  <1>4. CASE p \in Ingestors /\ (LookUpDataset(p) \/ InsertDataset(p) \/ FindColumns(p))
    BY <1>1, <1>4 DEF LookUpDataset, InsertDataset, FindColumns, Goto
  <1>5. CASE p \in Ingestors /\ InsertDocument(p)
    BY <1>5 DEF InsertDocument, TakesDocument, Goto
  <1>6. CASE p \in Normalizers /\ (CheckListed(p) \/ FinishList(p))
    BY <1>6 DEF CheckListed, FinishList, TakesDocument, Goto
  <1>7. CASE ObserveCell(p)
    BY <1>7 DEF ObserveCell
  <1>8. CASE Commit(p)
    BY <1>8 DEF Commit, Goto
  <1>9. QED
    BY <1>1, <1>2, <1>3, <1>4, <1>5, <1>6, <1>7, <1>8
       DEF Step, FinishFile, DeadlockAborts, Crash, Dies

LEMMA RowsExistKept ==
    ASSUME HandInv, TypeOK', DocumentsOnlyGrow, NEW p \in Procs, OnlyMoves(p),
           \/ DOMAIN documents' = DOMAIN documents
           \/ p \in Ingestors /\ InsertDocument(p),
           \/ pc'[p] # "cells"
           \/ pc[p] = "cells" /\ doc'[p] = doc[p]
           \/ p \in Ingestors /\ InsertDocument(p)
           \/ p \in Normalizers,
           p \in Normalizers => pc'[p] \in {"idle", "check", "cells"}
    PROVE  RowsExist'
  <1> USE DEF HandInv
  <1>1. \A d \in DOMAIN documents' : documents'[d].row \in DOMAIN Rows[documents'[d].file]
    <2>1. \A d \in DOMAIN documents : documents'[d].row \in DOMAIN Rows[documents'[d].file]
      BY DEF RowsExist, DocumentsOnlyGrow
    <2>2. CASE p \in Ingestors /\ InsertDocument(p)
      <3>1. /\ \A d \in DOMAIN documents' : d \in DOMAIN documents \/ d = Len(documents) + 1
            /\ documents'[Len(documents) + 1] = New(p)
            /\ row[p] + 1 \in DOMAIN Rows[file[p]]
        BY <2>2, InsertsOne
      <3>2. /\ documents'[Len(documents) + 1].row = row[p] + 1
            /\ documents'[Len(documents) + 1].file = file[p]
        BY <3>1 DEF New
      <3>3. QED
        BY <2>1, <3>1, <3>2
    <2>3. QED
      BY <2>1, <2>2
  <1>2. ASSUME NEW q \in Ingestors, NEW r \in Ingestors, pc'[q] = "cells", doc'[q] = doc'[r]
        PROVE  q = r
    <2>1. \A s \in Procs \ {p} : pc'[s] = pc[s] /\ doc'[s] = doc[s]
      BY DEF OnlyMoves
    <2>2. \A s \in Procs : (pc[s] = "cells") <=> doc[s] \in DOMAIN documents
      BY DEF TypeOK
    <2>3. \A s \in Procs : (pc'[s] = "cells") <=> doc'[s] \in DOMAIN documents'
      BY DEF TypeOK
    <2>4. pc'[r] = "cells"
      BY <1>2, <2>3 DEF Procs
    <2>5. CASE p \notin Ingestors
      BY <1>2, <2>1, <2>5 DEF RowsExist, Procs
    <2>6. CASE pc[p] = "cells" /\ doc'[p] = doc[p]
      <3>1. \A s \in Procs : pc'[s] = "cells" => pc[s] = "cells" /\ doc'[s] = doc[s]
        BY <2>1, <2>6
      <3>2. QED
        BY <1>2, <2>4, <3>1 DEF RowsExist, Procs
    <2>7. CASE p \in Ingestors /\ InsertDocument(p)
      <3>1. doc'[p] = Len(documents) + 1 /\ Len(documents) + 1 \notin DOMAIN documents
        BY <2>7, InsertsOne DEF InsertDocument, TakesDocument, TypeOK
      <3>2. \A s \in Ingestors \ {p} : pc'[s] = "cells" => doc'[s] \in DOMAIN documents
        BY <2>1, <2>2 DEF Procs
      <3>3. CASE q = p \/ r = p
        BY <1>2, <2>4, <3>1, <3>2, <3>3
      <3>4. CASE q # p /\ r # p
        BY <1>2, <2>1, <3>4 DEF RowsExist, Procs
      <3>5. QED
        BY <3>3, <3>4
    <2>8. CASE pc'[p] # "cells"
      BY <1>2, <2>1, <2>4, <2>8 DEF RowsExist, Procs
    <2>9. QED
      BY <2>5, <2>6, <2>7, <2>8, DatasetConstantsOK DEF DatasetConstantsOK
  <1>3. \A n \in Normalizers : pc'[n] \in {"idle", "check", "cells"}
    BY DEF RowsExist, OnlyMoves, Procs
  <1>4. QED
    BY <1>1, <1>2, <1>3 DEF RowsExist

LEMMA HandsKept ==
    ASSUME HandInv, TypeOK', DocumentsOnlyGrow, LoadsStay, NEW p \in Procs, OnlyMoves(p),
           AddedOne(p)', p \in Ingestors => ReadingOne(p)', RowsExist'
    PROVE  HandInv'
  BY OthersKeepHands DEF HandInv, AddedSoFar, Reading, Procs

LEMMA EndsKeepsHands ==
    ASSUME HandInv, TypeOK', DocumentsOnlyGrow, LoadsStay, NEW p \in Procs, OnlyMoves(p),
           Ends(p), documents' = documents
    PROVE  HandInv'
  <1>1. /\ pc'[p] = "idle" /\ added'[p] = {}
        /\ p \in Ingestors => file'[p] = None /\ row'[p] = 0
    BY EndsOne DEF HandInv
  <1>2. AddedOne(p)'
    BY <1>1 DEF AddedOne
  <1>3. p \in Ingestors => ReadingOne(p)'
    BY <1>1 DEF ReadingOne
  <1>4. RowsExist'
    BY <1>1, RowsExistKept
  <1>5. QED
    BY <1>2, <1>3, <1>4, HandsKept

\* A step of p after which no document is in its hand.
LEMMA EmptyHandKept ==
    ASSUME HandInv, TypeOK', DocumentsOnlyGrow, LoadsStay, NEW p \in Procs, OnlyMoves(p),
           DOMAIN documents' = DOMAIN documents, pc'[p] # "cells", added'[p] = {},
           p \in Ingestors => ReadingOne(p)', p \in Normalizers => pc'[p] \in {"idle", "check"}
    PROVE  HandInv'
  <1>1. AddedOne(p)'
    BY DEF AddedOne
  <1>2. RowsExist'
    BY RowsExistKept
  <1>3. QED
    BY <1>1, <1>2, HandsKept

LEMMA HandKept == ASSUME HandInv, [Next]_vars PROVE HandInv'
  <1> USE DEF HandInv
  <1>0. TypeOK' /\ DocumentsOnlyGrow /\ LoadsStay
    BY TypeKept, DocumentsGrow, LoadsKept
  <1>1. ASSUME NEW p \in Ingestors, NEW f \in Files, StartIngestion(p, f) PROVE HandInv'
    <2>1. OnlyMoves(p)
      BY <1>1, OneMoves DEF Procs
    <2>2. /\ pc[p] = "idle" /\ added[p] = {} /\ row[p] = 0
      BY <1>1 DEF StartIngestion, Reading, ReadingOne, AddedSoFar, AddedOne, Procs
    <2>3. /\ pc'[p] = "lookup" /\ file'[p] = f /\ added'[p] = {} /\ row'[p] = 0
          /\ documents' = documents
      BY <1>1, <2>2 DEF StartIngestion, Goto, TypeOK, datasetVars, Procs
    <2>4. ReadingOne(p)'
      BY <2>3, DatasetConstantsOK DEF ReadingOne, DatasetConstantsOK
    <2>5. QED
      BY <1>0, <2>1, <2>3, <2>4, EmptyHandKept, DatasetConstantsOK DEF Procs, DatasetConstantsOK
  <1>2. ASSUME NEW p \in Procs, Ends(p), OnlyMoves(p), documents' = documents PROVE HandInv'
    BY <1>0, <1>2, EndsKeepsHands
  <1>3. ASSUME NEW p \in Ingestors,
               LookUpDataset(p) \/ InsertDataset(p) \/ FindColumns(p) \/ FinishFile(p)
        PROVE  HandInv'
    <2>1. OnlyMoves(p) /\ documents' = documents
      BY <1>3, OneMoves DEF Procs, Step, LookUpDataset, InsertDataset, FindColumns,
                            FinishFile, datasetVars
    <2>2. CASE Ends(p)
      BY <1>2, <2>1, <2>2 DEF Procs
    <2>3. CASE ~Ends(p)
      <3>1. /\ pc[p] \in {"lookup", "insert", "columns"}
            /\ pc'[p] \in {"insert", "columns", "row"}
            /\ pc'[p] = "row" => file[p] \notin Columnless
            /\ file' = file /\ row' = row /\ added' = added
        BY <1>3, <2>3 DEF LookUpDataset, InsertDataset, FindColumns, FinishFile, Goto,
                          TypeOK, Procs
      <3>2. /\ row[p] = 0 /\ file[p] # None /\ added[p] = {} /\ file[p] \in Files
        BY <3>1 DEF Reading, ReadingOne, AddedSoFar, AddedOne, Procs, TypeOK
      <3>3. Len(Rows[file[p]]) \in Nat
        BY <3>2, DatasetConstantsOK, LenProperties DEF DatasetConstantsOK
      <3>4. ReadingOne(p)'
        BY <3>1, <3>2, <3>3 DEF ReadingOne
      <3>5. QED
        BY <1>0, <2>1, <3>1, <3>2, <3>4, EmptyHandKept, DatasetConstantsOK
           DEF Procs, DatasetConstantsOK
    <2>4. QED
      BY <2>2, <2>3
  <1>4. ASSUME NEW p \in Ingestors, InsertDocument(p) PROVE HandInv'
    <2>1. OnlyMoves(p)
      BY <1>4, OneMoves DEF Procs, Step
    <2>2. RowsExist'
      BY <1>0, <1>4, <2>1, RowsExistKept, DatasetConstantsOK DEF Procs, DatasetConstantsOK
    <2>3. /\ pc'[p] = "cells" /\ doc'[p] = Len(documents) + 1 /\ cell'[p] = 1
          /\ added'[p] = {} /\ file'[p] = file[p] /\ row'[p] = row[p] /\ pc[p] = "row"
      BY <1>4 DEF InsertDocument, TakesDocument, Goto, TypeOK, Procs, AddedSoFar, AddedOne
    <2>4. /\ documents'[doc'[p]] = New(p) /\ row[p] + 1 \in DOMAIN Rows[file[p]]
          /\ file[p] \in Files
      BY <1>4, <2>3, InsertsOne
    <2>5. /\ documents'[doc'[p]].file = file[p] /\ documents'[doc'[p]].row = row[p] + 1
          /\ documents'[doc'[p]].loads = 0
      BY <2>4 DEF New
    <2>6. ReadingOne(p)'
      BY <2>3, <2>5 DEF ReadingOne, Reading
    <2>7. Cells(doc[p])' = Rows[file[p]][row[p] + 1]
      BY <2>5 DEF Cells
    <2>8. Cells(doc[p])' \in Seq(Phones \cup {Scrawl, Blank})
      <3>1. Rows[file[p]] \in Seq(Seq(Phones \cup {Scrawl, Blank}))
        BY <2>4, DatasetConstantsOK DEF DatasetConstantsOK
      <3>2. QED
        BY <2>4, <2>7, <3>1, LenProperties, ElementOfSeq
    <2>9. Len(Cells(doc[p])') \in Nat /\ DOMAIN (Cells(doc[p])') = 1..Len(Cells(doc[p])')
      BY <2>8, LenProperties
    <2>10. AddedOne(p)'
      <3>1. {i \in Numbers(doc[p])' : i < 1} = {}
        BY <2>9 DEF Numbers
      <3>2. 1 \in 1..(Len(Cells(doc[p])') + 1)
        BY <2>9
      <3>3. QED
        BY <2>3, <3>1, <3>2 DEF AddedOne
    <2>11. QED
      BY <1>0, <2>1, <2>2, <2>6, <2>10, HandsKept DEF Procs
  <1>5. ASSUME NEW p \in Procs, ObserveCell(p) PROVE HandInv'
    <2>1. OnlyMoves(p)
      BY <1>5, OneMoves DEF Step
    <2>2. /\ pc[p] = "cells" /\ doc[p] \in DOMAIN documents /\ cell[p] \in Nat
          /\ UNCHANGED <<pc, file, row, doc, documents>>
      BY <1>5 DEF ObserveCell, TypeOK, datasetVars
    <2>3. /\ cell[p] \in 1..(Len(Cells(doc[p])) + 1)
          /\ added[p] = {i \in Numbers(doc[p]) : i < cell[p]}
      BY <2>2 DEF AddedSoFar, AddedOne
    <2>4. /\ cell'[p] = cell[p] + 1 /\ cell[p] <= Len(Cells(doc[p]))
          /\ added'[p] = IF Cells(doc[p])[cell[p]] \in Phones THEN added[p] \cup {cell[p]}
                                                             ELSE added[p]
      <3>1. cell' = [cell EXCEPT ![p] = cell[p] + 1] /\ cell[p] <= Len(Cells(doc[p]))
        BY <1>5 DEF ObserveCell
      <3>2. added' = IF Cells(doc[p])[cell[p]] \in Phones
                     THEN [added EXCEPT ![p] = added[p] \cup {cell[p]}] ELSE added
        BY <1>5 DEF ObserveCell
      <3>3. QED
        BY <3>1, <3>2 DEF TypeOK
    <2>5. /\ Len(Cells(doc[p])) \in Nat /\ DOMAIN Cells(doc[p]) = 1..Len(Cells(doc[p]))
      BY <2>2, CellsAre
    <2>6. added'[p] = {i \in Numbers(doc[p]) : i < cell[p] + 1}
      BY <2>2, <2>3, <2>4, <2>5 DEF Numbers
    <2>7. Cells(doc[p])' = Cells(doc[p]) /\ Numbers(doc[p])' = Numbers(doc[p])
      BY <2>2 DEF Cells, Numbers
    <2>8. cell[p] + 1 \in 1..(Len(Cells(doc[p])) + 1)
      BY <2>2, <2>3, <2>4, <2>5
    <2>9. AddedOne(p)'
      BY <2>2, <2>4, <2>6, <2>7, <2>8 DEF AddedOne
    <2>10. p \in Ingestors => ReadingOne(p)'
      BY <2>2 DEF Reading, ReadingOne
    <2>11. RowsExist'
      BY <2>2 DEF RowsExist
    <2>12. QED
      BY <1>0, <2>1, <2>9, <2>10, <2>11, HandsKept
  <1>6. ASSUME NEW p \in Procs, Commit(p) PROVE HandInv'
    <2>1. OnlyMoves(p)
      BY <1>6, OneMoves DEF Step
    <2>2. /\ DOMAIN documents' = DOMAIN documents /\ doc[p] \in DOMAIN documents
      BY <1>6, CommitsOne
    <2>3. /\ pc'[p] = (IF p \in Ingestors THEN "row" ELSE "check") /\ added'[p] = {}
          /\ file' = file /\ pc[p] = "cells"
          /\ row' = IF p \in Ingestors THEN [row EXCEPT ![p] = row[p] + 1] ELSE row
      BY <1>6 DEF Commit, Goto, TypeOK
    <2>4. ASSUME p \in Ingestors PROVE ReadingOne(p)'
      <3>1. /\ documents[doc[p]].file = file[p] /\ documents[doc[p]].row = row[p] + 1
            /\ file[p] \notin Columnless /\ file[p] # None
        BY <2>3, <2>4 DEF Reading, ReadingOne
      <3>2. file[p] \in Files /\ row[p] \in Nat /\ row'[p] = row[p] + 1
        BY <2>3, <2>4, <3>1 DEF TypeOK
      <3>3. row[p] + 1 \in DOMAIN Rows[file[p]]
        BY <2>2, <3>1 DEF RowsExist
      <3>4. row[p] + 1 <= Len(Rows[file[p]])
        <4>1. Rows[file[p]] \in Seq(Seq(Phones \cup {Scrawl, Blank}))
          BY <3>2, DatasetConstantsOK DEF DatasetConstantsOK
        <4>2. QED
          BY <3>2, <3>3, <4>1, LenProperties
      <3>5. QED
        BY <2>3, <2>4, <3>1, <3>2, <3>4 DEF ReadingOne
    <2>5. QED
      BY <1>0, <2>1, <2>2, <2>3, <2>4, EmptyHandKept, DatasetConstantsOK
         DEF Procs, DatasetConstantsOK
  <1>7. ASSUME NEW n \in Normalizers, ListUnprocessed(n) \/ FinishList(n) PROVE HandInv'
    <2>1. OnlyMoves(n)
      BY <1>7, OneMoves DEF Step, Procs
    <2>2. /\ pc'[n] \in {"idle", "check"} /\ pc[n] # "cells" /\ added' = added
          /\ documents' = documents
      BY <1>7 DEF ListUnprocessed, FinishList, Goto, TypeOK, datasetVars, Procs
    <2>3. added'[n] = {}
      BY <2>2 DEF AddedSoFar, AddedOne, Procs
    <2>4. QED
      BY <1>0, <2>1, <2>2, <2>3, EmptyHandKept, DatasetConstantsOK DEF Procs, DatasetConstantsOK
  <1>8. ASSUME NEW n \in Normalizers, CheckListed(n) PROVE HandInv'
    <2>1. OnlyMoves(n) /\ documents' = documents /\ added' = added /\ pc[n] = "check"
      BY <1>8, OneMoves DEF Step, Procs, CheckListed, datasetVars
    <2>2. added[n] = {}
      BY <2>1 DEF AddedSoFar, AddedOne, Procs
    <2>3. PICK d \in todo[n] :
            IF Observed(d) THEN UNCHANGED <<pc, doc, cell, raced>> ELSE TakesDocument(n, d)
      BY <1>8 DEF CheckListed
    <2>4. CASE UNCHANGED <<pc, doc, cell, raced>>
      BY <1>0, <2>1, <2>2, <2>4, EmptyHandKept, DatasetConstantsOK DEF Procs, DatasetConstantsOK
    <2>5. CASE TakesDocument(n, d)
      <3>1. d \in DOMAIN documents
        BY <2>3 DEF TypeOK
      <3>2. pc'[n] = "cells" /\ doc'[n] = d /\ cell'[n] = 1
        BY <2>5, <3>1 DEF TakesDocument, Goto, TypeOK, Procs
      <3>3. /\ Len(Cells(d)) \in Nat /\ DOMAIN Cells(d) = 1..Len(Cells(d))
        BY <3>1, CellsAre
      <3>4. 1 \in 1..(Len(Cells(d)) + 1) /\ {i \in Numbers(d) : i < 1} = {}
        BY <3>3 DEF Numbers
      <3>5. Cells(doc[n])' = Cells(d) /\ Numbers(doc[n])' = Numbers(d)
        BY <2>1, <3>2 DEF Cells, Numbers
      <3>6. AddedOne(n)'
        BY <2>1, <2>2, <3>2, <3>4, <3>5 DEF AddedOne
      <3>7. RowsExist'
        BY <1>0, <2>1, <3>2, RowsExistKept DEF Procs
      <3>8. QED
        BY <1>0, <2>1, <3>6, <3>7, HandsKept, DatasetConstantsOK DEF Procs, DatasetConstantsOK
    <2>6. QED
      BY <2>3, <2>4, <2>5
  <1>9. ASSUME NEW p \in Procs, DeadlockAborts(p) \/ Crash(p) PROVE HandInv'
    <2>1. OnlyMoves(p) /\ documents' = documents /\ Ends(p)
      BY <1>9, OneMoves DEF DeadlockAborts, Crash, Dies, datasetVars
    <2>2. QED
      BY <1>2, <2>1
  <1>10. CASE UNCHANGED vars
    BY <1>0, <1>10 DEF vars, procVars, datasetVars, Reading, ReadingOne, RowsExist, AddedSoFar,
                       AddedOne, Numbers, Cells
  <1>11. QED
    BY <1>1, <1>3, <1>4, <1>5, <1>6, <1>7, <1>8, <1>9, <1>10 DEF Next, Step

-----------------------------------------------------------------------------
(* Rows ingested stay ingested: SuccessComplete.                           *)

LEMMA LoadedStays ==
    ASSUME TypeOK, DocumentsOnlyGrow, NEW f, NEW r, Loaded(f, r)
    PROVE  Loaded(f, r)'
  <1>1. PICK d \in DOMAIN documents :
            documents[d].file = f /\ documents[d].row = r /\ documents[d].loads > 0
    BY DEF Loaded
  <1>2. /\ d \in DOMAIN documents' /\ documents'[d].file = f /\ documents'[d].row = r
        /\ documents'[d].loads >= documents[d].loads
    BY <1>1 DEF DocumentsOnlyGrow
  <1>3. documents[d].loads \in Nat /\ documents'[d].loads \in Nat
    <2>1. documents' \in Seq(Document)
      BY DEF DocumentsOnlyGrow
    <2>2. documents'[d] \in Document /\ documents[d] \in Document
      BY <1>1, <1>2, <2>1, DocumentsAre, ElementOfSeq, LenProperties
    <2>3. QED
      BY <2>2 DEF Document
  <1>4. QED
    BY <1>1, <1>2, <1>3 DEF Loaded

\* Whose file or row changes: it begins, ends or commits.
LEMMA RowsMove ==
    ASSUME HandInv, [Next]_vars, NEW p \in Ingestors
    PROVE  \/ file'[p] = file[p] /\ row'[p] = row[p]
           \/ file'[p] = None
           \/ row'[p] = 0
           \/ Commit(p) /\ file'[p] = file[p] /\ row'[p] = row[p] + 1
  <1> USE DEF HandInv
  <1> DEFINE Moves(q) == \/ q \in Ingestors /\ \E f \in Files : StartIngestion(q, f)
                         \/ q \in Normalizers /\ ListUnprocessed(q)
                         \/ Step(q) \/ DeadlockAborts(q) \/ Crash(q)
  <1>1. UNCHANGED vars \/ \E q \in Procs : Moves(q)
    BY DEF Next, Procs
  <1>2. CASE UNCHANGED vars
    BY <1>2 DEF vars, procVars
  <1>3. ASSUME NEW q \in Procs, Moves(q), q # p
        PROVE  file'[p] = file[p] /\ row'[p] = row[p]
    <2>1. OnlyMoves(q)
      BY <1>3, OneMoves
    <2>2. QED
      BY <1>3, <2>1 DEF OnlyMoves
  <1>4. CASE Ends(p)
    BY <1>4, EndsOne DEF Procs
  <1>5. CASE \E f \in Files : StartIngestion(p, f)
    BY <1>5 DEF StartIngestion, Reading, ReadingOne
  <1>6. CASE Commit(p)
    <2>1. row' = [row EXCEPT ![p] = row[p] + 1] /\ file' = file
      BY <1>6 DEF Commit
    <2>2. QED
      BY <1>6, <2>1 DEF TypeOK
  <1>7. CASE Moves(p) /\ ~Ends(p) /\ ~Commit(p) /\ ~\E f \in Files : StartIngestion(p, f)
    <2>1. file' = file /\ row' = row
      BY <1>7, DatasetConstantsOK DEF Step, LookUpDataset, InsertDataset, FindColumns, InsertDocument,
         FinishFile, ObserveCell, DeadlockAborts, Crash, Dies, ListUnprocessed, CheckListed,
         FinishList, DatasetConstantsOK
    <2>2. QED
      BY <2>1
  <1>8. QED
    BY <1>1, <1>2, <1>3, <1>4, <1>5, <1>6, <1>7 DEF Procs

LEMMA WholeKept ==
    ASSUME HandInv, RowsLoaded, SuccessComplete, [Next]_vars
    PROVE  RowsLoaded' /\ SuccessComplete'
  <1> USE DEF HandInv
  <1>1. DocumentsOnlyGrow
    BY DocumentsGrow
  <1>2. ASSUME NEW p \in Ingestors, file'[p] # None, NEW r \in 1..row'[p]
        PROVE  Loaded(file[p], r)' /\ file'[p] = file[p]
    <2>1. row[p] \in Nat
      BY DEF TypeOK
    <2>2. CASE file'[p] = file[p] /\ row'[p] = row[p]
      <3>1. Loaded(file[p], r)
        BY <1>2, <2>2 DEF RowsLoaded
      <3>2. Loaded(file[p], r)' <=> \E d \in DOMAIN documents' :
                documents'[d].file = file[p] /\ documents'[d].row = r /\ documents'[d].loads > 0
        BY <2>2 DEF Loaded
      <3>3. \A f : Loaded(f, r) => \E d \in DOMAIN documents' :
                documents'[d].file = f /\ documents'[d].row = r /\ documents'[d].loads > 0
        BY <1>1, LoadedStays DEF Loaded
      <3>4. QED
        BY <2>2, <3>1, <3>2, <3>3
    <2>3. CASE Commit(p) /\ file'[p] = file[p] /\ row'[p] = row[p] + 1
      <3>1. CASE r = row[p] + 1
        <4>1. /\ documents[doc[p]].file = file[p] /\ documents[doc[p]].row = r
              /\ documents[doc[p]].loads = 0
          BY <2>3, <3>1 DEF Commit, Reading, ReadingOne
        <4>2. /\ doc[p] \in DOMAIN documents' /\ documents'[doc[p]].file = file[p]
              /\ documents'[doc[p]].row = r /\ documents'[doc[p]].loads = 1
          BY <2>3, <4>1, CommitsOne DEF Procs
        <4>3. QED
          BY <2>3, <4>2 DEF Loaded
      <3>2. CASE r # row[p] + 1
        <4>1. r \in 1..row[p] /\ file[p] # None
          BY <1>2, <2>1, <2>3, <3>2
        <4>2. Loaded(file[p], r)
          BY <4>1 DEF RowsLoaded
        <4>3. \A f : Loaded(f, r) => \E d \in DOMAIN documents' :
                documents'[d].file = f /\ documents'[d].row = r /\ documents'[d].loads > 0
          BY <1>1, LoadedStays DEF Loaded
        <4>4. QED
          BY <2>3, <4>2, <4>3 DEF Loaded
      <3>3. QED
        BY <3>1, <3>2
    <2>4. QED
      BY <1>2, <2>2, <2>3, RowsMove
  <1>3. ASSUME NEW f \in Files, status'[f] = "SUCCESS"
        PROVE  \/ status[f] = "SUCCESS" /\ processed'[f] = processed[f]
               \/ \E p \in Ingestors : FinishFile(p) /\ file[p] = f
    <2>1. CASE UNCHANGED <<status, processed>>
      BY <1>3, <2>1
    <2>2. ASSUME NEW p \in Ingestors, InsertDataset(p) \/ FindColumns(p)
          PROVE  status[f] = "SUCCESS" /\ processed'[f] = processed[f]
      BY <1>3, <2>2 DEF InsertDataset, FindColumns, TypeOK
    <2>3. ASSUME NEW p \in Ingestors, FinishFile(p), file[p] # f
          PROVE  status[f] = "SUCCESS" /\ processed'[f] = processed[f]
      BY <1>3, <2>3 DEF FinishFile, TypeOK
    <2>4. \/ UNCHANGED <<status, processed>>
          \/ \E p \in Ingestors : InsertDataset(p) \/ FindColumns(p) \/ FinishFile(p)
      BY DEF Next, Step, StartIngestion, ListUnprocessed, LookUpDataset, InsertDocument,
             CheckListed, FinishList, ObserveCell, Commit, DeadlockAborts, Crash, Dies,
             datasetVars, vars
    <2>5. QED
      BY <2>1, <2>2, <2>3, <2>4
  <1>4. ASSUME NEW f \in Files, NEW p \in Ingestors, FinishFile(p), file[p] = f
        PROVE  /\ f \notin Columnless /\ processed'[f] = Len(Rows[f])
               /\ \A r \in DOMAIN Rows[f] : Loaded(f, r)
    <2>1. pc[p] = "row" /\ row[p] = Len(Rows[f]) /\ processed'[f] = row[p] /\ file[p] # None
      BY <1>4, DatasetConstantsOK DEF FinishFile, TypeOK, DatasetConstantsOK
    <2>2. f \notin Columnless
      BY <1>4, <2>1 DEF Reading, ReadingOne
    <2>3. Rows[f] \in Seq(Seq(Phones \cup {Scrawl, Blank}))
      BY DatasetConstantsOK DEF DatasetConstantsOK
    <2>4. DOMAIN Rows[f] = 1..row[p]
      BY <2>1, <2>3, LenProperties
    <2>5. QED
      BY <1>4, <2>1, <2>2, <2>4 DEF RowsLoaded
  <1>5. RowsLoaded'
    <2>1. \A p \in Ingestors : file'[p] # None => \A r \in 1..row'[p] : Loaded(file[p], r)'
      BY <1>2
    <2>2. \A f \in Files : status'[f] = "SUCCESS" => f \notin Columnless
      BY <1>3, <1>4 DEF RowsLoaded
    <2>3. QED
      BY <2>1, <2>2 DEF RowsLoaded
  <1>6. SuccessComplete'
    <2> SUFFICES ASSUME NEW f \in Files, status'[f] = "SUCCESS"
                 PROVE  /\ processed'[f] = Len(Rows[f])
                        /\ \A r \in DOMAIN Rows[f] : Loaded(f, r)'
      BY DEF SuccessComplete, Loaded
    <2>1. processed'[f] = Len(Rows[f]) /\ \A r \in DOMAIN Rows[f] : Loaded(f, r)
      BY <1>3, <1>4 DEF SuccessComplete, Loaded
    <2>2. QED
      BY <1>1, <2>1, LoadedStays
  <1>7. QED
    BY <1>5, <1>6

-----------------------------------------------------------------------------
(* Observed twice only after a race: DoublesNeedRace.                      *)

\* d is observed at most once, and in one hand at most, before it races.
SeenOnce(d) ==
    /\ \A p, q \in Procs : doc[p] = d /\ doc[q] = d => p = q
    /\ Numbers(d) # {} =>
        /\ documents[d].loads + documents[d].scans <= 1
        /\ \A p \in Procs : doc[p] = d => documents[d].loads + documents[d].scans = 0

\* p takes d, which another holds already or nobody has observed.
LEMMA TakesOne ==
    ASSUME TypeOK, RacesSeen, DocumentsOnlyGrow, NEW p \in Procs, NEW d \in Nat, TakesDocument(p, d),
           \A e \in DOMAIN documents : documents'[e] = documents[e],
           \A e \in DOMAIN documents' : e \in DOMAIN documents \/ e = d,
           documents'[d].loads + documents'[d].scans = 0 \/ Numbers(d)' = {}
    PROVE  RacesSeen'
  <1>1. /\ doc'[p] = d /\ \A q \in Procs \ {p} : doc'[q] = doc[q]
        /\ raced \subseteq raced'
        /\ d \notin raced' => \A q \in Procs \ {p} : doc[q] # d
    BY DEF TakesDocument, TypeOK
  <1>2. ASSUME NEW e \in DOMAIN documents' \ raced' PROVE SeenOnce(e)'
    <2>1. CASE e = d
      <3>1. \A q \in Procs : doc'[q] = d => q = p
        BY <1>1, <1>2, <2>1
      <3>2. QED
        BY <2>1, <3>1 DEF SeenOnce
    <2>2. CASE e # d
      <3>1. e \in DOMAIN documents \ raced /\ documents'[e] = documents[e]
        BY <1>1, <1>2, <2>2
      <3>2. Numbers(e)' = Numbers(e) /\ SeenOnce(e)
        BY <3>1, CellsStay DEF RacesSeen, SeenOnce
      <3>3. \A q \in Procs : doc'[q] = e => q # p /\ doc[q] = e
        BY <1>1, <2>2
      <3>4. QED
        BY <3>1, <3>2, <3>3 DEF SeenOnce
    <2>3. QED
      BY <2>1, <2>2
  <1>3. QED
    BY <1>2 DEF RacesSeen, SeenOnce

LEMMA RacesKept == ASSUME HandInv, RacesSeen, [Next]_vars PROVE RacesSeen'
  <1> USE DEF HandInv
  <1>0. /\ DocumentsOnlyGrow /\ 0 \notin DOMAIN documents
        /\ \A d \in DOMAIN documents : documents[d].loads \in Nat /\ documents[d].scans \in Nat
    BY DocumentsGrow, DocumentsAre DEF Document
  <1>1. ASSUME documents' = documents, raced' = raced,
               \A p \in Procs : doc'[p] = doc[p] \/ doc'[p] = 0
        PROVE  RacesSeen'
    <2>1. ASSUME NEW d \in DOMAIN documents' \ raced' PROVE SeenOnce(d)'
      <3>1. d \in DOMAIN documents \ raced /\ Numbers(d)' = Numbers(d) /\ d # 0
        BY <1>0, <1>1, <2>1, CellsStay
      <3>2. SeenOnce(d) /\ \A p \in Procs : doc'[p] = d => doc[p] = d
        BY <1>1, <3>1 DEF RacesSeen, SeenOnce
      <3>3. QED
        BY <1>1, <3>1, <3>2 DEF SeenOnce
    <2>2. QED
      BY <2>1 DEF RacesSeen, SeenOnce
  <1>2. ASSUME NEW p \in Ingestors, InsertDocument(p) PROVE RacesSeen'
    <2>1. /\ Len(documents) + 1 \in Nat /\ TakesDocument(p, Len(documents) + 1)
          /\ \A d \in DOMAIN documents : documents'[d] = documents[d]
          /\ \A d \in DOMAIN documents' : d \in DOMAIN documents \/ d = Len(documents) + 1
          /\ documents'[Len(documents) + 1] = New(p)
      BY <1>2, InsertsOne, DocumentsAre DEF InsertDocument
    <2>2. documents'[Len(documents) + 1].loads = 0 /\ documents'[Len(documents) + 1].scans = 0
      BY <2>1 DEF New
    <2>3. QED
      BY <1>0, <2>1, <2>2, TakesOne DEF Procs
  <1>3. ASSUME NEW n \in Normalizers, CheckListed(n) PROVE RacesSeen'
    <2>1. PICK d \in todo[n] :
            IF Observed(d) THEN UNCHANGED <<pc, doc, cell, raced>> ELSE TakesDocument(n, d)
      BY <1>3 DEF CheckListed
    <2>2. d \in DOMAIN documents /\ d \in Nat /\ documents' = documents
      BY <1>3, DocumentsAre DEF TypeOK, CheckListed, datasetVars
    <2>3. CASE Observed(d)
      BY <1>1, <2>1, <2>2, <2>3
    <2>4. CASE ~Observed(d)
      <3>1. Numbers(d) \subseteq Noted(d)
        BY DatasetConstantsOK DEF Numbers, Noted, DatasetConstantsOK
      <3>2. documents[d].loads + documents[d].scans = 0 \/ Numbers(d) = {}
        BY <1>0, <2>2, <2>4, <3>1 DEF Observed
      <3>3. Numbers(d)' = Numbers(d)
        BY <1>0, <2>2, CellsStay
      <3>4. QED
        BY <1>0, <2>1, <2>2, <2>4, <3>2, <3>3, TakesOne DEF Procs
    <2>5. QED
      BY <2>3, <2>4
  <1>4. ASSUME NEW p \in Procs, Commit(p) PROVE RacesSeen'
    <2>1. /\ DOMAIN documents' = DOMAIN documents /\ raced' = raced /\ doc[p] \in DOMAIN documents
          /\ doc'[p] = 0 /\ \A q \in Procs \ {p} : doc'[q] = doc[q]
      BY <1>4, CommitsOne DEF Commit, TypeOK
    <2>2. ASSUME NEW d \in DOMAIN documents \ raced PROVE SeenOnce(d)'
      <3>1. SeenOnce(d) /\ Numbers(d)' = Numbers(d)
        BY <1>0, CellsStay DEF RacesSeen, SeenOnce
      <3>2. CASE d = doc[p]
        <4>1. \A q \in Procs : doc'[q] # d
          BY <1>0, <2>1, <3>1, <3>2 DEF SeenOnce
        <4>2. Numbers(d) # {} => documents[d].loads + documents[d].scans = 0
          BY <3>1, <3>2 DEF SeenOnce
        <4>3. documents'[d].loads + documents'[d].scans = documents[d].loads + documents[d].scans + 1
          <5>1. /\ documents'[d].loads = documents[d].loads + IF p \in Ingestors THEN 1 ELSE 0
                /\ documents'[d].scans = documents[d].scans + IF p \in Ingestors THEN 0 ELSE 1
            BY <1>4, <3>2, CommitsOne
          <5>2. documents[d].loads \in Nat /\ documents[d].scans \in Nat
            BY <1>0
          <5>3. QED
            BY <5>1, <5>2
        <4>4. QED
          BY <3>1, <4>1, <4>2, <4>3 DEF SeenOnce
      <3>3. CASE d # doc[p]
        <4>1. documents'[d].loads = documents[d].loads /\ documents'[d].scans = documents[d].scans
          BY <1>0, <1>4, <3>3, CommitsOne
        <4>2. \A q \in Procs : doc'[q] = d => doc[q] = d
          BY <1>0, <2>1
        <4>3. QED
          BY <3>1, <4>1, <4>2 DEF SeenOnce
      <3>4. QED
        BY <3>2, <3>3
    <2>3. QED
      BY <2>1, <2>2 DEF RacesSeen, SeenOnce
  <1>5. ASSUME NEW p \in Procs, Ends(p), documents' = documents, raced' = raced PROVE RacesSeen'
    BY <1>1, <1>5, EndsOne
  <1>6. \/ documents' = documents /\ raced' = raced /\ doc' = doc
        \/ \E p \in Procs : Ends(p) /\ documents' = documents /\ raced' = raced
        \/ \E p \in Ingestors : InsertDocument(p)
        \/ \E n \in Normalizers : CheckListed(n)
        \/ \E p \in Procs : Commit(p)
    BY DEF Next, Step, StartIngestion, ListUnprocessed, LookUpDataset, InsertDataset, Procs,
           FindColumns, FinishFile, FinishList, ObserveCell, DeadlockAborts, Crash, Dies,
           datasetVars, procVars, vars
  <1>7. QED
    BY <1>1, <1>2, <1>3, <1>4, <1>5, <1>6

LEMMA RacesTold == ASSUME TypeOK, RacesSeen PROVE DoublesNeedRace
  <1> SUFFICES ASSUME NEW d \in DOMAIN documents, documents[d].loads + documents[d].scans > 1,
                      Numbers(d) # {}, d \notin raced
               PROVE  FALSE
    BY DEF DoublesNeedRace
  <1>1. documents[d].loads + documents[d].scans <= 1
    BY DEF RacesSeen
  <1>2. documents[d].loads \in Nat /\ documents[d].scans \in Nat
    BY DocumentsAre DEF Document
  <1>3. QED
    BY <1>1, <1>2

-----------------------------------------------------------------------------
(* The counts are those of the observations: CountsMatch.                  *)

CountsInv == \A q \in Phones :
    IsFiniteSet(Observations(q)) /\ counts[q] = Cardinality(Observations(q))

Passes(d) == documents[d].loads + documents[d].scans

Places(d, q) == {i \in Numbers(d) : Cells(d)[i] = q}

\* What the next commit over d adds to the observations of q.
NextPass(d, q) == {<<d, Passes(d) + 1, i>> : i \in Places(d, q)}

LEMMA NextPassCount ==
    ASSUME NEW d, NEW q, IsFiniteSet(Places(d, q))
    PROVE  IsFiniteSet(NextPass(d, q)) /\ Cardinality(NextPass(d, q)) = Cardinality(Places(d, q))
  <1> DEFINE P == Places(d, q)
             N == NextPass(d, q)
             f == [i \in P |-> <<d, Passes(d) + 1, i>>]
  <1>1. f \in [P -> N] /\ \A o \in N : \E i \in P : f[i] = o
    BY DEF NextPass
  <1>2. \A i, j \in P : f[i] = f[j] => i = j
    OBVIOUS
  <1> HIDE DEF f, P, N
  <1>3. f \in Bijection(P, N)
    BY <1>1, <1>2 DEF Bijection, Injection, Surjection, IsInjective
  <1>4. QED
    BY <1>3, FS_Bijection DEF ExistsBijection, P, N

\* A document nobody has passed over contributes nothing.
LEMMA InsertKeepsObservations ==
    ASSUME HandInv, NEW p \in Ingestors, InsertDocument(p), NEW q \in Phones
    PROVE  Observations(q)' = Observations(q)
  <1> USE DEF HandInv
  <1>1. /\ \A d \in DOMAIN documents : documents'[d] = documents[d]
        /\ DOMAIN documents \subseteq DOMAIN documents'
        /\ \A d \in DOMAIN documents' : d \in DOMAIN documents \/ d = Len(documents) + 1
        /\ documents'[Len(documents) + 1] = New(p)
    BY InsertsOne, DocumentsAre
  <1> DEFINE Part(d) == {d} \X (1..(documents[d].loads + documents[d].scans))
                            \X {i \in Numbers(d) : Cells(d)[i] = q}
  <1>2. \A d \in DOMAIN documents : Part(d)' = Part(d)
    BY <1>1, CellsStay, DocumentsGrow DEF Next, Step, Procs, Numbers, Cells
  <1>3. ASSUME NEW d \in DOMAIN documents', d \notin DOMAIN documents PROVE Part(d)' = {}
    <2>1. d = Len(documents) + 1
      BY <1>1, <1>3
    <2>2. documents'[d].loads = 0 /\ documents'[d].scans = 0
      BY <1>1, <2>1 DEF New
    <2>3. 1..(documents'[d].loads + documents'[d].scans) = {}
      BY <2>2
    <2>4. QED
      BY <2>3
  <1>4. /\ Observations(q) = UNION {Part(d) : d \in DOMAIN documents}
        /\ Observations(q)' = UNION {Part(d)' : d \in DOMAIN documents'}
    BY DEF Observations
  <1>5. QED
    <2> HIDE DEF Part
    <2>1. QED
      BY <1>1, <1>2, <1>3, <1>4

\* A commit adds one pass over the document in hand.
LEMMA CommitObserves ==
    ASSUME HandInv, NEW p \in Procs, Commit(p), NEW q \in Phones
    PROVE  /\ Observations(q)' = Observations(q) \cup NextPass(doc[p], q)
           /\ Observations(q) \cap NextPass(doc[p], q) = {}
  <1> USE DEF HandInv
  <1> DEFINE Part(d) == {d} \X (1..(documents[d].loads + documents[d].scans))
                            \X {i \in Numbers(d) : Cells(d)[i] = q}
             N == NextPass(doc[p], q)
  <1>1. /\ DOMAIN documents' = DOMAIN documents /\ doc[p] \in DOMAIN documents
        /\ \A d \in DOMAIN documents : /\ documents[d].loads \in Nat
                                       /\ documents[d].scans \in Nat
    BY CommitsOne, DocumentsAre DEF Document
  <1>2. ASSUME NEW d \in DOMAIN documents
        PROVE  Cells(d)' = Cells(d) /\ Numbers(d)' = Numbers(d)
    BY CommitsOne DEF Cells, Numbers
  <1>3. ASSUME NEW d \in DOMAIN documents, d # doc[p] PROVE Part(d)' = Part(d)
    <2>1. documents'[d].loads + documents'[d].scans = documents[d].loads + documents[d].scans
      BY <1>1, <1>3, CommitsOne
    <2>2. QED
      BY <1>2, <1>3, <2>1
  <1>4. ASSUME NEW d \in DOMAIN documents, d = doc[p]
        PROVE  Part(d)' = Part(d) \cup N /\ Part(d) \cap N = {}
    <2>1. /\ documents'[d].loads = documents[d].loads + IF p \in Ingestors THEN 1 ELSE 0
          /\ documents'[d].scans = documents[d].scans + IF p \in Ingestors THEN 0 ELSE 1
      BY <1>4, CommitsOne
    <2>2. documents'[d].loads + documents'[d].scans = Passes(d) + 1 /\ Passes(d) \in Nat
      BY <1>1, <2>1 DEF Passes
    <2>3. /\ 1..(Passes(d) + 1) = (1..Passes(d)) \cup {Passes(d) + 1}
          /\ Passes(d) + 1 \notin 1..Passes(d)
      BY <2>2
    <2>4. N = {<<d, Passes(d) + 1, i>> : i \in {j \in Numbers(d) : Cells(d)[j] = q}}
      BY <1>4 DEF NextPass, Places
    <2> DEFINE S == {j \in Numbers(d) : Cells(d)[j] = q}
    <2>5. /\ Part(d) = {d} \X (1..Passes(d)) \X S
          /\ Part(d)' = {d} \X (1..(Passes(d) + 1)) \X S
      BY <1>2, <1>4, <2>2 DEF Passes
    <2> HIDE DEF Part, N, S
    <2>6. QED
      BY <2>3, <2>4, <2>5 DEF S
  <1>5. \A d \in DOMAIN documents : d # doc[p] => Part(d) \cap N = {}
    BY DEF NextPass
  <1>6. /\ Observations(q) = UNION {Part(d) : d \in DOMAIN documents}
        /\ Observations(q)' = UNION {Part(d)' : d \in DOMAIN documents'}
    BY DEF Observations
  <1>7. QED
    <2> HIDE DEF Part, N
    <2> DEFINE U == UNION {Part(d) : d \in DOMAIN documents}
               V == UNION {Part(d)' : d \in DOMAIN documents}
    <2>1. U \cap N = {}
      BY <1>4, <1>5
    <2>2. V \subseteq U \cup N
      <3> SUFFICES ASSUME NEW d \in DOMAIN documents, NEW o \in Part(d)' PROVE o \in U \cup N
        OBVIOUS
      <3>1. QED
        BY <1>3, <1>4
    <2>3. U \subseteq V
      <3> SUFFICES ASSUME NEW d \in DOMAIN documents, NEW o \in Part(d) PROVE o \in V
        OBVIOUS
      <3>1. o \in Part(d)'
        BY <1>3, <1>4
      <3>2. QED
        BY <3>1
    <2>4. N \subseteq V
      <3>1. PICK d \in DOMAIN documents : d = doc[p]
        BY <1>1
      <3>2. N \subseteq Part(d)'
        BY <1>4, <3>1
      <3>3. QED
        BY <3>1, <3>2
    <2> HIDE DEF U, V
    <2>5. V = U \cup N
      BY <2>2, <2>3, <2>4
    <2>6. Observations(q) = U /\ Observations(q)' = V
      BY <1>1, <1>6 DEF U, V
    <2>7. QED
      BY <2>1, <2>5, <2>6 DEF N

LEMMA CountsKept == ASSUME HandInv, CountsInv, [Next]_vars PROVE CountsInv'
  <1> USE DEF HandInv
  <1>1. CASE UNCHANGED <<documents, counts>>
    BY <1>1 DEF CountsInv, Observations, Numbers, Cells
  <1>2. ASSUME NEW p \in Ingestors, InsertDocument(p) PROVE CountsInv'
    <2>1. counts' = counts
      BY <1>2 DEF InsertDocument
    <2>2. QED
      BY <1>2, <2>1, InsertKeepsObservations DEF CountsInv
  <1>3. ASSUME NEW p \in Procs, Commit(p) PROVE CountsInv'
    <2> SUFFICES ASSUME NEW q \in Phones
                 PROVE  /\ IsFiniteSet(Observations(q)')
                        /\ counts'[q] = Cardinality(Observations(q)')
      BY DEF CountsInv
    <2>1. pc[p] = "cells" /\ doc[p] \in DOMAIN documents /\ cell[p] > Len(Cells(doc[p]))
      BY <1>3, CommitsOne DEF Commit
    <2>2. added[p] = Numbers(doc[p])
      <3>1. /\ added[p] = {i \in Numbers(doc[p]) : i < cell[p]}
            /\ cell[p] \in 1..(Len(Cells(doc[p])) + 1)
        BY <2>1 DEF AddedSoFar, AddedOne
      <3>2. /\ DOMAIN Cells(doc[p]) = 1..Len(Cells(doc[p])) /\ Len(Cells(doc[p])) \in Nat
        BY <2>1, CellsAre
      <3>3. QED
        BY <2>1, <3>1, <3>2 DEF Numbers
    <2>3. IsFiniteSet(Places(doc[p], q)) /\ Cardinality(Places(doc[p], q)) \in Nat
      <3>1. Places(doc[p], q) \subseteq added[p]
        BY <2>2 DEF Places
      <3>2. QED
        BY <2>1, <3>1, UpsertedFinite
    <2>4. counts'[q] = counts[q] + Cardinality(Places(doc[p], q))
      BY <1>3, <2>2 DEF Commit, Places
    <2>5. /\ IsFiniteSet(NextPass(doc[p], q))
          /\ Cardinality(NextPass(doc[p], q)) = Cardinality(Places(doc[p], q))
      BY <2>3, NextPassCount
    <2>6. /\ Observations(q)' = Observations(q) \cup NextPass(doc[p], q)
          /\ Observations(q) \cap NextPass(doc[p], q) = {}
      BY <1>3, CommitObserves
    <2>7. /\ IsFiniteSet(Observations(q)) /\ counts[q] = Cardinality(Observations(q))
          /\ counts[q] \in Nat
      BY DEF CountsInv, TypeOK
    <2>8. /\ IsFiniteSet(Observations(q) \cup NextPass(doc[p], q))
          /\ Cardinality(Observations(q) \cup NextPass(doc[p], q))
                = Cardinality(Observations(q)) + Cardinality(NextPass(doc[p], q))
                  - Cardinality({})
      BY <2>5, <2>6, <2>7, FS_Union
    <2>9. QED
      BY <2>3, <2>4, <2>5, <2>6, <2>7, <2>8, FS_EmptySet
  <1>4. \/ UNCHANGED <<documents, counts>>
        \/ \E p \in Ingestors : InsertDocument(p)
        \/ \E p \in Procs : Commit(p)
    BY DEF Next, Step, StartIngestion, ListUnprocessed, LookUpDataset, InsertDataset,
           FindColumns, FinishFile, CheckListed, FinishList, ObserveCell,
           DeadlockAborts, Crash, Dies, datasetVars, vars
  <1>5. QED
    BY <1>1, <1>2, <1>3, <1>4

-----------------------------------------------------------------------------
(* Undisturbed files are stored once: ExactUnlessDisturbed.                *)

SameDocuments(f) ==
    /\ DocumentsOf(f)' = DocumentsOf(f)
    /\ \A d \in DocumentsOf(f) : documents'[d] = documents[d]

\* What an ingestor does with another file is nothing to f.
LEMMA OtherFile ==
    ASSUME HandInv, NEW f \in Files, Undisturbed(f), NEW p \in Ingestors, OnlyMoves(p),
           file[p] # f, file'[p] # f, status'[f] = status[f], SameDocuments(f),
           doc'[p] \notin DocumentsOf(f)
    PROVE  Undisturbed(f)'
  <1> USE DEF HandInv
  <1>1. doc[p] \notin DocumentsOf(f)
    BY DEF DocumentsOf, TypeOK, Reading, ReadingOne, Procs
  <1>2. /\ \A q \in Ingestors \ {p} : /\ file'[q] = file[q] /\ row'[q] = row[q]
                                      /\ pc'[q] = pc[q] /\ doc'[q] = doc[q]
        /\ \A n \in Normalizers : doc'[n] = doc[n] /\ todo'[n] = todo[n]
    BY DatasetConstantsOK DEF OnlyMoves, Procs, DatasetConstantsOK
  <1>3. \A d \in DocumentsOf(f) : Numbers(d)' = Numbers(d)
    BY DEF SameDocuments, Numbers, Cells
  <1>4. OneReader(f)'
    BY <1>2 DEF Undisturbed, OneReader
  <1>5. OneEach(f)'
    BY DEF Undisturbed, OneEach, SameDocuments
  <1>6. OnePass(f)'
    <2>1. \A d \in DocumentsOf(f) :
            (\E q \in Ingestors : doc'[q] = d) <=> (\E q \in Ingestors : doc[q] = d)
      BY <1>1, <1>2
    <2>2. QED
      BY <1>2, <1>3, <2>1 DEF Undisturbed, OnePass, SameDocuments
  <1>7. OfThisRun(f)'
    BY <1>2 DEF Undisturbed, OfThisRun, SameDocuments
  <1>8. QED
    BY <1>4, <1>5, <1>6, <1>7 DEF Undisturbed

\* The steps of f's reader between its documents.
LEMMA OwnFile ==
    ASSUME HandInv, NEW f \in Files, Undisturbed(f), NEW p \in Ingestors, OnlyMoves(p),
           documents' = documents, pc[p] # "cells", doc'[p] = 0,
           file'[p] = f => \A q \in Ingestors \ {p} : file[q] # f,
           OfThisRun(f)'
    PROVE  Undisturbed(f)'
  <1> USE DEF HandInv
  <1>1. 0 \notin DocumentsOf(f) /\ doc[p] = 0
    BY DocumentsAre DEF DocumentsOf, TypeOK, Procs
  <1>2. /\ \A q \in Ingestors \ {p} : file'[q] = file[q] /\ doc'[q] = doc[q]
        /\ \A n \in Normalizers : doc'[n] = doc[n] /\ todo'[n] = todo[n]
    BY DatasetConstantsOK DEF OnlyMoves, Procs, DatasetConstantsOK
  <1>3. DocumentsOf(f)' = DocumentsOf(f) /\ \A d \in DocumentsOf(f) : Numbers(d)' = Numbers(d)
    BY DEF DocumentsOf, Numbers, Cells
  <1>4. OneReader(f)'
    BY <1>2 DEF Undisturbed, OneReader
  <1>5. OneEach(f)'
    BY <1>3 DEF Undisturbed, OneEach
  <1>6. OnePass(f)'
    <2>1. \A d \in DocumentsOf(f) :
            (\E q \in Ingestors : doc'[q] = d) <=> (\E q \in Ingestors : doc[q] = d)
      BY <1>1, <1>2
    <2>2. QED
      BY <1>2, <1>3, <2>1 DEF Undisturbed, OnePass
  <1>7. QED
    BY <1>4, <1>5, <1>6 DEF Undisturbed

\* A normalizer comes near the numbers of f's documents only by disturbing f.
LEMMA NormalizerKeeps ==
    ASSUME HandInv, NEW f \in Files, Undisturbed(f), NEW n \in Normalizers, OnlyMoves(n),
           status' = status, DOMAIN documents' = DOMAIN documents,
           \A d \in DOMAIN documents :
                /\ documents'[d].file = documents[d].file
                /\ documents'[d].row = documents[d].row
                /\ documents'[d].loads = documents[d].loads,
           \A d \in DocumentsOf(f) : Numbers(d) # {} =>
                documents'[d].scans = documents[d].scans /\ d \notin todo'[n] /\ doc'[n] # d
    PROVE  Undisturbed(f)'
  <1>1. /\ \A q \in Ingestors : /\ file'[q] = file[q] /\ row'[q] = row[q]
                                /\ pc'[q] = pc[q] /\ doc'[q] = doc[q]
        /\ \A m \in Normalizers \ {n} : doc'[m] = doc[m] /\ todo'[m] = todo[m]
    BY DatasetConstantsOK DEF OnlyMoves, Procs, DatasetConstantsOK
  <1>2. DocumentsOf(f)' = DocumentsOf(f) /\ \A d \in DocumentsOf(f) : Numbers(d)' = Numbers(d)
    BY DEF DocumentsOf, Numbers, Cells
  <1>3. \A d \in DocumentsOf(f) : d \in DOMAIN documents
    BY DEF DocumentsOf
  <1>4. OneReader(f)'
    BY <1>1 DEF Undisturbed, OneReader
  <1>5. OneEach(f)'
    BY <1>2, <1>3 DEF Undisturbed, OneEach
  <1>6. OnePass(f)'
    BY <1>1, <1>2, <1>3 DEF Undisturbed, OnePass
  <1>7. OfThisRun(f)'
    BY <1>1, <1>2, <1>3 DEF Undisturbed, OfThisRun
  <1>8. QED
    BY <1>4, <1>5, <1>6, <1>7 DEF Undisturbed

LEMMA IngestorKeeps ==
    ASSUME HandInv, HandInv', NEW f \in Files, Undisturbed(f), f \notin disturbed',
           NEW p \in Ingestors, OnlyMoves(p),
           \/ \E g \in Files : StartIngestion(p, g)
           \/ LookUpDataset(p) \/ InsertDataset(p) \/ FindColumns(p) \/ FinishFile(p)
    PROVE  Undisturbed(f)'
  <1> USE DEF HandInv
  <1>1. /\ documents' = documents /\ p \in Procs /\ 0 \notin DOMAIN documents
        /\ 0 \notin DocumentsOf(f) /\ SameDocuments(f) /\ f # None
    <2>1. documents' = documents
      BY DEF StartIngestion, LookUpDataset, InsertDataset, FindColumns, FinishFile, datasetVars
    <2>2. QED
      BY <2>1, DocumentsAre, DatasetConstantsOK DEF SameDocuments, DocumentsOf, Procs, DatasetConstantsOK
  <1>2. pc[p] # "cells" /\ doc[p] = 0 /\ doc'[p] = 0
    <2>1. pc[p] # "cells" /\ pc'[p] # "cells"
      BY <1>1, EndsOne DEF StartIngestion, LookUpDataset, InsertDataset, FindColumns, FinishFile, Goto, TypeOK
    <2>2. QED
      BY <1>1, <2>1 DEF TypeOK
  <1>3. \A q \in Ingestors \ {p} : pc'[q] = pc[q] /\ file'[q] = file[q] /\ row'[q] = row[q]
    BY DEF OnlyMoves, Procs
  <1>4. \A d \in DocumentsOf(f)' : d \in DocumentsOf(f) /\ documents'[d] = documents[d]
    BY <1>1 DEF SameDocuments
  <1>5. CASE file[p] # f /\ file'[p] # f
    <2>1. status'[f] = status[f]
      BY <1>5 DEF StartIngestion, LookUpDataset, InsertDataset, FindColumns, FinishFile, datasetVars, TypeOK
    <2>2. QED
      BY <1>1, <1>2, <1>5, <2>1, OtherFile
  <1>6. CASE file[p] # f /\ file'[p] = f
    <2>1. StartIngestion(p, f)
      <3>1. \A g \in Files : StartIngestion(p, g) => file'[p] = g
        BY DEF StartIngestion, TypeOK
      <3>2. LookUpDataset(p) \/ InsertDataset(p) \/ FindColumns(p) \/ FinishFile(p) =>
                file'[p] = file[p] \/ file'[p] = None
        BY <1>1, EndsOne DEF LookUpDataset, InsertDataset, FindColumns, FinishFile
      <3>3. QED
        BY <1>1, <1>6, <3>1, <3>2
    <2>2. (\A q \in Ingestors : file[q] # f) /\ pc'[p] = "lookup" /\ status' = status
      BY <2>1 DEF StartIngestion, Goto, TypeOK, datasetVars, Procs
    <2>3. OfThisRun(f)'
      BY <1>3, <1>4, <2>2 DEF Undisturbed, OfThisRun
    <2>4. QED
      BY <1>1, <1>2, <2>2, <2>3, OwnFile
  <1>7. CASE file[p] = f
    <2>1. \A q \in Ingestors \ {p} : file[q] # f
      BY <1>7 DEF Undisturbed, OneReader
    <2>2. \/ LookUpDataset(p) \/ InsertDataset(p) \/ FindColumns(p) \/ FinishFile(p)
      BY <1>1, <1>7 DEF StartIngestion, Reading, ReadingOne
    <2>3. OfThisRun(f)'
      <3>1. CASE FinishFile(p)
        <4>1. status'[f] = "SUCCESS" /\ file'[p] # f
          BY <1>1, <1>7, <3>1, EndsOne DEF FinishFile, TypeOK
        <4>2. QED
          BY <1>3, <2>1, <4>1 DEF OfThisRun
      <3>2. CASE LookUpDataset(p) /\ status[f] = "SUCCESS"
        <4>1. status'[f] = "SUCCESS" /\ file'[p] # f
          BY <1>1, <1>7, <3>2, EndsOne DEF LookUpDataset, datasetVars
        <4>2. QED
          BY <1>3, <2>1, <4>1 DEF OfThisRun
      <3>3. CASE (LookUpDataset(p) /\ status[f] # "SUCCESS") \/ InsertDataset(p) \/ FindColumns(p)
        <4>1. status[f] # "SUCCESS" /\ pc[p] \in {"lookup", "insert", "columns"}
          BY <1>7, <3>3 DEF Undisturbed, OfThisRun, LookUpDataset, InsertDataset, FindColumns
        <4>2. status'[f] # "SUCCESS"
          BY <1>7, <3>3, <4>1 DEF LookUpDataset, InsertDataset, FindColumns, datasetVars, TypeOK
        <4>3. DocumentsOf(f) = {}
          BY <2>1, <4>1 DEF Undisturbed, OfThisRun
        <4>4. QED
          BY <1>4, <4>2, <4>3 DEF OfThisRun
      <3>4. QED
        BY <2>2, <3>1, <3>2, <3>3
    <2>4. QED
      BY <1>1, <1>2, <2>1, <2>3, OwnFile
  <1>8. QED
    BY <1>5, <1>6, <1>7

LEMMA InsertKeeps ==
    ASSUME HandInv, NEW f \in Files, Undisturbed(f),
           NEW p \in Ingestors, OnlyMoves(p), InsertDocument(p)
    PROVE  Undisturbed(f)'
  <1> USE DEF HandInv
  <1> DEFINE new == Len(documents) + 1
  <1>1. /\ DOMAIN documents \subseteq DOMAIN documents' /\ new \in DOMAIN documents'
        /\ \A d \in DOMAIN documents : documents'[d] = documents[d]
        /\ \A d \in DOMAIN documents' : d \in DOMAIN documents \/ d = new
        /\ documents'[new] = New(p) /\ new \notin DOMAIN documents
    BY InsertsOne, DocumentsAre
  <1>2. /\ pc[p] = "row" /\ pc'[p] = "cells" /\ doc'[p] = new /\ file' = file /\ row' = row
        /\ status' = status
    BY DEF InsertDocument, TakesDocument, Goto, TypeOK, Procs
  <1>3. /\ documents'[new].file = file[p] /\ documents'[new].row = row[p] + 1
        /\ documents'[new].loads = 0 /\ documents'[new].scans = 0
    BY <1>1 DEF New
  <1> HIDE DEF new
  <1>4. /\ \A q \in Ingestors \ {p} : pc'[q] = pc[q] /\ doc'[q] = doc[q]
        /\ \A n \in Normalizers : doc'[n] = doc[n] /\ todo'[n] = todo[n]
    BY DatasetConstantsOK DEF OnlyMoves, Procs, DatasetConstantsOK
  <1>5. CASE file[p] # f
    <2>1. SameDocuments(f) /\ new \notin DocumentsOf(f)
      BY <1>1, <1>3, <1>5 DEF SameDocuments, DocumentsOf
    <2>2. QED
      BY <1>2, <1>5, <2>1, OtherFile
  <1>6. CASE file[p] = f
    <2>1. DocumentsOf(f)' = DocumentsOf(f) \cup {new} /\ new \notin DocumentsOf(f)
      BY <1>1, <1>3, <1>6 DEF DocumentsOf
    <2>2. \A d \in DocumentsOf(f) : documents'[d] = documents[d] /\ Numbers(d)' = Numbers(d)
      BY <1>1 DEF DocumentsOf, Numbers, Cells
    <2>3. status[f] # "SUCCESS" /\ \A q \in Ingestors \ {p} : file[q] # f
      BY <1>2, <1>6 DEF Undisturbed, OfThisRun, OneReader
    <2>4. \A d \in DocumentsOf(f) : documents[d].row <= row[p]
      BY <1>2, <2>3 DEF Undisturbed, OfThisRun
    <2>5. row[p] \in Nat /\ \A d \in DocumentsOf(f) : documents[d].row \in Nat
      BY DocumentsAre DEF TypeOK, DocumentsOf, Document
    <2>6. OneReader(f)'
      BY <1>2 DEF Undisturbed, OneReader
    <2>7. OneEach(f)'
      BY <1>3, <2>1, <2>2, <2>4, <2>5 DEF Undisturbed, OneEach
    <2>8. OnePass(f)'
      <3>1. ASSUME NEW d \in DocumentsOf(f)
            PROVE  (\E q \in Ingestors : doc'[q] = d) <=> (\E q \in Ingestors : doc[q] = d)
        <4>1. doc[p] # d /\ doc'[p] # d
          BY <1>2, <2>1 DEF DocumentsOf, TypeOK, Procs
        <4>2. QED
          BY <1>4, <4>1
      <3>2. ASSUME NEW d \in DocumentsOf(f)
            PROVE  /\ documents'[d].loads = IF \E q \in Ingestors : doc'[q] = d THEN 0 ELSE 1
                   /\ Numbers(d)' # {} =>
                        /\ documents'[d].scans = 0
                        /\ \A n \in Normalizers : d \notin todo'[n] /\ doc'[n] # d
        BY <1>4, <2>2, <3>1 DEF Undisturbed, OnePass
      <3>3. \A n \in Normalizers : new \notin todo'[n] /\ doc'[n] # new
        <4>1. \A n \in Normalizers : todo[n] \subseteq DOMAIN documents
          BY DEF TypeOK
        <4>2. new # 0
          BY DocumentsAre DEF new
        <4>3. \A n \in Normalizers : doc[n] # new
          BY <1>1, <4>2 DEF TypeOK, Procs
        <4>4. QED
          BY <1>1, <1>4, <4>1, <4>3
      <3>4. documents'[new].loads = IF \E q \in Ingestors : doc'[q] = new THEN 0 ELSE 1
        BY <1>2, <1>3
      <3>5. QED
        BY <1>3, <2>1, <3>2, <3>3, <3>4 DEF OnePass
    <2>9. OfThisRun(f)'
      BY <1>2, <1>3, <1>6, <2>1, <2>2, <2>3, <2>4, <2>5 DEF OfThisRun
    <2>10. QED
      BY <2>6, <2>7, <2>8, <2>9 DEF Undisturbed
  <1>7. QED
    BY <1>5, <1>6

LEMMA CommitKeeps ==
    ASSUME HandInv, NEW f \in Files, Undisturbed(f),
           NEW p \in Ingestors, OnlyMoves(p), Commit(p)
    PROVE  Undisturbed(f)'
  <1> USE DEF HandInv
  <1>1. /\ DOMAIN documents' = DOMAIN documents /\ doc[p] \in DOMAIN documents
        /\ 0 \notin DOMAIN documents
        /\ \A d \in DOMAIN documents :
            /\ documents'[d].file = documents[d].file /\ documents'[d].row = documents[d].row
            /\ documents'[d].scans = documents[d].scans
            /\ documents'[d].loads = documents[d].loads + IF d = doc[p] THEN 1 ELSE 0
            /\ documents'[d] \in Document /\ documents[d] \in Document
    <2>1. p \in Procs
      BY DEF Procs
    <2>2. /\ documents' \in Seq(Document) /\ DOMAIN documents' = DOMAIN documents
          /\ doc[p] \in DOMAIN documents
      BY <2>1, CommitsOne
    <2>3. \A d \in DOMAIN documents : documents'[d] \in Document /\ documents[d] \in Document
      BY <2>2, DocumentsAre, ElementOfSeq, LenProperties
    <2>4. \A d \in DOMAIN documents : documents'[d].scans = documents[d].scans + 0
      BY <2>1, CommitsOne
    <2>5. \A d \in DOMAIN documents : documents'[d].scans = documents[d].scans
      BY <2>3, <2>4 DEF Document
    <2>6. QED
      BY <2>1, <2>2, <2>3, <2>5, CommitsOne, DocumentsAre
  <1>2. /\ pc[p] = "cells" /\ pc'[p] = "row" /\ doc'[p] = 0 /\ file' = file /\ status' = status
        /\ row'[p] = row[p] + 1
    BY DEF Commit, Goto, TypeOK, Procs
  <1>3. /\ documents[doc[p]].file = file[p] /\ documents[doc[p]].row = row[p] + 1
        /\ documents[doc[p]].loads = 0
    BY <1>2 DEF Reading, ReadingOne
  <1>4. /\ \A q \in Ingestors \ {p} : pc'[q] = pc[q] /\ doc'[q] = doc[q] /\ row'[q] = row[q]
        /\ \A n \in Normalizers : doc'[n] = doc[n] /\ todo'[n] = todo[n]
    BY DatasetConstantsOK DEF OnlyMoves, Procs, DatasetConstantsOK
  <1>5. /\ DocumentsOf(f)' = DocumentsOf(f) /\ DocumentsOf(f) \subseteq DOMAIN documents
        /\ \A d \in DocumentsOf(f) : Numbers(d)' = Numbers(d)
    BY <1>1 DEF DocumentsOf, Numbers, Cells
  <1>6. CASE file[p] # f
    <2>1. OneReader(f)'
      BY <1>2 DEF Undisturbed, OneReader
    <2>2. OneEach(f)'
      BY <1>1, <1>5 DEF Undisturbed, OneEach
    <2>3. \A d \in DocumentsOf(f) :
            documents'[d].loads = documents[d].loads /\ d # doc[p] /\ d # 0
      <3>1. \A d \in DocumentsOf(f) : d # doc[p] /\ d # 0
        BY <1>1, <1>3, <1>6 DEF DocumentsOf
      <3>2. \A d \in DocumentsOf(f) : documents'[d].loads = documents[d].loads + 0
        BY <1>1, <1>5, <3>1
      <3>3. QED
        BY <1>1, <1>5, <3>1, <3>2 DEF Document
    <2>4. \A d \in DocumentsOf(f) :
            (\E q \in Ingestors : doc'[q] = d) <=> (\E q \in Ingestors : doc[q] = d)
      BY <1>2, <1>4, <2>3
    <2>5. OnePass(f)'
      BY <1>1, <1>4, <1>5, <2>3, <2>4 DEF Undisturbed, OnePass
    <2>6. OfThisRun(f)'
      BY <1>1, <1>2, <1>4, <1>5, <1>6 DEF Undisturbed, OfThisRun
    <2>7. QED
      BY <2>1, <2>2, <2>5, <2>6 DEF Undisturbed
  <1>7. CASE file[p] = f
    <2>1. status[f] # "SUCCESS" /\ \A q \in Ingestors \ {p} : file[q] # f
      BY <1>2, <1>7 DEF Undisturbed, OfThisRun, OneReader
    <2>2. \A d \in DocumentsOf(f) : documents[d].row <= row[p] + 1
      BY <1>2, <2>1 DEF Undisturbed, OfThisRun
    <2>3. OneReader(f)'
      BY <1>2 DEF Undisturbed, OneReader
    <2>4. OneEach(f)'
      BY <1>1, <1>5 DEF Undisturbed, OneEach
    <2>5. OnePass(f)'
      <3>1. ASSUME NEW d \in DocumentsOf(f)
            PROVE  documents'[d].loads = IF \E q \in Ingestors : doc'[q] = d THEN 0 ELSE 1
        <4>1. CASE d = doc[p]
          <5>1. documents'[d].loads = 1
            BY <1>1, <1>3, <4>1
          <5>2. \A q \in Ingestors \ {p} : pc[q] = "cells" => doc[q] # d
            BY <1>2, <4>1 DEF RowsExist
          <5>3. \A q \in Ingestors \ {p} : doc[q] # d
            BY <1>1, <4>1, <5>2 DEF TypeOK, Procs
          <5>4. QED
            BY <1>1, <1>2, <1>4, <4>1, <5>1, <5>3
        <4>2. CASE d # doc[p]
          <5>1. documents'[d].loads = documents[d].loads + 0
            BY <1>1, <1>5, <4>2
          <5>2. documents'[d].loads = documents[d].loads /\ d # 0
            BY <1>1, <1>5, <5>1 DEF Document
          <5>3. (\E q \in Ingestors : doc'[q] = d) <=> (\E q \in Ingestors : doc[q] = d)
            BY <1>2, <1>4, <4>2, <5>2
          <5>4. QED
            BY <5>2, <5>3 DEF Undisturbed, OnePass
        <4>3. QED
          BY <4>1, <4>2
      <3>2. QED
        BY <1>1, <1>4, <1>5, <3>1 DEF Undisturbed, OnePass
    <2>6. OfThisRun(f)'
      BY <1>1, <1>2, <1>5, <1>7, <2>1, <2>2 DEF OfThisRun
    <2>7. QED
      BY <2>3, <2>4, <2>5, <2>6 DEF Undisturbed
  <1>8. QED
    BY <1>6, <1>7

LEMMA NormalizersKeep ==
    ASSUME HandInv, NEW f \in Files, Undisturbed(f), f \notin disturbed',
           NEW n \in Normalizers, OnlyMoves(n),
           \/ ListUnprocessed(n) \/ CheckListed(n) \/ FinishList(n) \/ Commit(n)
           \/ Ends(n) /\ UNCHANGED datasetVars
    PROVE  Undisturbed(f)'
  <1> USE DEF HandInv
  <1>0. n \in Procs /\ n \notin Ingestors
    BY DatasetConstantsOK DEF Procs, DatasetConstantsOK
  <1>1. /\ 0 \notin DocumentsOf(f) /\ DocumentsOf(f) \subseteq DOMAIN documents
        /\ \A d \in DOMAIN documents : documents[d] \in Document
    BY DocumentsAre DEF DocumentsOf
  <1>2. \A d \in DocumentsOf(f) : Numbers(d) # {} => d \notin todo[n] /\ doc[n] # d
    BY DEF Undisturbed, OnePass
  <1>3. ASSUME UNCHANGED <<status, documents>>,
               \A d \in DocumentsOf(f) : Numbers(d) # {} => d \notin todo'[n] /\ doc'[n] # d
        PROVE  Undisturbed(f)'
    BY <1>1, <1>3, NormalizerKeeps
  <1>4. CASE ListUnprocessed(n)
    <2> DEFINE listed == {d \in DOMAIN documents : ~Observed(d)}
    <2>1. /\ todo' = [todo EXCEPT ![n] = listed] /\ doc' = doc /\ UNCHANGED <<status, documents>>
          /\ disturbed' = disturbed \cup
                {documents[d].file : d \in {e \in listed : Numbers(e) # {}}}
      BY <1>4 DEF ListUnprocessed, datasetVars
    <2>2. todo'[n] = listed
      BY <2>1 DEF TypeOK
    <2>3. \A d \in DocumentsOf(f) : Numbers(d) # {} => d \notin listed
      BY <2>1 DEF DocumentsOf
    <2>4. QED
      BY <1>2, <1>3, <2>1, <2>2, <2>3
  <1>5. CASE CheckListed(n)
    <2>1. PICK d \in todo[n] :
            /\ todo' = [todo EXCEPT ![n] = @ \ {d}]
            /\ IF Observed(d) THEN UNCHANGED <<pc, doc, cell, raced>> ELSE TakesDocument(n, d)
      BY <1>5 DEF CheckListed
    <2>2. todo'[n] \subseteq todo[n] /\ doc'[n] \in {doc[n], d} /\ UNCHANGED <<status, documents>>
      BY <1>0, <1>5, <2>1 DEF CheckListed, TakesDocument, TypeOK, datasetVars
    <2>3. QED
      BY <1>2, <1>3, <2>1, <2>2
  <1>6. CASE FinishList(n)
    BY <1>2, <1>3, <1>6 DEF FinishList, datasetVars
  <1>7. CASE Ends(n) /\ UNCHANGED datasetVars
    <2>1. todo'[n] = {} /\ doc'[n] = 0
      BY <1>0, <1>7, EndsOne
    <2>2. QED
      BY <1>1, <1>3, <1>7, <2>1 DEF datasetVars
  <1>8. CASE Commit(n)
    <2>1. doc'[n] = 0 /\ todo' = todo /\ status' = status
      BY <1>0, <1>8 DEF Commit, TypeOK
    <2>2. DOMAIN documents' = DOMAIN documents
      BY <1>0, <1>8, CommitsOne
    <2>3. \A d \in DOMAIN documents :
            /\ documents'[d].file = documents[d].file /\ documents'[d].row = documents[d].row
            /\ documents'[d].loads = documents[d].loads + 0
            /\ d # doc[n] => documents'[d].scans = documents[d].scans + 0
      BY <1>0, <1>8, CommitsOne
    <2>4. \A d \in DOMAIN documents :
            /\ documents'[d].loads = documents[d].loads
            /\ d # doc[n] => documents'[d].scans = documents[d].scans
      BY <1>1, <2>3 DEF Document
    <2>5. \A d \in DocumentsOf(f) : Numbers(d) # {} =>
            documents'[d].scans = documents[d].scans /\ d \notin todo'[n] /\ doc'[n] # d
      BY <1>1, <1>2, <2>1, <2>4
    <2>6. QED
      BY <2>1, <2>2, <2>3, <2>4, <2>5, NormalizerKeeps
  <1>9. QED
    BY <1>4, <1>5, <1>6, <1>7, <1>8

LEMMA UndisturbedKept == ASSUME HandInv, UndisturbedFiles, [Next]_vars PROVE UndisturbedFiles'
  <1>1. HandInv'
    BY HandKept
  <1>2. disturbed \subseteq disturbed'
    BY DEF Next, Step, StartIngestion, ListUnprocessed, LookUpDataset, InsertDataset, InsertDocument,
           FindColumns, FinishFile, CheckListed, FinishList, ObserveCell, Commit,
           DeadlockAborts, Crash, Dies, vars
  <1> SUFFICES ASSUME NEW f \in Files, f \notin disturbed' PROVE Undisturbed(f)'
    BY DEF UndisturbedFiles
  <1>3. Undisturbed(f) /\ TypeOK
    BY <1>2 DEF UndisturbedFiles, HandInv
  <1>4. ASSUME UNCHANGED <<status, documents, pc, file, row, doc, todo>> PROVE Undisturbed(f)'
    BY <1>3, <1>4 DEF Undisturbed, OneReader, OneEach, OnePass, OfThisRun, DocumentsOf, Numbers, Cells
  <1>5. ASSUME NEW p \in Ingestors,
               \/ \E g \in Files : StartIngestion(p, g)
               \/ LookUpDataset(p) \/ InsertDataset(p) \/ FindColumns(p) \/ FinishFile(p)
        PROVE  Undisturbed(f)'
    <2>1. OnlyMoves(p)
      BY <1>3, <1>5, OneMoves DEF Step, Procs
    <2>2. QED
      BY <1>1, <1>3, <1>5, <2>1, IngestorKeeps
  <1>6. ASSUME NEW p \in Ingestors, InsertDocument(p) PROVE Undisturbed(f)'
    BY <1>3, <1>6, OneMoves, InsertKeeps DEF Step, Procs
  <1>7. ASSUME NEW p \in Ingestors, Commit(p) PROVE Undisturbed(f)'
    BY <1>3, <1>7, OneMoves, CommitKeeps DEF Step, Procs
  <1>8. ASSUME NEW n \in Normalizers,
               \/ ListUnprocessed(n) \/ CheckListed(n) \/ FinishList(n) \/ Commit(n)
               \/ DeadlockAborts(n) \/ Crash(n)
        PROVE  Undisturbed(f)'
    <2>1. OnlyMoves(n)
      BY <1>3, <1>8, OneMoves DEF Step, Procs
    <2>2. QED
      BY <1>3, <1>8, <2>1, NormalizersKeep DEF DeadlockAborts, Crash, Dies
  <1>9. ASSUME NEW p \in Ingestors, DeadlockAborts(p) \/ Crash(p) PROVE Undisturbed(f)'
    <2>1. OnlyMoves(p)
      BY <1>3, <1>9, OneMoves DEF Procs
    <2>2. UNCHANGED datasetVars /\ Ends(p) /\ file[p] # f
      BY <1>9 DEF DeadlockAborts, Crash, Dies
    <2>3. SameDocuments(f) /\ status' = status
      BY <2>2 DEF SameDocuments, DocumentsOf, datasetVars
    <2>4. file'[p] # f /\ doc'[p] \notin DocumentsOf(f)
      BY <1>3, <2>2, EndsOne, DocumentsAre, DatasetConstantsOK DEF DocumentsOf, Procs, DatasetConstantsOK
    <2>5. QED
      BY <1>3, <2>1, <2>2, <2>3, <2>4, OtherFile
  <1>10. ASSUME NEW p \in Procs, ObserveCell(p) PROVE Undisturbed(f)'
    BY <1>4, <1>10 DEF ObserveCell, datasetVars
  <1>11. CASE UNCHANGED vars
    BY <1>4, <1>11 DEF vars, datasetVars, procVars
  <1>12. QED
    BY <1>5, <1>6, <1>7, <1>8, <1>9, <1>10, <1>11 DEF Next, Step, Procs

LEMMA UndisturbedAreExact ==
    ASSUME HandInv, SuccessComplete, UndisturbedFiles PROVE ExactUnlessDisturbed
  <1> SUFFICES ASSUME NEW f \in Files \ disturbed, status[f] = "SUCCESS", NEW r \in DOMAIN Rows[f],
                      NEW D, D = {d \in DOMAIN documents :
                                    documents[d].file = f /\ documents[d].row = r}
               PROVE  Cardinality(D) = 1 /\ \A d \in D :
                        documents[d].loads = 1 /\ (Numbers(d) # {} => documents[d].scans = 0)
    BY DEF ExactUnlessDisturbed
  <1>1. Undisturbed(f)
    BY DEF UndisturbedFiles
  <1>2. PICK d \in D : TRUE
    BY DEF SuccessComplete
  <1>3. D \subseteq DocumentsOf(f) /\ D = {d}
    BY <1>1, <1>2 DEF Undisturbed, OneEach, DocumentsOf
  <1>4. Cardinality(D) = 1
    BY <1>3, FS_Singleton
  <1>5. ~\E p \in Ingestors : doc[p] = d
    <2> SUFFICES ASSUME NEW p \in Ingestors, doc[p] = d PROVE FALSE
      OBVIOUS
    <2>1. pc[p] = "cells" /\ documents[d].file = f
      BY <1>2 DEF HandInv, TypeOK, Procs
    <2>2. file[p] = f
      BY <2>1 DEF HandInv, Reading, ReadingOne
    <2>3. QED
      BY <1>1, <2>1, <2>2 DEF Undisturbed, OfThisRun
  <1>6. documents[d].loads = 1 /\ (Numbers(d) # {} => documents[d].scans = 0)
    BY <1>1, <1>3, <1>5 DEF Undisturbed, OnePass
  <1>7. QED
    BY <1>3, <1>4, <1>6

-----------------------------------------------------------------------------
(* The theorems.                                                           *)

LEMMA HandInitially == ASSUME Init PROVE HandInv
  <1>1. TypeOK /\ DOMAIN documents = {}
    BY TypeInitially, EmptySeq DEF Init
  <1>2. Reading /\ AddedSoFar
    BY DEF Init, Reading, ReadingOne, AddedSoFar, AddedOne, Procs
  <1>3. RowsExist
    BY <1>1 DEF Init, RowsExist, Procs
  <1>4. QED
    BY <1>1, <1>2, <1>3 DEF HandInv

\* Through every crash, deadlock and overlap of runs the counts are those of
\* the observations committed, and a SUCCESS means that every row of the file
\* was ingested whole (ingest_dataset.py, row_processor.py).
THEOREM StoredWholeAlways == Spec => []StoredWhole
  <1> DEFINE Inv == HandInv /\ RowsLoaded /\ SuccessComplete /\ CountsInv
  <1>1. Init => Inv
    <2> SUFFICES ASSUME Init PROVE Inv
      OBVIOUS
    <2>1. HandInv
      BY HandInitially
    <2>2. DOMAIN documents = {} /\ \A q \in Phones : counts[q] = 0
      BY EmptySeq DEF Init
    <2>3. RowsLoaded /\ SuccessComplete
      BY DEF Init, RowsLoaded, SuccessComplete
    <2>4. \A q \in Phones : Observations(q) = {}
      BY <2>2 DEF Observations
    <2>5. CountsInv
      BY <2>2, <2>4, FS_EmptySet DEF CountsInv
    <2>6. QED
      BY <2>1, <2>3, <2>5
  <1>2. Inv /\ [Next]_vars => Inv'
    BY HandKept, WholeKept, CountsKept
  <1>3. Inv => StoredWhole
    BY DEF HandInv, CountsInv, StoredWhole, CountsMatch
  <1> HIDE DEF Inv
  <1>4. QED
    BY <1>1, <1>2, <1>3, PTL DEF Spec

\* insert_dataset's idempotence and the normalizer's second check: no row is
\* stored, and no number of one observed, twice unless a run of the file died,
\* met another or raced --normalize-only.
THEOREM StoredOnceAlways == Spec => []StoredOnce
  <1> DEFINE Inv == /\ HandInv /\ RowsLoaded /\ SuccessComplete
                    /\ RacesSeen /\ UndisturbedFiles
  <1>1. Init => Inv
    <2> SUFFICES ASSUME Init PROVE Inv
      OBVIOUS
    <2>1. HandInv /\ DOMAIN documents = {}
      BY HandInitially, EmptySeq DEF Init
    <2>2. RowsLoaded /\ SuccessComplete
      BY DEF Init, RowsLoaded, SuccessComplete
    <2>3. RacesSeen
      BY <2>1 DEF RacesSeen
    <2>4. UndisturbedFiles
      BY <2>1, DatasetConstantsOK DEF Init, UndisturbedFiles, Undisturbed, OneReader, OneEach,
         OnePass, OfThisRun, DocumentsOf, DatasetConstantsOK
    <2>5. QED
      BY <2>1, <2>2, <2>3, <2>4
  <1>2. Inv /\ [Next]_vars => Inv'
    BY HandKept, WholeKept, RacesKept, UndisturbedKept
  <1>3. Inv => StoredOnce
    BY UndisturbedAreExact, RacesTold DEF HandInv, StoredOnce
  <1> HIDE DEF Inv
  <1>4. QED
    BY <1>1, <1>2, <1>3, PTL DEF Spec

============================================================================
