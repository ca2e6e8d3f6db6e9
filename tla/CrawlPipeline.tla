---------------------------- MODULE CrawlPipeline ----------------------------
(***************************************************************************)
(* Crawling one URL: run_crawl_url_job (jobs/worker.py) and crawl_source   *)
(* (jobs/crawl_worker.py) fetch it, compare it with the last stored        *)
(* document, store it and extract its phone numbers, in three              *)
(* transactions; crawl_worker --normalize-only extracts what they left.    *)
(*                                                                         *)
(* raw_documents.created_at is the start of the inserting transaction, so  *)
(* "rows" lists the URL's documents and the open transactions that may     *)
(* still insert one, in the order in which the transactions began.  A page *)
(* is its content, taken to be as good as its hash, and names at least one *)
(* phone number.                                                           *)
(***************************************************************************)
EXTENDS Naturals, Sequences, FiniteSets, SequencesExt

CONSTANTS
    JobCrawlers,    \* workers executing a CRAWL_URL job for the URL: more
                    \* than one after a stale recovery (JobQueue)
    SourceCrawlers, \* crawl_source: the command line, or a CRAWL_SOURCE job
    Normalizers,    \* crawl_worker --normalize-only
    Pages,          \* contents the URL may have
    Tagged,         \* those the server sends with an ETag or Last-Modified
    None,
    MaxChanges,     \* bound on changes of the page
    MaxDisruptions  \* bound on crashes and failed fetches

Crawlers == JobCrawlers \cup SourceCrawlers
Procs    == Crawlers \cup Normalizers

ASSUME PipelineConstantsOK ==
    /\ JobCrawlers \cap SourceCrawlers = {} /\ Crawlers \cap Normalizers = {}
    /\ Tagged \subseteq Pages
    /\ None \notin Pages \cup Procs
    /\ {MaxChanges, MaxDisruptions} \subseteq Nat

VARIABLES
    page,        \* what the server serves
    changes,
    rows,        \* documents and open transactions, by created_at
    etag,        \* crawl_targets.etag / last_modified: the page it vouches for
    pc,          \* process -> where it is
    sent,        \* crawler -> the validators of its conditional GET
    body,        \* crawler -> the page it fetched
    disruptions,
    overlapped   \* history: were two crawls ever under way together?

vars == <<page, changes, rows, etag, pc, sent, body, disruptions, overlapped>>

\* page: None while the transaction has inserted nothing.  owner: the crawler
\* at work on the row.  runs: committed extractions.  listed, checked: the
\* processes about to check, about to extract it.
Row == [page : Pages \cup {None}, owner : Crawlers \cup {None}, runs : Nat,
        listed : SUBSET Normalizers, checked : SUBSET Normalizers]

TypeOK ==
    /\ page \in Pages /\ etag \in Pages \cup {None}
    /\ \A i \in DOMAIN rows :
        /\ rows[i] \in Row
        /\ rows[i].page = None => rows[i].owner # None
    /\ \A i, j \in DOMAIN rows :
        i # j /\ rows[i].owner = rows[j].owner => rows[i].owner = None
    /\ pc \in [Procs -> {"idle", "fetch", "notModified", "compare", "unchanged",
                         "insert", "result", "check", "extract"}]
    /\ sent \in [Crawlers -> Pages \cup {None}]
    /\ body \in [Crawlers -> Pages \cup {None}]
    /\ changes \in 0..MaxChanges /\ disruptions \in 0..MaxDisruptions
    /\ overlapped \in BOOLEAN

Init ==
    /\ page \in Pages
    /\ rows = <<>> /\ etag = None
    /\ pc = [p \in Procs |-> "idle"]
    /\ sent = [c \in Crawlers |-> None]
    /\ body = [c \in Crawlers |-> None]
    /\ changes = 0 /\ disruptions = 0 /\ overlapped = FALSE

-----------------------------------------------------------------------------
(* The tables.                                                             *)

Goto(p, label) == pc' = [pc EXCEPT ![p] = label]

Documents == {i \in DOMAIN rows : rows[i].page # None}

OpensTransaction(c) ==
    Append(rows, [page |-> None, owner |-> c, runs |-> 0,
                  listed |-> {}, checked |-> {}])

\* c's open transaction, while it has inserted nothing.
Uncommitted(c) == {i \in DOMAIN rows : rows[i].owner = c /\ rows[i].page = None}

\* The rows once c's crawl is over: its transaction is gone if it inserted
\* nothing, its document stays.
Closed(c) ==
    IF Uncommitted(c) # {}
    THEN RemoveAt(rows, CHOOSE i \in Uncommitted(c) : TRUE)
    ELSE [i \in DOMAIN rows |->
            IF rows[i].owner = c THEN [rows[i] EXCEPT !.owner = None] ELSE rows[i]]

Ends(c) ==
    /\ rows' = Closed(c)
    /\ Goto(c, "idle")
    /\ sent' = [sent EXCEPT ![c] = None]
    /\ body' = [body EXCEPT ![c] = None]

LastStored_oldest ==
    IF Documents = {} THEN None
    ELSE rows[CHOOSE i \in Documents : \A j \in Documents : i <= j].page

\* get_last_content_hash: ORDER BY created_at DESC LIMIT 1
LastStored ==
    IF Documents = {} THEN None
    ELSE rows[CHOOSE i \in Documents : \A j \in Documents : i >= j].page

\* ~ observations_exist_for_document
Unprocessed(r) == r.page # None /\ r.runs = 0

\* update_crawl_target_result: COALESCE(%s, etag)
SavesValidators(c) ==
    etag' = IF c \in JobCrawlers /\ body[c] \in Tagged THEN body[c] ELSE etag

-----------------------------------------------------------------------------
(* A crawl.                                                                *)

\* get_crawl_target and get_crawl_target_conditional_headers open a job's
\* transaction before the fetch; crawl_source has committed before its own
\* fetch and sends no validators.
BeginCrawl(c) ==
    /\ pc[c] = "idle"
    /\ Goto(c, "fetch")
    /\ IF c \in JobCrawlers
       THEN rows' = OpensTransaction(c) /\ sent' = [sent EXCEPT ![c] = etag]
       ELSE UNCHANGED <<rows, sent>>
    /\ overlapped' = (overlapped \/ \E d \in Crawlers : pc[d] # "idle")
    /\ UNCHANGED <<page, changes, etag, body, disruptions>>

Fetch_savesValidators(c) ==
    /\ pc[c] = "fetch"
    /\ body' = [body EXCEPT ![c] = page]
    /\ etag' = IF c \in JobCrawlers /\ page \in Tagged THEN page ELSE etag
    /\ Goto(c, IF sent[c] = page THEN "notModified" ELSE "compare")
    /\ UNCHANGED <<page, changes, rows, sent, disruptions, overlapped>>

\* HttpCollector.fetch: 304 when the validators sent match the page.
Fetch(c) ==
    /\ pc[c] = "fetch"
    /\ body' = [body EXCEPT ![c] = page]
    /\ Goto(c, IF sent[c] = page THEN "notModified" ELSE "compare")
    /\ UNCHANGED <<page, changes, rows, etag, sent, disruptions, overlapped>>

\* robots.txt forbids the URL or every attempt failed: the job fails, or
\* crawl_source records FAILED; nothing is stored.
FetchFails(c) ==
    /\ pc[c] = "fetch" /\ disruptions < MaxDisruptions
    /\ disruptions' = disruptions + 1
    /\ Ends(c)
    /\ UNCHANGED <<page, changes, etag, overlapped>>

\* The 304 branch and the unchanged branch record the result and return.
RecordsNoChange(c) ==
    /\ pc[c] \in {"notModified", "unchanged"}
    /\ SavesValidators(c)
    /\ Ends(c)
    /\ UNCHANGED <<page, changes, disruptions, overlapped>>

\* get_last_content_hash, the first statement of crawl_source's transaction.
Compare(c) ==
    /\ pc[c] = "compare"
    /\ Goto(c, IF body[c] = LastStored THEN "unchanged" ELSE "insert")
    /\ rows' = IF c \in SourceCrawlers THEN OpensTransaction(c) ELSE rows
    /\ UNCHANGED <<page, changes, etag, sent, body, disruptions, overlapped>>

\* insert_raw_document and its commit.
InsertDocument(c) ==
    /\ pc[c] = "insert"
    /\ rows' = [i \in DOMAIN rows |->
                    IF rows[i].owner = c THEN [rows[i] EXCEPT !.page = body[c]]
                                         ELSE rows[i]]
    /\ Goto(c, "result")
    /\ UNCHANGED <<page, changes, etag, sent, body, disruptions, overlapped>>

RecordsChange(c) ==
    /\ pc[c] = "result"
    /\ SavesValidators(c)
    /\ Goto(c, "check")
    /\ UNCHANGED <<page, changes, rows, sent, body, disruptions, overlapped>>

\* extract_and_store_observations: the check ...
CheckOwn(c) ==
    /\ pc[c] = "check"
    /\ IF \E i \in DOMAIN rows : rows[i].owner = c /\ Unprocessed(rows[i])
       THEN Goto(c, "extract") /\ UNCHANGED <<rows, sent, body>>
       ELSE Ends(c)
    /\ UNCHANGED <<page, changes, etag, disruptions, overlapped>>

\* ... and the inserts, committed together.
ExtractOwn(c) ==
    /\ pc[c] = "extract"
    /\ Goto(c, "idle")
    /\ rows' = [i \in DOMAIN rows |->
                    IF rows[i].owner = c
                    THEN [rows[i] EXCEPT !.owner = None, !.runs = @ + 1]
                    ELSE rows[i]]
    /\ sent' = [sent EXCEPT ![c] = None]
    /\ body' = [body EXCEPT ![c] = None]
    /\ UNCHANGED <<page, changes, etag, disruptions, overlapped>>

CrashCrawler(c) ==
    /\ pc[c] # "idle" /\ disruptions < MaxDisruptions
    /\ disruptions' = disruptions + 1
    /\ Ends(c)
    /\ UNCHANGED <<page, changes, etag, overlapped>>

CrawlStep(c) ==
    \/ BeginCrawl(c) \/ Fetch(c) \/ RecordsNoChange(c) \/ Compare(c)
    \/ InsertDocument(c) \/ RecordsChange(c) \/ CheckOwn(c) \/ ExtractOwn(c)

-----------------------------------------------------------------------------
(* run_normalize_only.                                                     *)

\* The documents without observations, listed once.
ListUnprocessed(n) ==
    /\ pc[n] = "idle"
    /\ \E i \in DOMAIN rows : Unprocessed(rows[i])
    /\ rows' = [i \in DOMAIN rows |->
                    IF Unprocessed(rows[i])
                    THEN [rows[i] EXCEPT !.listed = @ \cup {n}] ELSE rows[i]]
    /\ Goto(n, "check")
    /\ UNCHANGED <<page, changes, etag, sent, body, disruptions, overlapped>>

\* The check of one listed document: those with observations are passed over.
CheckListed(n, i) ==
    /\ pc[n] = "check" /\ n \in rows[i].listed
    /\ LET extracts == Unprocessed(rows[i])
           todo == \E j \in DOMAIN rows \ {i} : n \in rows[j].listed
       IN /\ rows' = [rows EXCEPT ![i] =
                        [rows[i] EXCEPT !.listed = @ \ {n},
                            !.checked = IF extracts THEN @ \cup {n} ELSE @]]
          /\ Goto(n, IF extracts THEN "extract"
                     ELSE IF todo THEN "check" ELSE "idle")
    /\ UNCHANGED <<page, changes, etag, sent, body, disruptions, overlapped>>

ExtractListed(n, i) ==
    /\ pc[n] = "extract" /\ n \in rows[i].checked
    /\ rows' = [rows EXCEPT ![i] =
                    [rows[i] EXCEPT !.checked = @ \ {n}, !.runs = @ + 1]]
    /\ Goto(n, IF \E j \in DOMAIN rows : n \in rows[j].listed
               THEN "check" ELSE "idle")
    /\ UNCHANGED <<page, changes, etag, sent, body, disruptions, overlapped>>

CrashNormalizer(n) ==
    /\ pc[n] # "idle" /\ disruptions < MaxDisruptions
    /\ disruptions' = disruptions + 1
    /\ Goto(n, "idle")
    /\ rows' = [i \in DOMAIN rows |->
                    [rows[i] EXCEPT !.listed = @ \ {n}, !.checked = @ \ {n}]]
    /\ UNCHANGED <<page, changes, etag, sent, body, overlapped>>

NormalizerStep(n) ==
    \/ ListUnprocessed(n)
    \/ \E i \in DOMAIN rows : CheckListed(n, i) \/ ExtractListed(n, i)

-----------------------------------------------------------------------------
PageChanges(p) ==
    /\ p # page /\ changes < MaxChanges
    /\ page' = p
    /\ changes' = changes + 1
    /\ UNCHANGED <<rows, etag, pc, sent, body, disruptions, overlapped>>

Next ==
    \/ \E c \in Crawlers : CrawlStep(c) \/ FetchFails(c) \/ CrashCrawler(c)
    \/ \E n \in Normalizers : NormalizerStep(n) \/ CrashNormalizer(n)
    \/ \E p \in Pages : PageChanges(p)

Spec == Init /\ [][Next]_vars

\* The scheduler queues the target again and again and jobs are run (see
\* Scheduler and JobQueue); nobody is obliged to run the command line.
FairSpec == Spec /\ \A c \in JobCrawlers : WF_vars(CrawlStep(c))

-----------------------------------------------------------------------------
(* Properties.                                                             *)

\* The conditional GET of run_crawl_url_job never hides content: whatever
\* page the saved validators vouch for is stored, so that a 304 skips
\* nothing, even after crashes and between overlapping crawls.
ValidatorsVouch ==
    /\ etag # None => \E i \in Documents : rows[i].page = etag
    /\ \A c \in Crawlers :
        sent[c] # None => \E i \in Documents : rows[i].page = sent[c]

\* Header of postgres_repository.py: a raw_document is only inserted when the
\* content differs from the last one stored for the target.
ConsecutiveDocumentsDiffer ==
    \A i, j \in Documents :
        /\ i < j /\ \A k \in Documents : ~(i < k /\ k < j)
        => rows[i].page # rows[j].page

\* That holds of crawls that never overlap, whatever crashes interrupt them.
DuplicatesNeedOverlap == overlapped \/ ConsecutiveDocumentsDiffer

\* extract_and_store_observations may run twice for a document, between two
\* processes' checks and commits, but each process adds at most one copy.
ExtractionsBounded ==
    \A i \in DOMAIN rows : rows[i].runs <= 1 + Cardinality(Normalizers)

\* A page that stops changing is eventually stored for good.
FinalPageStored == <>[](\E i \in Documents : rows[i].page = page)

\* docs/architecture.md, "Idempotency strategy": re-running the crawl any
\* number of times converges; every stored document gets its observations.
StoredIsExtracted == <>[](\A i \in Documents : rows[i].runs > 0)

\* Work is done twice only between overlapping processes, and then by each of
\* them at most once: a page is stored again, or a document extracted again,
\* for no other reason, crashes included.
DoublesNeedOverlap ==
    TypeOK /\ DuplicatesNeedOverlap /\ ExtractionsBounded
=============================================================================
