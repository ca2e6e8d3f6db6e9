# Verification of the Vietnam Phone Intelligence Platform

TLA+ models of the platform in this repository, the TLC runs that check them
on small instances, and TLAPS proofs of their central theorems for every
instance. Paths below are relative to the repository root.

## 1. The system

A Postgres database is the only thing the parts share. Python processes
acquire web pages and datasets, a TypeScript API serves and aggregates what was
extracted, a web page and an iOS application use the API.

| Part | Where | State it keeps | Operations |
|---|---|---|---|
| Job queue | `services/crawler/jobs/queue.py`, migrations 0003 and 0004 | rows of `crawl_jobs`, two partial unique indexes | `create_job`, `claim_job`, `complete_job`, `fail_job`, `recover_stale_jobs` |
| Worker | `services/crawler/jobs/worker.py`, `deploy/systemd/crawler-worker.service` | claimed job, shutdown flag | passes of recovery, claim, handler, release; signal, crash, restart |
| Scheduler | `services/crawler/jobs/scheduler.py` | the open transaction of its one connection, per-pass budget | one pass: count, targets, discoveries |
| Crawl pipeline | `jobs/worker.py` handlers, `jobs/crawl_worker.py`, `storage/postgres_repository.py` | `crawl_targets`, `raw_documents`, `phone_observations`, `phone_numbers` | fetch, compare hash, store document, extract |
| Domain discovery | `services/crawler/domain_discovery/` | `data_sources`, `crawl_targets`, `domain_discoveries` | sitemap walk, URL scoring, target upserts, report |
| Dataset ingestion | `services/crawler/dataset_ingestion/` | `datasets` and its rows' documents | checksum look-up, row loop |
| HTTP collector | `services/crawler/collectors/http/` | per-process robots and last-request caches | fetch with retries, rate limit |
| Aggregation | `apps/api/src/services/aggregation.ts`, `userConfirmedIdentity.ts` | `phone_identities`, `phone_identity_evidence`, scores | full recomputation, user-confirmed import |
| Spam reports, suppressions, settings | `spamReports.ts`, `labelSuppressions.ts`, `appSettings.ts` | `spam_reports`, `label_suppressions`, `app_settings` | report, summarise, suppress, switch auto-block |
| Call-directory export | `callDirectoryExport.ts`, `routes/callDirectory.ts` | none (reads) | entries and blocked digits |
| iOS device | `apps/ios/PhoneIntel` | snapshot file, suppression toggles, reload requests | sync, toggle, extension load |
| Look-up, call log, operations API | `lookup.ts`, `callLog.ts`, `monitoring.ts`, `acquisition.ts` | `personal_call_logs` | look-up, import, summaries, queue health |
| Web UI | `apps/web/app.js` | what three tabs show, requests under way, one timer, the reporter's reference | look up, report, import calls, refresh a dashboard |
| Normalizers, extractors | `normalizers/`, `extractors/` (both languages), `parseCallLogLine` | none | a spelling, a page, a line to numbers |

### How the parts interact

* Scheduler and API insert jobs; workers claim them. The table is the only
  channel, and the unique indexes the only mutual exclusion between creators.
* A worker runs one handler at a time. Handlers commit several times, so a
  crash leaves every prefix of those commits behind, and the retry starts over.
* The crawl, the dataset ingestion and the command-line tools write the same
  document and observation tables, with read-then-write duplicate checks; the
  upserts that count a number hold its row's lock until their commit.
* Aggregation reads all observations in one statement and rewrites identities
  in many, without a transaction, while imports of confirmed identities write
  the same tables. The export reads identities, reports, suppressions and
  settings in separate queries; the device replaces its snapshot by whatever
  response it handles last.
* The page of the web UI sends requests that nothing numbers or cancels, and
  renders their replies in the order they come.

### What is hard here

Overlapping executions after stale recovery; crashes between two commits of
one handler; check-then-insert duplicate detection; row locks taken in document
order; the scheduler's cap counted before the inserts; a transaction, and hence
`now()`, that stays open across passes; recomputation without a transaction;
late, lost and crossing responses on the page and on the device. Each is
listed with its line in `PROJECT.json` under `hazards`.

### What makes each part correct

* **Job queue and workers.** One active job per unique-index entry; one worker
  per job; only the worker that holds the row ends it; a verdict is final;
  `FAILED` means exactly `max_attempts` failures; every active job reaches a
  verdict.
* **Scheduler.** `MAX_ACTIVE_JOBS` is a cap but for what passes side by side and
  late failures add, each once; jobs are created for due items
  only, once per period; nothing due is dropped; everything due is queued.
* **Crawl pipeline.** A conditional GET never hides content that was not
  stored; a document differs from the one before it; the page a URL settles on
  is stored; what is stored is extracted, once.
* **Domain discovery.** A walk ends on cycles, fetches no sitemap twice and
  leaves none out but for its documented bound; the best URLs are queued.
* **Dataset ingestion.** `SUCCESS` means every row; counts are those of the
  observations committed; a file is stored once unless something went wrong;
  every run ends, deadlocks included.
* **Aggregation.** An undisturbed run brings identities in line with the
  observations and running again changes nothing; at every moment a count and
  its score come from one set of observations, and every claim has evidence.
* **Call directory and device.** Nothing is blocked that the owner has not asked
  for, or that never met the rule (ten reporters, SCAM on top); what the owner suppresses
  disappears from the phone; what the extension loads agrees with the settings
  once synchronisations have come to rest.
* **Web UI.** What a tab shows belongs together; a warning counts people, not
  clicks; no call typed in is lost or stored unasked; no loading text stays; a
  dashboard left open catches up.
* **Normalizers, extractors.** One number has one stored form; a page yields
  the numbers it shows, with the words of their own paragraph; a line of the
  call list is read as the help text says.

## 2. The models

| Module | Models | Extends or instantiates |
|---|---|---|
| `JobLifecycle` | the abstract life of a job: submitted, taken by one worker, put back, done or dead | |
| `JobSlots` | the job table as those who create jobs see it: active jobs per index entry, counted | |
| `JobQueue` | `queue.py`, the indexes of migrations 0003 and 0004, the loop of `worker.py`, systemd's restarts | instantiates `JobLifecycle` and `JobSlots` as its abstractions |
| `Scheduler` | `scheduler.py`, the two due queries, `create_job` as the scheduler sees it | instantiates `JobSlots` as what it uses of the queue |
| `CrawlPipeline` | `run_crawl_url_job`, `crawl_source` for one URL, `run_normalize_only` | |
| `DatasetIngestion` | `dataset_service.py`, `row_processor.py`, `--normalize-only` beside them, PostgreSQL's deadlock detection | |
| `DomainDiscovery` | `discovery_service.py`, `sitemap_discoverer.py`, `sitemap_parser.py`, `url_scorer.py` | |
| `IdentityRules` | the names, categories and scores of `aggregation.ts` | |
| `Aggregation` | `runAggregation` and `importUserConfirmedIdentities`, statement by statement | `IdentityRules` |
| `CallDirectory` | the writes of the spam-report, suppression and setting services and the reads of the export | |
| `DeviceSync` | `SyncService`, the settings screen, the export's query chains, the extension | `CallDirectory` |
| `Browser` | what the tabs of `app.js` share: gestures, requests under way, their loss and order | |
| `LookupPage` | the look-up tab, `lookup.ts`, `spamReports.ts` | `CallDirectory`, `Browser` |
| `CallLogPage` | the call-log tab, `callLog.ts` | `LookupPage` |
| `ApiRules`, `OpsPage` | `evaluateQueueHealth`; the operations tab, `monitoring.ts` | `Browser` |
| `WebApp` | the three tabs in one browser over one API | `CallLogPage`, `OpsPage` |
| `PhoneNormalizer` | `vietnamPhone.ts` | |
| `PhoneExtractor`, `CallLogLine` | `phoneExtractor.ts`; `parseCallLogLine` of `app.js` | `PhoneNormalizer` |
| `PhoneInputs` | numbers typed, pages and lines written, for these three | `PhoneExtractor`, `CallLogLine` |
| `Sequential` | the parts that meet no other process, side by side | `PhoneInputs`, `DomainDiscovery` |
| `MC...` | the small instances TLC checks | the module named |
| `..._proofs` | theorems and their proofs | the module named |

Operators called `<Definition>_<fault>` stand next to some definitions. They are
wrong variants of it (a dropped guard, an off-by-one, a missing reset), are used
by no specification, and document which mistake which property detects; the
pairing is in `PROJECT.json` under `mutants`. A property that a run names may be
the conjunction of several that belong together; each part is a definition of
its own with a comment of its own.

Variables marked *history* in a module's declarations record what has happened,
so that a property can say under which circumstances it holds. No guard reads
one.

### JobQueue

One row of `crawl_jobs` is spread over `status`, `attempts`, `key`, `dueAt` and
`lockedBy`; a row that was never inserted is `ABSENT`. `key` is the row's entry
in the partial unique indexes. Time is kept only as far as statements compare
it: `dueAt` is 0 while `scheduled_at` lies in the future and otherwise the rank
in which rows became due; `stale` holds the rows whose `locked_at` is older than
the timeout. A worker's `pc` follows `main` and `run_once`.

| Action | Code |
|---|---|
| `CreateJob` | INSERT of `create_job`, `enqueueDomainDiscovery` |
| `StartPass`, `PassShutdownCheck`, `ExitOnShutdown` | `run_once` and `main` around the shutdown flag, `recover_stale_jobs` |
| `ClaimJob`, `NothingToClaim` | `claim_job` (`FOR UPDATE SKIP LOCKED`, one statement, hence one action) |
| `CompleteJob`, `FailForGood`, `FailAndRetry`, `RetryRefused` | `complete_job`, the branches of `fail_job`, and its unique violation |
| `BackoffElapses`, `LockExpires` | the passage of time |
| `Signal`, `Crash`, `Restart` | SIGTERM, SIGKILL or a broken session, `Restart=always` |

`Overrun` says whether a live handler may outlast `STALE_LOCK_MINUTES`. Nothing
in the code prevents it, and nothing extends a lock; the parameter separates
what holds always from what rests on that assumption.

### Scheduler

The job table shrinks to the items that have an active job and the number of
the API's jobs. That is the table of `JobSlots`, which `JobQueue` is proved to
implement, overlapping executions included, and `Scheduler` to keep to. Of
overlapping executions the scheduler sees one thing: a handler that outlasts
`JOB_STALE_TIMEOUT` may still be at work when the worker its job was recovered
for has ended the job, and `fail_job`'s UPDATE to `RETRY`, which goes by the id,
then makes the ended job active again, beside whatever has been created since.
`late` holds the workers in that position and the items of their jobs:
`JobEnds` and `ApiJobEnds` may leave some behind (`LeavesBehind`), and
`LateVerdict` writes their verdict (`PutsBack`), or comes to nothing because they
complete the job, attempts are used up, or a newer job of the item stands in the
index. `JobCreated` tells the jobs the scheduler creates from those put back. What
takes the place of the rest of the queue is the transaction: psycopg opens one with the first statement and `scheduler.py`
commits only inside `create_job` and `advance_source_schedule`, so `open` and
`seen` record, for each process, whether one is open and which items were due
at its start, because that is what `now()` compares with. `BeginPass`,
`ExamineRow`, `FetchSources`, `InsertJob`, `RereadConflict` and
`AdvanceSchedule` are the statements of a pass in order. `BecomesDue` excludes a
period that elapses while a pass holds the row: periods are a day or more.

### CrawlPipeline

One URL, whose content is one of a few pages. `raw_documents.created_at` is the
start of the inserting transaction, so `rows` holds the URL's documents and the
open transactions in the order of their starts, and `LastStored` reads the
order, not the commits. Crawlers run the job handler or `crawl_source`, which
differ in when their transaction opens and in the validators; normalizers run
`--normalize-only`, and a row's `checked` holds those that have found it
without observations and not extracted it yet. `Closed` ends a transaction: an
uncommitted row goes, a committed one stays. Every commit is a boundary between
actions, and a crash or failed fetch may come at each.

### DatasetIngestion

A file is its rows, a row the cells of its phone columns, a cell a number,
something that is none, or nothing. `LookUpDataset` and `InsertDataset` are two
statements, so two runs of one file may both miss it; `InsertDocument` is the
row's first commit, `ObserveCell` one observation with its upsert, which waits
while another process has upserted the number (`added` has the cells a
transaction has upserted), and `Commit` the second.
`DeadlockAborts` is PostgreSQL ending a transaction of a cycle; nothing catches
the error. A normalizer lists all documents without observations once
(`ListUnprocessed`), in no order the query gives, and checks each again when it
comes to it (`CheckListed`).
`disturbed` and `raced` record which files and documents had anything else than
undisturbed runs of their own.

### DomainDiscovery

A site is what its `robots.txt` names and a file, index or list of pages, under
each sitemap address. The recursion of `_resolve_sitemap` is unrolled into
`todo`, the sequence of calls to come: `ResolveSitemap` makes the first of them
and puts an index's entries before the rest, one level deeper; `SkipSitemap` is
its early return. Each request may fail. `Matches` names the scoring patterns a
URL contains, `Rules` the rules of `url_scoring.yaml` in the order in which they
are tried; that the file lists higher scores first is part of
`DiscoveryConstantsOK`. A place of the list of URLs found stands for its URL:
`Distinct` are the places where one is mentioned first, `Ahead` is the order of
the stable sort, `Queueable` the places with fewer than `MaxQueued` ahead of
them, `Upserted` the upserts in that order, which leave an existing target's
priority alone, and `TargetOf` the `normalize_url` that drops queries.
`DiscoveryDies` may come between any two requests or commits, and the discovery
is then begun again.

### IdentityRules and Aggregation

An observation is reduced to what the rules ask of it: number, source, company
name, keywords, standing of the source. `Aggregation` makes every statement of
a run an action: `StartRun` (the one SELECT), `TakePhone`, `UpsertIdentity`,
`LinkRule`, `FinishRun`; and of an import `FindSource`, `InsertSource`,
`RecordObservation`, `CountNumber`, `ConfirmIdentity`, `LinkConfirmed`,
`Recount`. Runs come from the timer and by hand and may overlap; a run or a
request named in `Mortal` may die before any statement. `torn` remembers the
entries a death cut short and before which statement, `settled` whether a run
has gone from start to end alone since data last arrived.

### CallDirectory and DeviceSync

`CallDirectory` has the three tables as sets, the writes, and the export's
queries as operators. Report ids count up; a report without `reporter_ref`
counts under its id. `Leading` lets ties fall either way. The identities that
aggregation found are a constant.

`DeviceSync` adds the application. A task is one flick of a toggle or one
synchronisation; between two awaits it is atomic because the classes run on the
main actor, and across an await anything may happen. The export of a task is
built by two chains, `getCallDirectoryEntries` (`QueryLabels`, `HideLabels`) and
`getBlockedDigits` (`QuerySetting`, `QueryBlocked`, `HideBlocked`), each query
reading the tables of its moment. `SaveSnapshot` writes the shared file,
`Reload` and `SystemLoadsExtension` load it. The settings screen's copies and
its two loads are modelled because they decide what the next flick asks for.
The initial state may already have had a synchronisation. A request that a task
has given up for lost (`TaskFails`) may not have been executed yet: it is in
`stray`, and `HandleStray` executes it at any later moment, or never.

### Browser, LookupPage, CallLogPage, OpsPage, WebApp

`Browser` keeps the requests of one kind in a sequence, in the order sent; each
is answered by the API (statement by statement where it reads more than one
snapshot), delivered or lost independently of the others. An event handler of
`app.js` is one action up to its first await, and what follows the await is the
delivery. `SubmitLookup`, `ToggleForm`, `SubmitReport`, `TypeLine`,
`SubmitImport`, `SubmitSummary`, `OpenTab`, `PressRefresh` and `PickRange` are
the owner's gestures, which reach the open tab only; `Tick` is the timer;
`OtherReports`, `Aggregate` and `JobsMove` (jobs created, claimed, ended, put
back, and ended or put back once more by late workers) are what others do to the
database.
A lost import may still be carried out, in whole or in part. The text of the
call list, and what an import carries, are sets of lines, each line typed once,
so that `rows` can be compared with `sends` line by line. What a render
writes is reduced to what it is about: the number shown, the warning, each
table's rows, the range of a chart.

### PhoneNormalizer, PhoneExtractor, CallLogLine, PhoneInputs, Sequential

A text is a sequence of characters, of which the codes tell a dozen apart. The
three algorithms are operators that follow the regular expressions and branches
of the source: `MatchEnd` is `PHONE_CANDIDATE_REGEX` with its greed,
`StripHtmlToVisibleText` the replacements in their order, `ParseCallLogLine` the
pattern with its backtracking. What the code does character by character
(dropping what no number is written with, squeezing blanks, repeating a unit of
the pattern) is a recursive function of the number of characters read, so that
it can be reasoned about step by step. `PhoneInputs` writes their inputs: a
number key by key, a page piece by piece, a line of the call list.

`InputsOK` says what these are made of. A spelling is digits with single
separators between them or a plus before them; if it is long enough to be matched
it is `Dialable`, that is, begins and is as long as numbers dialed in the country,
from abroad or to a hotline. A mark is what the help text shows, a gap has no
digit and no plus. Keys are any.

`Sequential` puts these next to `DomainDiscovery`. They share nothing; what
they have in common is that no other process disturbs them, so that one run
tries each of them alone.

## 3. Runs

Twelve runs; the first table's must find no error, the second's show where a
statement of the repository is not true of the code.

| Run | Instance | Shows |
|---|---|---|
| `lease` | 2 rows, 2 workers, 1 key, 2 attempts, 2 disruptions, no overrun | mutual exclusion, attempts, final verdicts, refinement of `JobLifecycle`, every active job settles |
| `overrun` | the same with overrun and 1 disruption | what overlapping executions cannot break: the indexes, the slots of `JobSlots`, the lock columns, a bound on attempts, coming to rest |
| `sched_single` | 1 scheduler, 1 worker, 1 target, 3 sources, cap 3, budget 2, 1 API job, 1 crash, 1 overrun | the cap and what a late failure adds to it, no source dropped, one discovery per period, due items only, every due item queued |
| `crawl_pair` | a job crawler, `crawl_source`, `--normalize-only`; 2 pages, 1 change, 1 disruption | validators, duplicates only from overlap, bounded extractions, the final page is stored |
| `datasets` | 2 ingestors, 1 normalizer, 3 files, 3 runs, 1 crash | `SUCCESS` means every row, exact counts, single storage unless disturbed, every run ends |
| `aggregation` | timer and one manual run, 2 imports, 1 number, 1 crash | traceable counts, scores and links throughout; an undisturbed run settles them for good |
| `device` | 3 numbers, 2 tasks, 3 actions of the owner, 1 new report, 1 failure, threshold 2 | consent, the rule for blocking, one undisturbed synchronisation repairs everything |
| `web` | 2 numbers, 3 gestures (2 on the operations tab), 1 mishap, 2 requests of a kind | pages coherent, warnings honest, calls kept, loading ends, the dashboard catches up |
| `functions` | numbers of 14 keys, pages and lines of 4 pieces, 8232 sites | one stored form, pages and lines read as meant, contexts within a paragraph, the best of a site queued |

| Run | Statement | What happens |
|---|---|---|
| `sched_frozen` | the scheduler finds what becomes due | a pass that creates nothing leaves its transaction, and `now()`, where they were |
| `crawl_lost` | re-running converges to the same state | a crash between the document's commit and its extraction; later crawls see an unchanged page |
| `device_promise` | only numbers at least ten people reported as SCAM are blocked (`SettingsView.swift:145`, `appSettings.ts:16`) | reporters of every category count towards the ten and SCAM need only lead: nine who report SCAM and one who reports SPAM are enough |

Where the properties are stated, by run:

- `lease`, `overrun` (`JobQueue`): `ExclusiveExecution`, `RetryBudget`,
  `TerminalIsFinal`, `ImplementsLifecycle`, `EveryJobSettles`; with overlaps
  `OneActiveJobPerKey`, `ImplementsSlots`, `LateWritesContained` and
  `QueueDrains`.
- `sched_single`, `sched_frozen` (`Scheduler`): `CapRespected`,
  `DeferredNotDropped`, `OneDiscoveryPerPeriod`, `OnlyDueItemsQueued`,
  `EveryDueItemQueued`.
- `crawl_pair`, `crawl_lost` (`CrawlPipeline`): `ValidatorsVouch`,
  `DoublesNeedOverlap`, `FinalPageStored`; `StoredIsExtracted` is the one that
  fails.
- `datasets` (`DatasetIngestion`): `StoredWhole`, `StoredOnce`, `EveryRunEnds`.
- `aggregation` (`Aggregation`): `ClaimsTraceable`, `CountAndScoreTogether`,
  `SettledAgrees`, `ImportsAccounted`.
- `device`, `device_promise` (`DeviceSync`): `BlockingNeedsOptIn`,
  `BlockedByTheRule`, `SettledDeviceHonours`; `BlockedAsPromised` is the one that
  fails.
- `web` (`LookupPage`, `CallLogPage`, `OpsPage`, `WebApp`): `PagesCoherent`,
  `WarningsHonest`, `SettledLookupAnswers`, `CallsKept`, `LoadingEnds`,
  `DashboardCatchesUp`.
- `functions` (`PhoneInputs`, `DomainDiscovery`): `OneStoredForm`,
  `ShownNumbersFound`, `ContextOfParagraph`, `LineReadAsWritten`,
  `BestOfSiteQueued`.

The type invariant is a property of its own in `device` and the first conjunct of
another property in most of the others; where neither is so, as in `Scheduler`,
a theorem of the next section has it.

### Observations without a run

What else was met while reading the code for the models. The properties that
speak of these places say so in their conditions.

* *Queue.* With a handler slower than the timeout two workers execute one job.
  A failure whose UPDATE to `RETRY` meets a newer active job of the key, or whose
  handler broke the transaction, ends the worker (`RetryRefused`). Recovery
  counts no attempt, so a job that kills its worker each time returns for ever.
  `fail_job`'s commit includes what the handler had not committed. A signal
  between the check and the claim lets one more job be claimed.
* *Scheduler.* Targets stay due (`next_crawl_at` is never advanced) and come
  first, so enough of them use up the budget of every pass. `create_job`'s second
  statement raises when the conflicting job has ended (`RereadConflict`), which
  ends the scheduler. Jobs of the API are created whatever the cap says; passes
  count them, and `CapRespected` speaks of the jobs of items only. The cap itself
  is exceeded by passes that count side by side, and, with one scheduler, by a
  late failure: a job is recovered as stale and finished by a second worker, a
  pass fills the place, and the first worker's failure puts the job back.
  `CapRespected` bounds both: one cap for each scheduler, and one job for each
  worker or overrun, whichever are fewer. Without overrun, one scheduler keeps
  to the cap exactly.
* *Crawl.* Two overlapping crawls of one URL store a document twice.
  `raw_documents.created_at` is the start of a transaction, so the newest row
  need not be the last one committed.
* *Discovery.* An index first met at `MAX_DEPTH` is marked as seen, and the
  sitemaps behind it stay unvisited even where a shorter path leads to them.
  Without directives the four common paths are tried and each missing one is an
  error, so such a site is `PARTIAL` unless it has all four. A discovery under an
  existing source's name takes over that source's trust level.
  `url_scoring.yaml:2` says that patterns match the URL path; `url_scorer.py:32,44`
  looks for them in the whole URL, domain and query included, and `Matches` is of
  that.
* *Aggregation.* The category of an identity may change from run to run, since
  the SELECT has no order. Confirmed observations are rows like any other, and
  found a rule-based identity beside the confirmed one.
* *Device and export.* With two synchronisations under way the older response may
  be saved last, and stays until the next one. A settings screen whose list was
  read before a flick is answered shows the old state after it, and the next flick
  asks for what is so already. `SettledDeviceHonours` says when this is over, not
  that it does not happen.
  A suppressed number vanishes from the list of numbers that can be suppressed.
* *Web.* A late look-up reply may show another number than the last one asked
  for, a chart's late reply another range than the one marked, and the reply to
  a report its banner over another number: the properties that speak of these
  hold for replies that were not overtaken and say so. A banner drawn for the category just selected need not be the leading one.
  A call typed while an import is under way is cleared with it. Lines that cannot
  be read are left out without a word. What becomes of a report is not told when a
  result was rendered meanwhile, which hid the line it is written to. Jobs in `RETRY` are in no count of the
  dashboard.
* *Functions.* `+0191` is stored as `0191`, which the normalizer then refuses.
  Numbers separated by a single blank, dot, dash or line break are joined into
  one. In `0912345678 - 3` and `0912345678 3` the count becomes a digit of the
  number. A number that is both linked and shown is counted twice.

### Bounds

* Two rows, two workers and one key are the least for a collision of keys, a
  second claim, and a late release over someone else's; two attempts give a
  retry and a last failure. Two disruptions allow a crash of the worker that
  was to recover from a crash.
* In `sched_single` the budget exceeds the number of targets and is below the
  cap, so that sources get a share; the target, due from the
  start, also makes passes commit, which keeps `now()` moving (`sched_frozen`
  has no target). Three sources exceed the budget, so that a backlog is deferred,
  and with the target and the API's job exceed the cap. The crash can fall between
  any two statements. One worker that overruns once is what puts a job back beside
  a full cap. Several schedulers, several workers and more overruns are beyond
  what TLC explores with liveness; `CapHolds`, `NothingDropped` and
  `SchedulerKeepsToSlots` are proved for any number of them.
* One page change and one disruption let a crash or failure precede or follow
  the change, and two crawlers with one normalizer reach every pair of
  overlapping writers. A tag is the page it was sent with.
* Two files that name two numbers in opposite orders are the least for a
  deadlock, and one names a number twice in a row; a row without numbers and a
  file without a phone column are the paths that skip. Three runs give a
  second ingestion of a file after a crash, beside a normalizer.
* One number with one crawled and two confirmed observations gives an identity of
  each kind to count, and an entry without a number to skip; the timer's endless
  runs with one more by hand give overlapping runs with a crash in one of them.
* Two tasks are the least for overlapping responses; three actions are a
  switch on, a switch off or a suppression, and a plain synchronisation, in any
  order. Two reporters instead of ten make one more report decisive.
  `bank` has an identity, `stranger` has none and one report less than the
  threshold, `hotline` meets the threshold but is not callable. `device_promise`
  has the code's own threshold: ten people, of whom nine report SCAM.
* Three gestures are two crossing requests and what the owner does with their
  answers; one mishap is a lost request or one event elsewhere. `MaxUsed = 1`
  explores one tab per session, besides the first: the tabs share the
  database and nothing on the screen. The two charts, and the two lists of jobs,
  run the same code on different data, so one of each is there. The timer fires
  when the requests of the tick before have ended.
* The first four keys of a number are free and the rest ones, up to 14
  characters: all prefixes and all lengths the branches distinguish. Pages of
  four pieces give two numbers with something before, between or after them;
  that more pieces, other spellings and longer numbers bring nothing new is what
  the theorems on them show.
* `MaxDepth = 2` instead of 3 with three sitemaps makes cycles, shared
  sitemaps, files behind the bound and an index first met at it; two setbacks
  are a failed request and a crash.
* `MaxDisruptions`, `MaxCrashes`, `MaxFailures`, `MaxChanges`, `MaxPeriods`,
  `MaxApiJobs`, `MaxOverruns`, `MaxReports`, `MaxActions`, `MaxRuns`, `MaxManual`,
  `MaxGestures`, `MaxMishaps`, `MaxWaiting`, `MaxDiscoveries`, `MaxSetbacks`,
  `MaxKeys` and `MaxPieces` exist only to keep instances finite. Liveness under
  them says that a system that is eventually left alone recovers.
* `CHECK_DEADLOCK FALSE` appears where the owner's actions, the runs started or
  the inputs written are bounded and everything then rests: `device`, `web`,
  `datasets`, `functions`.
* Symmetry is used in `device` only, which checks no temporal property.

### Fairness

`JobQueue`: weak fairness of each worker's own steps (systemd restarts it, it
polls for ever, and a handler ends: its fetches time out and its loops are bounded),
and of time passing for each row. Not of job creation, signals or crashes. Weak
fairness is enough because a worker's steps are fair together and some step of
it is always possible. `Scheduler`: of each process's steps, of time, and of
jobs ending, which `EveryJobSettles` and `QueueDrains` of `JobQueue` give; not of
late verdicts. `CrawlPipeline`: of job
crawlers only; nobody has to run the command line, and a page need not change.
`DatasetIngestion`: of the steps of a run that has begun, and of PostgreSQL's
resolution of deadlocks; not of starting runs. `WebApp`: of the timer, and of
requests, which are answered or which the browser gives up; not of gestures, of
mishaps or of what others do. `Aggregation`, `DeviceSync` and `Sequential`
have none: all their properties are safety properties.

## 4. Proofs

TLAPS checks these for every value of the constants, from the named assumptions
of the modules, which TLC evaluates in every run: one `...ConstantsOK` per
module with constants (of `PhoneInputs`, that `InputsOK`), `SignsDiffer` of
`LookupPage` and `RefusedIsNoTable` of `CallLogPage`. The last two say that the
answers of different requests, and what a refused one leaves on the page, are
told apart, which in the code they are by their fields.

| Theorem | Statement | Further assumption |
|---|---|---|
| *`JobQueue_proofs`* | | |
| `TypeCorrect` | `[]TypeOK`, and a worker remembers a job exactly while it runs one | |
| `ActiveJobsUnique` | `[]OneActiveJobPerKey`, and locks on `RUNNING` rows only | |
| `LateWorkersContained` | `[]LateWritesContained` | finitely many workers |
| `LeasesExclusive` | `[](ExclusiveExecution /\ LeaseHeld)` | `~Overrun` |
| `BudgetExact` | `[]RetryBudget` | `~Overrun` |
| `VerdictsFinal` | `TerminalIsFinal` | `~Overrun` |
| `QueueImplementsLifecycle` | `ImplementsLifecycle` | `~Overrun` |
| `QueueImplementsSlots` | `ImplementsSlots` | |
| *`Scheduler_proofs`* | | |
| `SchedulerTypeCorrect` | `[]TypeOK`, and the row in hand is justified | |
| `NothingDropped` | `DeferredNotDropped` | |
| `CapHolds` | `[]CapRespected`, for any schedulers, workers and overruns | |
| `OnlyDueQueued` | `OnlyDueItemsQueued` | one scheduler |
| `DiscoveredOncePerPeriod` | `OneDiscoveryPerPeriod` | one scheduler |
| `SchedulerKeepsToSlots` | `Table!Spec`, the slots of the queue | |
| *`CrawlPipeline_proofs`* | | |
| `ValidatorsAlwaysVouch` | `[]ValidatorsVouch` | |
| `DoublesOnlyFromOverlap` | `[]DoublesNeedOverlap` | finitely many normalizers |
| *`DatasetIngestion_proofs`* | | |
| `StoredWholeAlways` | `[]StoredWhole` | |
| `StoredOnceAlways` | `[]StoredOnce` | |
| *`Sequential_proofs`* | | |
| `BestOfSiteAlwaysQueued` | `[]BestOfSiteQueued` | |
| `OneStoredFormAlways` | `[]OneStoredForm` | |
| `LinesReadAsWritten` | `[]LineReadAsWritten` | |
| `ContextsInParagraph` | `[]ContextOfParagraph` | |
| `ShownNumbersAlwaysFound` | `[]ShownNumbersFound` | |
| *`Aggregation_proofs`* | | |
| `AggregationTypeCorrect` | `[]TypeOK`, and what runs and requests rely on | |
| `ClaimsRestOnObservations` | `[]ClaimsTraceable` | |
| `CountsAndScoresTogether` | `[]CountAndScoreTogether` | |
| `ImportsAreAccounted` | `[]ImportsAccounted` | |
| `UndisturbedRunSettles` | `[]SettledAgrees` | |
| *`DeviceSync_proofs`* | | |
| `DeviceTypeCorrect` | `[]TypeOK` of `DeviceSync` | |
| `NothingBlockedUnasked` | `[]BlockingNeedsOptIn` | |
| `BlockedNumbersMetTheRule` | `[]BlockedByTheRule` | |
| `UndisturbedTaskRepairs` | `[]SettledDeviceHonours` | |
| *`WebApp_proofs`* | | |
| `PagesAlwaysCoherent` | `[]PagesCoherent` | |
| `WarningsAlwaysHonest` | `[]WarningsHonest` | |
| `SettledLookupsAnswer` | `[]SettledLookupAnswers` | |
| `CallsAlwaysKept` | `[]CallsKept` | |

Every further assumption but finiteness is one without which the property is
false, and a run checks the property under it: `~Overrun` separates `lease` from
`overrun`; two schedulers may each insert what the other has just served.
`OneDiscoveryPerPeriod` itself speaks of the time before the first crash, since a
crash between a source's job and its schedule makes the next pass create a second
job in the period. Sets of processes are finite in any deployment; the bounds that count
them need it.

**Job queue.** `OneActiveJobPerKey` is inductive together with types and
`LockIffRunning`: recovery makes rows active without asking the index, and is
harmless because a stale row, being `RUNNING`, was active already. Exclusion
needs more. A worker that executes a job must keep the row, so `LeaseInv` adds
`LeaseHeld`, that no row under execution is stale (`NotStaleWhileRun`, which is
where `~Overrun` enters), that an uninserted row has no attempts
(`FreshWhileAbsent`) and `RetryBudget`. The refinement maps a job's runner to
the worker that both holds the row and remembers the job, so that a crash maps
to `Lose` and recovery of all stale rows at once to `PutBack`.
With overrun the argument counts what is owed: each worker that executes a job
may add one failure (`FailuresOwed`), and since an active row has an attempt left
(`AttemptLeftWhileActive`), a claim starts from at most `MaxAttempts - 1`.
The slots hold whatever overlaps: their number is a cardinality, so `SlotInv` adds
to uniqueness that finitely many rows have been inserted, and a late failure that
puts a finished job back opens a slot only where the index lets it.

**Scheduler.** `InHand` says of a row between its eligibility check and the end
of its turn that budget is left for it while its job is to be created, and that
if a job has appeared for it since, that job was created in the current period, or
is one that a late failure put back;
`NothingDropped` follows, since only `AdvanceSchedule` takes a source off the
due list. For `CapHolds` three things are counted together: the active items, the
budgets of all passes, and the ended jobs that late verdicts may yet put back. The
sum of the budgets, which would need induction, is written as the
size of the set `Allowed` of pairs of a scheduler and a place it has left; the jobs
owed are the set `Owed` of items, no larger than the set `Behind` of workers that
owe them. `CapInv` says that the three fit under one cap for each scheduler and a
place for each worker or overrun: a pass moves a place from `Allowed` to the active
items, a job that ends with workers behind it stays counted in `Owed`, and a late
verdict moves it back; only a pass that begins, and an overrun, add anything, and
each of them what the bound has for it.
`PictureIsDue` says that what the open transaction sees, the rows fetched and
the row in hand are all due still, because one process alone takes rows off;
with `ServedIsInHand`, a source that is due although its job exists is the one
in hand, about to be advanced, which is what a crash breaks.

**Crawl pipeline.** `Transactions` ties each row without an end to the one
crawler that holds it, so that a row's content is committed exactly when its
owner is past the insert; `VouchInv` adds that a crawler about to save
validators has their page stored (`AboutToVouch`). The rows of finished
transactions move when an uncommitted one is removed before them; `Survives`
names the map of positions, and everything said of neighbours is carried over
along it. `Alone` is what a history without overlap keeps: one crawl, whose
transaction is the newest row, neighbours that differ, and a page about to be
inserted that differs from the last. `RowBounded` counts extractions together
with those who may still add one.

**Datasets.** `HandInv` says where each ingestor stands in its file, that no two
hold one document, and that `added` is what comes before the next cell.
`RowsLoaded` makes `SuccessComplete` inductive; `CountsInv` compares each count
with a set of triples of document, pass and cell, to which a commit adds the
cells of one pass. `RacesSeen` shows that only a document two processes held at
once is observed twice, and `OnePass`, `OneEach` and `OfThisRun` that before its
`SUCCESS` an undisturbed file's documents are those of the run under way, each
loaded unless in hand.

**Discovery.** `WalkInv` explains each call of the walk by a chain of sitemaps
that leads to it (`ChainTo`), so a sitemap fetched is at the end of a chain, and
an entry of an index is fetched, still to be called, or excused by the depth it
was met at (`Owed`); when nothing is left to call, `WalkEnds` follows any chain
to its first sitemap that is not fetched. `QueueInv` bounds the targets round by
round. The lemmas under it are about the order of the scored list: `Ahead` is a
strict total order of places (`AheadIsOrder`), of any set of places one comes
first (`OneComesFirst`), the cut keeps it (`CutKeepsTheFirst`), and who is cut
has `MaxQueued` better ones (`LeftOutForBetter`). That the first rule that
matches has the highest score (`FirstRuleIsBest`) is where the order of the yaml
file enters.

**Texts.** The inductive invariants say little (`TypedInv`, `LineInv` and
`PageInv`: texts and pages are made of what may be written); what has to be
shown is what the functions compute for each of them. `AllNumbers` is induction
in the form the provers can use, over the set of numbers that have a property;
with it each recursive function is shown to exist and to satisfy its equation
(`RepeatedSteps`, `SqueezingExists`, `ScanExists`, `ReadingExists`), and its
results to have the properties needed. *Numbers typed:* `FoundIs` reduces the
normalizer to the characters that are kept, and each branch's result is again an
input of the same branch. *Lines:* `SpellingIs`, `NumberAlone` and
`NumberMarkCount` fix the only way the pattern can match a number, a mark and a
count. *Contexts:* `ClampBeforeIs` and `ClampAfterIs` say where the paragraph is
cut, and `ExtractionScans` that what is extracted are matches of the text in
their order. *Numbers of a page:* the page is read from left to right. A match
depends only on the text up to where no unit of the pattern can go on
(`MatchAlike`, for texts that are `AlikeUpTo` there), so what follows a
separator that numbers do not use leaves the matches before it as they were
(`OldMatchesStay`). At the end of a text with a `CleanTail` a spelling is
matched whole (`NumberMatched`) or, when it is short, not at all, and adds its
number to those read (`NumberAdded`); a gap adds none (`GapAdded`), and
squeezing blanks changes no spelling (`NumberNotSqueezed`). `NumbersUpTo`
carries this over the pieces of the page, one after another. `Dialable` enters
in `NumberMatched`, where the pattern asks for a beginning and a length.

**Aggregation.** `AggInv` holds for any number of runs and requests, statement by
statement: a run's rows are still in the table, the candidate whose links it
writes has an identity (`RunSound`), and a request has carried out exactly the
statements before its stage (`RequestSound`). No row is ever deleted (`Grown`),
so that whatever rested on a set of observations still does; each count and
score therefore comes from one set, though not from the newest. For
`ImportsAccounted` the observations that are not counted yet are those a live
request, or `torn`, names. `UndisturbedRunSettles` needs two invariants:
`AloneSound`, that an undisturbed run has read what is there and that each
candidate is on its way (`OnItsWay`), in the phones to come, the names to come,
the links in hand, or in agreement already; and `SettledSound`, that once all
agree every run has read what is there and so rewrites what stands.

**Device.** `NothingBlockedUnasked` follows the numbers backwards: file and
extension hold what a response held, a response holds blocked numbers only if
its first query found the switch on, and the switch is on only after a task the
owner started for that, or a request such a task has given up
(`Consent`). `BlockedNumbersMetTheRule` has a counting
part and a dynamic one. `KeysAreReporters` shows that a count of distinct
`COALESCE(reporter_ref, id)` of at least the threshold yields that many reports
by reporters who can be told apart, by choosing a report for each key, so that a
response is within the rule by the reports of its moment (`BlockableByTheRule`); and
since reports are numbered as they arrive and never deleted, that moment can be
pointed at afterwards (`Numbered`, `RuleKept`), however late the device acts on it
and even when SCAM leads no longer. `Settling` says that a task that is alone
works for the settings as they are, from its first query to the reload, and that
once one has come to its end so does every task that starts before the next
change, hence the file they may overwrite agrees too.

**Web page.** `WebInv` is a conjunction of invariants by component, each
disturbed by the actions of its own tab and shown to be kept by the others once:
`HonestInv` (an answer under way, like a banner, counts this browser once, and
warns if it was asked for after a report was acknowledged), `ScreenInv` (a
request that no later one overtook asks what the page last asked, in the order
sent), `ImportsInv` (an import has stored what it no longer has to do, and what
imports owe a line with what is stored stays under what was sent), `TablesInv`
(the answer to the last request of a table has every call confirmed before it)
and `OpsInv` (one timer; the last request of a chart asks for its range). The
requests of a kind are a sequence from which any may be removed; lemmas about
removal carry what is said of the last and of overtaken ones.

**Model-checked only.** Liveness: `EveryJobSettles`, `QueueDrains`,
`EveryDueItemQueued`, `FinalPageStored`, `EveryRunEnds`, `LoadingEnds` and
`DashboardCatchesUp`, since TLAPS reasons neither about liveness under fairness
nor about `ENABLED`. Every invariant and every action property of a run that
passes is the statement of a theorem above, and so is each refinement.

## 5. Not modelled

* The HTTP collector appears as what a fetch can return. Its retries, robots
  cache and rate limit are each one process's bookkeeping over wall-clock time;
  that workers together exceed a domain's crawl delay, and that retries do not
  renew the time of the last request, is clear from reading.
* The Python normalizer and extractor. The extractor is not the TypeScript one in
  another language: it reads a page through BeautifulSoup, whose `get_text` breaks
  the text at every element and decodes entities
  (`phone_extractor.py:78-103`), where `stripHtmlToVisibleText` replaces tags by
  regular expressions. What is shown of `PhoneExtractor` is therefore not shown of
  it. The confidences of candidates.
* The listings of domains, the priority list of unknown numbers, which no
  route serves, and the system metrics: one statement each, nothing to
  interleave.
* Argument parsing, type declarations, container and unit files beyond
  the restart policy: they keep no state a model would add.
* Label texts, notes, file formats and the HTML of the page.
* The crawl pipeline has no queue around it, and the identities in
  `CallDirectory` are constant: the composed state spaces are beyond what TLC
  explores. The assumptions each makes about the other are properties of the
  other's run (`ExclusiveExecution` and `EveryJobSettles`, `ClaimsTraceable`).

## 6. Plan

1. Abstract specifications of what a component promises, with a proof that the
   model implements them, as `JobLifecycle` and `JobSlots` are for the queue: a
   table of documents in which each page appears at once and whole for `CrawlPipeline`
   without overlap, and an identity table that is recomputed in one step for an
   undisturbed `Aggregation`.
2. Liveness across components: that the scheduler's jobs end, which it takes from
   `EveryJobSettles` of `JobQueue`, shown for the two side by side. For safety
   `JobSlots` joins them already.
3. `HttpFetch`: attempts, backoff and the per-process delay, two workers on one
   domain.

## 7. Running

In this directory, `tlc -config <run>.cfg <module>` checks a run (its module and
configuration are in `PROJECT.json` under `runs`), and `tlapm <module>` checks a
proofs module. The longest runs (`functions`, `web`, `aggregation`, `datasets`,
`sched_single`) take a few minutes each with two workers.
