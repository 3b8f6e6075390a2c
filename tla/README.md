# SEC Insider Database in TLA+

This directory specifies the SEC Insider Database: its ingestion worker, the views derived from
what it stores, and those reads of the API and the front end that take more than one look. It
model-checks the specifications with TLC on small instances, and proves what matters most about
them with TLAPS for every value of their constants. File names below are relative to
`src/sec_insider_db/` unless they begin with a path of their own.

## 1. The system

One container runs the *worker*: migrations, then the historical backfill or a catch-up,
then scheduled incremental runs for ever. Another runs the read-only *API* with the web
front end. They share a PostgreSQL database and nothing else. The worker is one process
with one event loop; it fetches from SEC EDGAR with a blocking client. What must survive
a crash is in four tables: `sec_ownership_filings`, `sec_insider_transactions`,
`sec_ingestion_log`, `sec_backfill_state`. Two materialized views are derived from them.

| Component | State | Operations | Interacts with |
|---|---|---|---|
| Worker startup (`app.py`) | none of its own | migrate, verify, create views, backfill or catch-up, refresh, scheduler | everything below, by calls |
| Filing ingestion (`ingestion/storage.py`) | a filing's row, its transaction rows | `ingest_index_entry` | other sessions, through row locks and unique constraints |
| Ingestion log (`ingestion/observability.py`) | log rows | start, success, skipped, failed; startup report | written in the transaction of the filing |
| Backfill runner (`ingestion/backfill.py`) | locals of one coroutine | quarters, index entries, completion | checkpoint, bulk datasets, ingestion |
| Bulk datasets (`ingestion/bulk_dataset.py`) | none | read a data set, store it batch by batch | tables and checkpoint, in one transaction |
| Checkpoint (`ingestion/checkpoints.py`) | `sec_backfill_state` | get or create, checkpoint, mark complete | read when the worker starts |
| Incremental updater (`ingestion/updater.py`) | locals of each run | window, daily indexes, refresh | ingestion; other runs, through the tables |
| Scheduler (`scheduler/scheduler.py`) | last hourly and nightly slot | tick every 30 s, run a job | starts updater runs as tasks that may overlap |
| SEC client (`sec/client.py`) | time of the last request | spaced `get` with retries | blocks the event loop |
| SEC indexes (`sec/indexes.py`) | none | quarters, daily index URLs, parsing | pure, but for one download |
| Parser (`sec/parser.py`) | none between filings; an automaton within a legacy one | a filing's text to a filing or an error | pure |
| Materialized views (`views/`) | two views | create, refresh, verify | read by the API |
| Query layer, REST, MCP (`api/`) | none | SELECTs | tables and views |
| Web front end (`api/frontend/`) | form and page offset | fetch and render | REST, with overlapping requests |
| Sessions, migrations, settings, logging, containers | configuration | set-up | - |

What is hard about it:

* **Interleaving.** Scheduled runs are tasks that nobody waits for, so an hourly run that
  is slow meets the nightly one in the same filings. Each session reads a filing's status,
  downloads for seconds, and writes by what it has read.
* **Crashes.** The worker may die between any two statements. The backfill resumes from a
  cursor; the updater from nothing but the date of the latest parsed filing.
* **The outside changes.** Indexes list filings late and in the middle, daily indexes appear
  late, the data set of a quarter is served or not, each time it is asked for.
* **Failure of one step of several.** A statement that fails aborts the transaction in which
  the failure was to be logged. An entry that cannot be downloaded ends a run. A listing that
  cannot be had changes how the days of one quarter are found, and not those of the next.
* **Reads in several looks.** A request of two statements has two snapshots; a list that is turned
  page by page grows meanwhile, the page size is read twice, and the filters anew for every page.
* **Input that is not well formed.** The legacy filings are HTML with omitted end tags and tables
  in cells.

What makes each part correct:

* ingestion: rows only for parsed filings, a parsed filing is never taken back, the log can
  be believed, every session ends, and one that overlaps no other is atomic;
* backfill: complete means that nothing was skipped, and it completes once crashes stop (it does not
  where a data set is served: the third finding);
* updater: no published filing falls out of the look-back window unrecorded, and each is
  served in the end;
* scheduler: the job of a slot is started once, unless the event loop is blocked while the slot lasts;
* worker, over its restarts: the backfill hands over to the updater without a gap between them,
  the views can be read once the scheduler runs, and every filing is served in the end;
* client: spacing, attempts and their count; indexes: the days of a window in their order, each
  once, whatever listing fails;
* views: a refresh leaves nothing stale, nothing leaves a view but what was deleted, and no cluster is lost to the suppression of others;
* reads: the parts of an answer do not contradict one another, and turning pages skips nothing;
* legacy filings: the columns of a row are not shifted into one another, and the rows taken for
  transactions are those a reader would take.

## 2. The modules

| Module | What it is |
|---|---|
| `FilingLedger` | abstract: what the ingestion promises of each filing |
| `Ingest` | sessions of `ingest_index_entry`, statement by statement |
| `IngestProofs` | its theorems |
| `Backfill`, `MCBackfill` | the backfill with cursor, indexes and data sets; an instance for TLC |
| `BackfillProofs` | its theorems |
| `Updater`, `MCUpdater` | overlapping incremental runs and their window; an instance for TLC |
| `UpdaterProofs` | its theorems |
| `Scheduler` | ticks and slots of the scheduler, in time |
| `SchedulerProofs` | its theorems |
| `Worker`, `MCWorker` | the process over its restarts: backfill, catch-up, scheduler, views; instances for TLC |
| `WorkerProofs` | its theorems |
| `SecClient` | the client of SEC with its callers, in time |
| `IndexWalk`, `MCIndexWalk` | the search for the daily indexes of a window, on top of `SecClient`; an instance for TLC |
| `IndexWalkProofs` | the theorems of both |
| `ClusterBuys` | the query of `sec_cluster_buys`, as operators |
| `Views`, `MCViews` | creation and refresh of the views by overlapping jobs; an instance for TLC |
| `Queries` | requests of several statements beside a committing worker |
| `SalesPage`, `MCReads` | the paged search of the front end on top of `Queries`; an instance for TLC |
| `ReadSideProofs` | the theorems of `ClusterBuys`, `Views`, `Queries` and `SalesPage` |
| `LegacyTable`, `MCLegacy` | the table automaton of the legacy parser, with its reader; an instance for TLC |
| `LegacyTableProofs` | its theorems |

`Backfill`, `Updater` and `Scheduler` model the jobs and what starts them in detail, each on the
assumption that the others have done their part; `Worker` puts them together coarsely and is where
these assumptions are checked. `IndexWalk` extends `SecClient`, `Views` extends `ClusterBuys`, and
`SalesPage` extends `Queries`.

### FilingLedger

A filing is absent, failed or complete. `RecordFailure` makes an absent one failed, `Complete` makes one
complete that is not, and there is no way back. `Backfill` implements it, and so does every session of `Ingest` that
overlaps no other one of its filing (`LoneIsAtomic`): what it commits is a step of the ledger, and what a crash or a
rollback leaves is none. If complete is taken to mean
parsed, with nothing said of the rows (`StatusLedger`), any number of overlapping sessions
implement it, and the steps of `Updater` are steps of it: this is why `Updater` and `Worker`
may ingest an entry in one step although sessions overlap.

### Ingest

`status`, `rows` and `logs` are the committed tables. A filing stands for one that has
transactions, and `rows` says whether they are stored: they are written and deleted all
together. `pc`, `entry` and `seen` are a session's coroutine: where it stands, its index
entry, and the status in the object its SELECT has loaded, which is what
`existing.parse_status` keeps saying after others commit. `holding` and `cleared` are the
uncommitted writes that others must wait for: the row of the filing, the deleted
transactions. What a session would commit follows from its `pc`.

Every statement of the code is an action: `StartLog` (the flushed log row),
`SelectExisting`, `Fetch` (download and parser, with a filing, a parse error or an exception as
the outcome), `DeleteRows`, `FlushFiling`, `InsertRows`, and a commit for each way out. The
sessions have no autoflush (`database/session.py`), so statements come in the order of the
code. Three details decide the results. An INSERT that finds the accession committed
violates the unique constraint. The UPDATE of a filing that had failed before and fails
again does not contain `parse_status`, for SQLAlchemy writes changed columns only. And
after a failed statement the caller's `commit` raises, so the log row is lost with the rest
(`RollBack`). `DeadlockVictim` is PostgreSQL's answer to a circle of waits, `Fail` a lost
connection, `Crash` the end of the process. `met` is a history variable: the sessions that have shared
their filing with another since they were opened. The others are *lone*, and what a lone session finds may
well have been left by sessions that were not.

### Backfill

`status`, `cursor` and `complete` are the database, `published` and `current` the world: the filings that SEC has
added to its indexes, and the quarter of today. The rest are locals of `BackfillRunner.run`, lost when the process ends
(`Die`), by a `Crash` or by an exception. Quarters are numbered 1..LastQuarter. `Boot` lists the quarters up to today's
(`last`) and reads the cursor. `FetchDataset` decides between data set and index: SEC may serve the data set of a quarter
at one start and answer 404 at the next, so that a cursor written by a batch is resumed in the index, which is in another
order. `SkipEntry` and `IngestEntry` go through an index with `should_skip`, `EndIndex` writes the checkpoint of a quarter
in which nothing was ingested, `MarkComplete` ends it. The ingestion of an entry is one step since the checkpoint
is in its transaction, and no other job runs before the backfill is complete.

`BulkBatch` is what the code does: a batch of which all filings are parsed moves the cursor and writes nothing but log
rows; in any other one `_filing_row` calls `normalize_ticker_symbol`, which `ingestion/bulk_dataset.py` does not import, and the
`NameError` rolls the transaction back and ends the process (the third finding). `BulkBatch_Imported` is the batch with the
import; the tests of the properties use it.

### Updater

Each of `Jobs` is a run that may be going on. `Start` computes the window from the latest
parsed filing; `FetchIndex` downloads a day's index, or misses one that was not in the listing;
`IngestEntry` ingests an entry; `Refresh` ends a run with the views. `Abort` is an exception, which
`_run_job` logs, and `Crash` ends all runs. `Midnight` and `PublishFiling` are the world. It starts from
what a backfill leaves: everything is recorded that SEC listed on the day on which the last
index was read, and the views may be empty if a crash came before their refresh.

### Scheduler

Time is in seconds. `RunPending` is a turn of the loop, which creates the task of a tick when the
schedule library has it due, 30 seconds after the last; the task begins later (`TickHourly`, `TickNightly`,
`TickIdle`). `lastHourly` and `lastNightly` are the two entries of `state`. A slot is the minute in which
`_should_run_hourly` or `_should_run_nightly` says yes, named by its first second. The coroutines share one event
loop with jobs that download with a blocking client, which sends up to five requests of up to a minute each and waits
between them (`sec/client.py:40, 74-80`). `Elapse` therefore lets any time pass, whoever could go on; `Ready` says since
when the scheduler or its tick could, and the history variable `late` collects the slots during which one of them has waited
longer than `Tolerable`. A task created before the loop sleeps begins before the
loop goes on, for asyncio runs what is ready in order. What a job does, and that it may overlap
another, is in `Updater`; `starts` only counts.

### Worker

One index stands for the backfill, that of the current quarter, which is the only one that grows; the quarters before
it are taken as done, as `Backfill` has them when no data set is served;
its filings are numbered by their place in it, and `Day` gives their dates, in any order. `Boot` is
`main` up to the state of the backfill; `ReadIndex`, `BackfillEntry`, `MarkComplete` and
`RefreshAfterBackfill` are the start that resumes the backfill, `StartRun`, `SyncDay` and `FinishRun` an
incremental run, at startup (`pc = "catchup"`) or by the scheduler (`"job"`). `EnterScheduler` is the end
of the startup: without an enabled job the process exits, and the container starts it again. A
filing in `Broken` can never be downloaded: the exception ends the process when it comes from the
backfill or the catch-up, and the run when it comes from a job. `Crash` is everything else that ends
the process. `UpdaterCanStart` is the assumption that `Updater` makes in its Init, here a property.

### SecClient and IndexWalk

`pc`, `lock`, `nap`, `attempt` and `retries` are the state of a call of each thread, `since` the time since
`_last_request_at`. `Acquire` takes the lock and computes the sleep, `Send` stamps the time and releases
it, `Answer` is a response or an error that is not retried, `Retryable` one that is, up to `MaxAttempts`
times in all. In `IndexWalk` one caller is the incremental run: `ListQuarter`, `Listed`,
`VisitDay` and `Fetched` are the loop of `iter_daily_index_urls` and of the updater that consumes it, as the
generator interleaves them. SEC answers the request for a listing as it likes, with a fallback to
weekdays in the code, and that for an index by whether it has posted it (`Honest`). Dates are numbers;
the months have `MonthDays` days each, which keeps the quarter arithmetic of the code and its cases
(the fourth quarter ends with the year) without the lengths of the months.

### ClusterBuys and Views

`Clusters` is the query, clause by clause: `Purchases`, `Bought` and `Window` its first three parts,
`Suppresses` its NOT EXISTS; a purchase without a date (`NoDay`) is none, and one without an insider (`NoInsider`) adds
to the value and not to the insiders. In `Views` two jobs commit transactions (`Store`) or take some away (`Lose`, the
DELETE of the first finding), and then refresh the two views one
after the other: `RefreshConcurrently`, and when that fails, as it must on a view without data,
`RefreshNormally`. `Boot` is a start of the worker, after a crash too, which creates missing views WITH NO
DATA. What a view shows is a function of `basis`, the transactions that its last refresh has seen. `owed` and `barred` are
history variables of a refresh: what has been stored ever since it began, and what has not been at any time since. PostgreSQL
runs the refreshes of one view one after the other, so a refresh is one step that sees what is committed
by then.

### Queries and SalesPage

A request is a sequence of statements (`Statements`), each with the snapshot of its moment (`Execute`),
for the sessions of the API run READ COMMITTED. The worker commits one filing at a time with its
transactions; what overlapping jobs can do to a filing is in `Ingest`. `SalesPage` is `salesPage` of
`app.js`: `offset` is the variable of the closure, which every `run()` and both buttons share; `field` is the page
size in the form, read when a request is sent (`Run`) and again when its answer is rendered (`Render`), in
any order of the answers; the size the buttons add is that of their rendering. `filter` is the rest of the form, as the set of
the rows it lets through: it may be edited without a submit (`EditField`), and `run()` sends it as it is then, for a button
with the offset of the search before (`Turn`). `searched`, `overlapped` and `refiltered` are history variables about the last search: its
filter, whether another request was on its way, and whether a page has been requested under another filter since. `Serve` is the
search: an OFFSET into the list that the ORDER BY allows at this moment.

### LegacyTable

`row`, `cell` and `depth` are the three attributes of `_LegacyHTMLTableParser`, and `StartRow`, `StartCell`, `EndCell`, `EndRow`
and `Data` its handlers. The input is generated token by token: tables, rows and cells, a table in a
cell, text, and the end tags `</td>` and `</tr>` that HTML allows to omit. `tables` is what a browser
makes of it, frame by frame, and `heading` and `meant` what a reader of the tables (`Read`) takes for the section and for a transaction; `section` is
that of `_parse_legacy_transactions`, and `taken` says that it has given an ordinal to the last row. Of a piece of
`Text`, which is any set, the model keeps which of the `Phrases` that the code looks for are in it; two pieces are the
headings. `misled` says that the last row that reads like a heading, to the code, was not one. `fresh`, `due`, `whole`, `spoilt` and
`plain` say how well formed the filing has been so far; the properties need them to say when the parser
can be expected to be right.

## 3. What the runs show

| Run | Instance | Properties |
|---|---|---|
| `ingest_overlap` | 3 sessions, 1 filing | `TypeOK`, `RowsOnlyWhenParsed`, `LogsTellTheTruth`, `UnfailedKeepRows`, `LoneNeverConflicts`, `StatusNeverRegresses`, `LoneIsAtomic`, `SessionsFinish` |
| `ingest_lost_rows` | 2 sessions, 1 filing | `ParsedKeepsRows`, **violated** |
| `backfill` | up to 3 quarters, 8 filings, batches of 2 | `TypeOK`, `NothingSkipped`, `EstimateSound`, `SkippedWasRecorded`, `QuarterNeverRegresses`, `BackfillCompletes`, `LedgerSpec` |
| `backfill_bulk` | the same | `BackfillEnds`, **violated** |
| `updater` | 2 jobs, 3 days, 3 filings, window of 1 day | `TypeOK`, `NoGap`, `EventuallyServed` |
| `scheduler` | 3 slots of 20 s, a tick every 10 s, a loop blocked for any time | `OncePerSlot`, `NoSlotMissed` |
| `worker` | 5 filings in 4 days, the third can never be downloaded, window of 2 days | `NoGap`, `PopulatedOnceScheduling`, `HandsOver`, `EventuallyServed`, `BlockedOnlyBehind` |
| `worker_no_catchup` | 2 filings of one day | `CatchesUpAfterBackfill`, **violated** |
| `index_walk` | 2 callers, 2 attempts, 3 windows over the ends of quarter, year and week | `RetriesCounted`, `VisitedInOrder`, `NothingMissed`, `Spaced`, `WalkEnds` |
| `views` | 2 jobs, 5 purchases in 5 days, one of nobody known, windows of 4 days | `NoClusterLost`, `NoneContained`, `NothingStale`, `ViewsKeepWhatIsStored` |
| `reads` | 2 filings with 3 sales, pages of 1 or 2 rows, 2 filters | `ParsedComesWithRows`, `SummaryCoversFilings`, `PagingSkipsNothing` |
| `legacy_tables` | every HTML of up to 15 tokens with 7 pieces of text, tables nested twice | `Aligned`, `InStepAfterRow`, `ReadAsWritten` |

What they show:

* `ingest_overlap`: rows exist only for parsed filings, the log agrees with the status, a parsed status is never taken
  back, and every session ends, deadlocks included. A session that overlaps no other of its filing never meets a unique
  constraint and changes the ledger in one step or not at all, whatever those before it have left.
* `backfill`: with crashes anywhere, quarters that begin, an index that grows and a data set that is there at one start and gone at
  the next, a backfill marked complete has skipped nothing. In particular a cursor that a batch has left may be resumed in
  the index: what `should_skip` passes over is recorded even then (`SkippedWasRecorded`), *because* only a batch that was
  parsed before, from the index and in its order, ever moves the cursor. With `normalize_ticker_symbol`
  imported this would be wrong: that is the mutant `BulkBatch_Imported`, and whoever adds the import has to keep the cursor of a data set from
  being resumed in the index. `BackfillCompletes` says that the backfill ends once crashes stop and no data set is served any more.
* `updater`: no published filing falls out of the window unrecorded, whatever runs overlap or are cut short, and each is served in the end.
* `scheduler`: a slot's job is started once at most, however long the loop is blocked between two ticks. A slot is missed only
  if the scheduler or its tick waits longer than `Tolerable` *while the slot lasts*: with 30 and 1 of 60 seconds, that is 14. What
  blocked the loop before the slot does no harm, and waits that are shorter never add up to a missed slot. A download that does
  not get through blocks longer, and then the slot is missed; nothing in the code makes up for it but the next slot.
* `worker`: the hand-over from backfill to updater is sound *because of* the window. The index of the
  quarter grows in the middle, and a filing inserted before the cursor while the worker was down is
  never seen by the backfill; `HandsOver` says that the first incremental run reaches every such
  filing, and `NoGap` that no later one moves its window past an unrecorded filing, though runs
  may end halfway. `ASSUME WindowIsLongEnough` is the condition: the delay of SEC's listing and the time
  from the first download of the index to the completion of the backfill do not exceed the window of 14
  days together. `PopulatedOnceScheduling`: the catch-up of the next start makes good a crash before
  the refresh. `BlockedOnlyBehind`: an entry that always fails stops the worker at itself, but not
  before. `EventuallyServed` names its exceptions: such an entry, and `Stranded`, a backfill that has
  parsed nothing, after which the updater never has a date to start from.
* `index_walk`: with listings that fail for some quarters only, the days still come in order, once
  each, and none that SEC has posted is missed by a run that ends well. It ends, as a request is sent a
  bounded number of times.
* `views`: for every subset of the purchases, any two insiders who bought within the span are together
  in a cluster that is shown, though a suppressing window may be suppressed itself; and no job
  that ends well leaves a view older than its own data, or with rows that were gone when its refresh began, though other jobs
  store, delete and refresh meanwhile. A filled view drops only what was deleted.
* `reads`: a filing that is reported as parsed comes with its rows, because the filing is read first (the
  mutant reads it second); the totals of the summary cover the filings they are shown beside; turning
  pages skips no row, although the list grows and the form may be edited between, as long as no page is turned under filters
  that were not submitted. With such filters the code does leave rows out: the offset counts the rows of another list
  (`api/frontend/assets/app.js:199, 231`).
* `legacy_tables`: a recorded row is a prefix of a row of the filing, so that columns are never shifted,
  except when a table within one of its cells ends with a row left open. After any `</tr>` the parser is in
  step again. Written out in full, a filing is read as its reader does, with rows that have one of the phrases of a heading
  anywhere. A row that has both, such as a footnote on a derivative security reported in Table II, is taken for a
  heading (`sec/parser.py:363-368`): transactions below it are lost, or derivative ones taken, until the next heading,
  which puts it right. `ReadAsWritten` says just that, by `misled`.

Each property of a passing run has a mutant (the definitions with an underscore in their
names, such as `Boot_AfterCursor`): the definition as a plausible mistake would have it, under which
TLC finds the property violated. The specifications do not use them.

**Bounds, and why they are enough.** A filing interacts with others in `Ingest` only through
its session, so one filing is enough. Three
sessions are the least with which a deadlock exists: one commits the filing while two others
believe that it failed. The backfill has a quarter before the data sets, one with a data set
and one that may begin meanwhile; its index and data set are in different orders, an index lists a filing
twice, and a data set of three has a short last batch. The calendar of the updater is the
least in which a filing can be older than the window (three days for a window of one), and
two jobs are the least that overlap. `LastDay` bounds the clock there, and `LastTime` that of the
scheduler, whose slots are adjacent, or a slot's length apart; the loop may be blocked for longer than all of them. The proof is
for the real numbers.

`Worker` has the least calendar in which a late filing can be out of the window of a day, and the
filings of the index are in no order of their days, so that one can be inserted before the cursor; one
can never be downloaded, with others of its day before it and of a later day behind it. Its `Lag` and
`Outage` use up the window exactly. `IndexWalk` has months of two days, so quarters of six: the three
windows lie within a quarter, over the end of one with a weekend, and over the end of a year; two
callers are the least that compete for the lock, two attempts the least with a retry. The purchases of
`Views` lie in five days with windows of four, so that three windows may overlap and the first
does not reach the last; windows with more insiders, or with a larger value, than one they contain or are contained in occur
among the subsets, and one of the purchases has no insider; `MaxCommits` is 2, to store rows and take them away again;
the two jobs are interchangeable (SYMMETRY). In `SalesPage` two of the rows have no
date and share their filing date, so that the last sort key matters, and are of one filing; the filters are all rows, and all but one of
these two; `MaxFlight` bounds the requests on their way at 2, the least that can be answered out of order; page sizes are the default
of 1, empty (0), and the largest, 2. A behaviour has a page or requests of several statements, not both, since reads
do not change what others read. `LegacyTable` has `MinCells` 2 instead of 8, with the date in the first and the code in
the second cell, so that a transaction, and a row too short or shifted, fit into few tokens; 15 tokens hold a heading and a
transaction below it, both written out in full, and its 7 pieces of text a mention of Table I, the title of a column, and a
footnote that reads like the heading of Table II. Nothing else is bounded. Two runs do without deadlock checking:
`scheduler` stops at `LastTime`, and `legacy_tables` at `MaxTokens`.

**The first finding.** `README.md:68` of the repository says that transaction ingestion is idempotent.
`ingest_lost_rows` shows how a parsed filing loses its transactions: a filing has failed
before; sessions 1 and 2 both read `failed`; session 1 gets the filing, stores its rows and
commits; session 2 gets a response it cannot parse, deletes the rows by `filing_id`
(`ingestion/storage.py:124`), leaves `parse_status` out of its UPDATE because it loaded `failed`, and commits.
The filing stays `parsed` without rows, and every later run skips it
(`ingestion/storage.py:67`). This needs two overlapping sessions; a lone one is atomic (`LoneSessionsAreAtomic`).
It can happen to no filing that has never failed, and the log names each one that it may have happened to
(`UnfailedKeepRows`).

**The second finding.** `README.md:3` says that on startup the worker "resumes historical backfill when
needed, catches up incremental filings after backfill, refreshes materialized views, and starts
scheduled sync jobs". `app.py:52-56` does either: the start that completes the backfill refreshes
the views and goes on to the scheduler. `worker_no_catchup` shows a filing of an earlier day, by its filing date, that SEC lists
after the backfill has downloaded the index: it is not recorded when the scheduler starts, and waits for
the first scheduled run. It is not lost (`NoGap`).

**The third finding.** `README.md:3` says that the worker "resumes historical backfill when needed". `backfill_bulk` shows a
backfill that never ends, without a crash and whatever fairness: the data set of a quarter is served and has a filing that is
not parsed, so its batch raises `NameError` (`ingestion/bulk_dataset.py:260`, before the first insert; line 305 would follow),
the process ends, and the restarted one comes to the same batch. Data sets begin with 2020 (line 24), which is also where a
backfill starts by default (`backfill_start_year`), so a fresh installation does not get past its first quarter.

## 4. Fairness

* `Ingest`: weak fairness of the steps that only need the event loop and the server, strong
  fairness of the statements that wait for a lock. PostgreSQL queues the transactions that wait for
  a row, so one that can go on again and again is not passed over for ever. New sessions are not
  fair: nothing has to start.
* `Backfill`: weak fairness of the worker's steps, `Boot` included, since the container is
  restarted (`docker-compose.yml`, `restart: unless-stopped`). `BackfillCompletes` assumes that crashes end some
  time, and that SEC serves data sets no more; `BackfillEnds`, the first alone. No fairness is assumed of SEC.
* `Updater`: weak fairness of each job's start (the scheduler goes on starting them) and of
  its steps. `EventuallyServed` assumes that some day runs are no longer cut short; a run that
  always fails at the same entry is outside of it, and is looked at in `Worker`.
* `Worker`: weak fairness of the worker's steps together, since they are one sequential process; `Boot` is
  among them, because the container is restarted after a crash and after an exit. Both liveness properties
  assume that crashes stop; a download that fails for good is not a crash, but the filing's place in `Broken`.
* `IndexWalk`: weak fairness of the run's own steps, of the clock and of each caller's steps: a request is
  answered or times out (the client sets a timeout). Python's lock is not fair, and a caller that
  asks for it again and again could keep it from another: `WalkEnds` therefore assumes that the other callers
  fall silent.
* `Views`, `SalesPage` and `LegacyTable` have safety properties only and assume no fairness.

## 5. What is proved

The constants' assumptions are all that the theorems rest on: `NoneIsNotAFiling`;
`QuartersAssumption`, `FilingsAssumption`, `OneQuarterPerFiling`, `DatasetCoversIndex`; `DaysAssumption`; `TimesAssumption`, `SlotsAssumption`;
`WorkerAssumption`, `WindowIsLongEnough`; `ClientAssumption`, `WalkAssumption`; `ViewsAssumption`; `QueriesAssumption`,
`SalesPageAssumption`, `KeyAssumption`; `LegacyTableAssumption`, `TextAssumption`, `NoneIsNoSequence`.
Most say that numbers are numbers and that what is stored is finite. A few say more.
`DatasetCoversIndex` and `OneQuarterPerFiling` are about SEC: a quarter's data set holds what its index lists, and a filing is listed in one quarter. `WindowIsLongEnough` is about SEC and the operator, and `KeyAssumption` is the primary key of the
transactions. The updater also rests on an assumption in its action `PublishFiling`: SEC lists a
filing at the latest `WindowDays` after its date; `Worker` has the like with `Lag` and, in `Midnight`, `Outage`.

* `IngestProofs`: `TypeCorrect`, `RowsNeedParsed`, `LogsAreTrue`, `StatusIsMonotone` for any sessions and filings;
  `LoneNoConflict` and `LoneSessionsAreAtomic` for the sessions that overlap no other of their filing. A commit keeps `RowsOnlyWhenParsed`
  because the row lock of a filing in `holding` makes `seen` current, which is not visible in the
  tables. The inductive invariant `Inv` therefore adds which control states hold locks
  (`WritesInv`), that no two sessions hold one row (`OneWriter`), and that what a session has
  seen is stale in one direction only: towards parsed (`SeenInv`). From the same invariant,
  `OverlapImplementsLedger`: the status that overlapping sessions commit implements the ledger. What they do not
  preserve is the rows of a parsed filing, and `OnlyFailedLoseRows` says where: the session that deletes them has
  seen a failure, which is in the log (`FailuresLogged`).
* `BackfillProofs`: `TypeCorrect`, `CompleteIsComplete`, `EstimateIsSound`, `SkippingIsSafe`, `CursorAdvances`, `BackfillImplementsLedger`,
  for any indexes, batch size, crashes, publications and quarters that begin, and for data sets in any order, served at one
  request and not at the next. The invariant says that every quarter before the cursor, and before the loop's quarter, is
  covered; and that of a recorded filing, all entries before its first occurrence in its index are recorded (`OrderInv`). The
  latter is what makes it safe to resume a cursor wherever it comes from. It holds because filings are recorded by walks
  through the index only: `SkippingIsSafe` rests on the missing import, and is lost with it. The first occurrence matters because an index may list a filing several times and
  the loop resumes after the first.
* `SchedulerProofs`: `TypeCorrect`, `StartedOnce` and `NothingMissed`, for an event loop that may be blocked for any time. A slot that
  has begun and is not served yet is still going on, if nobody has waited for too long in it: the next tick is due at most an
  interval after the slot began, is created at most a sleep and a wait later, and begins at most another wait later (`ServedInv`, with
  `WaitInv` for the waits), and `Interval + Sleep + 2 * Tolerable < Minute`. `MarkedInv` says that a slot's start is noted as long as it lasts.
* `UpdaterProofs`: `TypeCorrect` and `NoGapOpens`, for any filings, calendar, window and jobs. `NoGap` alone is not
  inductive: a job that ingests a filing moves the window of all later ones. `JobInv` says what
  a job has left behind it: filings of the days it has passed are recorded, unless SEC may
  still list them (`Settled`), those of its current day are recorded or in `todo`, and no index of a
  settled filing was missing from its listing. A filing it then ingests is of a day it has
  reached, so the window it opens is covered. `JobsKeepLedger` is the step of the ledger; the initial state
  of `Updater` is a filled database, so it is not the whole refinement.
* `WorkerProofs`: `TypeCorrect`, `NoGapOpens`, `PopulatedForReaders` and `BackfillHandsOver`, for any calendar, order of the index,
  broken documents, crashes and outages. What the cursor of a backfill has passed, and what is not in the index that it
  goes through, is recorded or was listed since the first download (`ListedLate`), and the whole takes no longer than `Outage`
  (`BackfillInv`). Since `Lag + Outage <= WindowDays`, a filing that was listed late is in the window of
  whatever was parsed meanwhile: this gives `HandsOver`, and `NoGap` at the completion. Afterwards
  `RunInv` carries it through the runs: what is behind the day of a run is recorded, or listed since the run
  began. `ViewsInv` adds that a scheduled job, which needs a parsed filing, runs over populated views.
* `IndexWalkProofs`: `TypeCorrect`, `RetriesAreCounted` and `RequestsAreSpaced` are about `SecClient` alone, for any threads,
  interval and attempts. Spacing rests on `since + nap >= Interval` for the holder of the lock while it
  sleeps, and on the fact that nobody else can stamp the time meanwhile. `WalkUsesClient` says that
  `IndexWalk` is a client with arbitrary callers, so these theorems hold in it. `DaysAreInOrder` and `NoDayIsMissed` are
  about the walk, for any windows, months of any length and any days posted. The invariant says that what
  was visited lies before the current quarter's end, that the days still in `names` are behind the last visited,
  and that every posted day before the current quarter, and every one of the current one that is not in
  `names`, has been visited and fetched. That the quarters of a window partition it needs lemmas on
  division (`FirstOf` of the quarter after is the day after `QuarterEnd`), and that the least element of a set of
  naturals exists.
* `LegacyTableProofs`: `RowsAreAligned`, `BackInStep` and `ReadsAsWritten`, for any length, nesting, width and columns; and
  `YearRecovered` for the years of two digits. The invariant relates the automaton to the browser's frames:
  the parser agrees with the innermost row that follows a recorded one and is whole so far (`SyncInv`); in any
  other it has the first cells of the row and has missed the end of some cell, and then records no more of
  it (`FollowInv`), since the depth only falls to zero where nothing was missed; in a filing
  written out in full there is one frame and it is always agreed on (`PlainInv`). The alphabet of the text is a constant:
  `TextAssumption` asks only that the two headings have their phrases.
* `ReadSideProofs`, on the views: `EachPairIsShown` and `NoClusterTwice` are about the query, for any finite set of
  purchases. Of the windows that hold both purchases of a pair, the first to open is shown: whatever suppressed it would
  open earlier, end no earlier, and so hold the pair too. And a window that is contained in another
  is suppressed by it, because the other has a purchase more, and so a larger
  value. The latter needs the value to be strictly monotone, which is a fact about a recursive sum
  (`MapThenSumSet`). No induction theorem of the library can be used for it (they take an operator as a
  parameter, which the installed provers cannot instantiate); it is proved with a minimal counterexample
  instead, from the well-foundedness of the strict subset relation over finite sets (`Minimal`, `SumsExist`, `TotalStep`, `TotalRemove`). `ViewsTypeCorrect`, `RefreshLeavesNothingStale` and `OnlyDeletedRowsLeaveViews`
  are about the jobs. The invariant says that a job that has come to the second view has left the first with what it owes and without
  what is barred; whatever replaces a basis is what is stored at that moment.
* `ReadSideProofs`, on the reads: `DetailIsComplete` and `SummaryIsCovered` rest on the order of the statements (`AnswerInv`: what the
  first has seen is still so for the second, since no filing ceases to be parsed). `NoRowIsSkipped` needs
  `PageInv`: while searches do not overlap and pages are turned under the filter of the search, a row of the first page's list that has not been shown has at least
  `offset` rows before it (`Behind`), and keeps them, because rows are only added to the list. It
  rests on lemmas about `Orders`: the rows before a row in a list ordered by `Precedes` are exactly its `Earlier` ones.

Only model-checked: the liveness properties (`SessionsFinish`, `BackfillCompletes`, `WalkEnds`, `BlockedOnlyBehind`, and `EventuallyServed` of
`Updater` and of `Worker`), since liveness under fairness is out of the prover's reach. Every safety property of a passing run
is a theorem. Only refuted: `ParsedKeepsRows`, `CatchesUpAfterBackfill` and `BackfillEnds`.

## 6. What is not modelled, and the plan

Left out for good:

* the conversion of text into values: the XML of ownership documents, the TSV files of the data sets,
  names and titles found by regular expressions, `parse_master_index`. They keep no state, and
  what they do is text to text; the outcome, a filing or an error, is a choice in `Ingest`;
* the endpoints of one statement, the MCP tools over the same queries, the response schemas, and the
  pages of the front end that render a single answer; `sec_ingestion_summary`, a GROUP BY;
* the counts of the startup report, logging, settings, migrations, containers. `run_backfill_and_refresh`
  has no caller.

Known limits of what is modelled:

* `PagingSkipsNothing` is about searches that do not overlap, for an old answer that comes last is rendered under
  the new filters; and about pages that are turned under the filters of the search. It does not hold otherwise, and the
  repository does not say what should be shown. An empty page size makes the page label "Page NaN" or "Page Infinity" and leaves
  the Next button where it is (`api/frontend/assets/app.js:209`); the model has the second, and nothing is skipped by it. A negative
  size, which the form refuses on submit only, is left out.
* In `Queries` and `SalesPage` a parsed filing keeps its rows. Where jobs overlap the worker may delete them (the first
  finding); then a parsed filing comes without its rows, and pages may leave out rows that come after the deleted ones.
* The list of clusters orders ties in no way, so it could not be paged reliably; nobody does.
* `summary` reads `backfill_complete` last, so it may say that the backfill is complete beside counts of a
  moment before; no property forbids it.
* An answer of `filing_detail` may show a filing as failed with its transactions. The converse, parsed without its
  transactions, cannot happen while one session at a time ingests it (`ParsedComesWithRows`); overlapping ones can make it so.
* `Worker` takes the quarters before the current one as done, and has no data sets: with the third finding, a worker
  that meets one gets no further than `Backfill` shows.

Left to do: `Worker` ingests a day at a time and so implements neither `Updater` nor the ledger step by step; a ledger
that commits several filings in several ways at once, between the two, would let the refinement be
proved. The types of `SalesPage` are proved only while searches do not overlap (`PageInv`).

## 7. Running it

    tlc -config ingest_overlap.cfg Ingest
    tlc -config backfill.cfg MCBackfill
    tlc -config backfill_bulk.cfg MCBackfill        # violated
    tlc -config updater.cfg MCUpdater
    tlc -config scheduler.cfg Scheduler
    tlc -config worker.cfg MCWorker
    tlc -config index_walk.cfg MCIndexWalk
    tlc -config views.cfg MCViews
    tlc -config reads.cfg MCReads
    tlc -config legacy_tables.cfg MCLegacy
    tlapm IngestProofs.tla        # and the other seven modules of proofs

`ingest_lost_rows` is a run of `Ingest` as well, and `worker_no_catchup` one of `MCWorker`; both end with a violation, too.
None takes much longer than a minute with two workers.
