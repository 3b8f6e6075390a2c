------------------------------- MODULE Worker -------------------------------
(***************************************************************************)
(* The worker process (app.py, async_main) over its restarts: it resumes   *)
(* the backfill or, once that is complete, catches up; then the scheduler  *)
(* goes on, unless it is disabled, when the process exits and the container *)
(* is started again.  Backfill and Updater model the two jobs in detail,   *)
(* each on the assumption that the other has done its part.  This module   *)
(* puts them together, coarsely: one index for the backfill (the current   *)
(* quarter's, the only one that grows; the quarters before it are taken as *)
(* done, which Backfill says when they are), one run of the updater at a   *)
(* time, and a daily index ingested in one step.                           *)
(*                                                                         *)
(* Filings are numbered by their place in the index of the quarter, which  *)
(* is sorted by company, so their order has nothing to do with their days. *)
(* The cursor of the backfill is the number of a filing, or 0.             *)
(***************************************************************************)
EXTENDS Integers, FiniteSetsExt

CONSTANTS
    LastFiling,     \* the filings are 1..LastFiling
    Day,            \* filing dates
    Broken,         \* filings whose document cannot be downloaded, ever
    WindowDays,     \* how far an incremental run looks back
    Lag,            \* SEC lists a filing at most so many days after its date
    Outage,         \* the quarter's index is done within so many days, outages included
    LastDay         \* the calendar of the model is 1..LastDay

Filings == 1 .. LastFiling

ASSUME WorkerAssumption ==
    /\ LastFiling \in Nat
    /\ LastDay \in Nat \ {0}
    /\ Day \in [Filings -> 1 .. LastDay]
    /\ Broken \subseteq Filings
    /\ Lag \in Nat
    /\ Outage \in Nat
    /\ WindowDays \in Nat

\* What the window of 14 days is for: it makes good a filing SEC lists late,
\* inserted before the cursor of a backfill that is interrupted.
ASSUME WindowIsLongEnough == Lag + Outage <= WindowDays

VARIABLES
    status,     \* parse_status of each filing, "absent" without a row
    cursor,     \* last_accession of sec_backfill_state
    complete,   \* backfill_complete
    shown,      \* the filings whose transactions the materialized views show
    populated,  \* the views have been refreshed since they were created
    today,
    published,  \* the filings that SEC's indexes list by now
    firstRead,  \* the day on which the quarter's index was first downloaded, or 0
    pc,         \* where the process stands
    scheduled,  \* a scheduled job is enabled in the settings of this start
    index,      \* the index the backfill has downloaded
    day, end    \* the day an incremental run has come to, and its last one

database == <<status, cursor, complete, shown, populated>>
sec      == <<today, published, firstRead>>
process  == <<pc, scheduled, index, day, end>>
vars     == <<status, cursor, complete, shown, populated, today, published, firstRead,
              pc, scheduled, index, day, end>>

Parsed == {f \in Filings : status[f] = "parsed"}
Recorded(f) == status[f] # "absent"

\* f comes before g in the daily indexes, and in the order of an incremental run.
Before(f, g) == Day[f] < Day[g] \/ (Day[f] = Day[g] /\ f < g)

\* The filings of fs are ingested: a parsed one is skipped, any other becomes
\* parsed or failed.
Ingest(fs) ==
    \E failing \in SUBSET fs :
        status' = [f \in Filings |->
                      IF f \notin fs \/ status[f] = "parsed" THEN status[f]
                      ELSE IF f \in failing THEN "failed" ELSE "parsed"]

\* The process is over, with its locals.
Die ==
    /\ pc' = "down"
    /\ scheduled' = FALSE
    /\ index' = {}
    /\ day' = 0
    /\ end' = 0

\* The startup is over: the scheduler runs, or the process exits.
EnterScheduler ==
    IF scheduled
    THEN /\ pc' = "scheduler"
         /\ index' = {}
         /\ day' = 0
         /\ end' = 0
         /\ UNCHANGED scheduled
    ELSE Die

\* An incremental run is over: at startup the scheduler is next.
LeaveRun ==
    IF pc = "catchup" THEN EnterScheduler
    ELSE /\ pc' = "scheduler"
         /\ day' = 0
         /\ end' = 0
         /\ UNCHANGED <<scheduled, index>>

----------------------------------------------------------------------------
(* Plausible mistakes.  Each definition replaces the one it is named after *)
(* when the properties are tested; the specification uses none.            *)

\* The window goes back from today.
Window_FromToday(run) ==
    /\ pc' = run
    /\ day' = Max({1, today - WindowDays})
    /\ end' = today

\* A filing whose ingestion raises is passed over.
BackfillEntry_SwallowError ==
    /\ pc = "entries"
    /\ \E f \in index :
          /\ f > cursor
          /\ \A g \in index : g > cursor => f <= g
          /\ UNCHANGED status \/ Ingest({f})
          /\ cursor' = f
    /\ UNCHANGED <<complete, shown, populated, sec, process>>

\* The scheduler starts without a refresh after the backfill.
MarkComplete_NoRefresh ==
    /\ pc = "entries"
    /\ \A f \in index : f <= cursor
    /\ complete' = TRUE
    /\ EnterScheduler
    /\ UNCHANGED <<status, cursor, shown, populated, sec>>

\* The documents of a day are downloaded before any is stored.
SyncDay_DownloadFirst ==
    /\ pc \in {"catchup", "job"}
    /\ day <= end
    /\ LET entries == {f \in published : Day[f] = day}
       IN  IF entries \cap Broken = {}
           THEN /\ Ingest(entries)
                /\ day' = day + 1
                /\ UNCHANGED <<pc, scheduled, index, end>>
           ELSE /\ IF pc = "catchup" THEN Die ELSE LeaveRun
                /\ UNCHANGED status
    /\ UNCHANGED <<cursor, complete, shown, populated, sec>>

\* A scheduled run leaves the views to the next start.
FinishRun_NoRefresh ==
    /\ pc \in {"catchup", "job"}
    /\ day > end
    /\ IF pc = "catchup" THEN shown' = Parsed /\ populated' = TRUE
                         ELSE UNCHANGED <<shown, populated>>
    /\ LeaveRun
    /\ UNCHANGED <<status, cursor, complete, sec>>

----------------------------------------------------------------------------

\* The days of an incremental run, from the latest parsed filing (never none).
Window(run) ==
    /\ pc' = run
    /\ day' = Max({1, Max({Day[f] : f \in Parsed}) - WindowDays})
    /\ end' = today

Init ==
    /\ status = [f \in Filings |-> "absent"]
    /\ cursor = 0
    /\ complete = FALSE
    /\ shown = {}
    /\ populated = FALSE
    /\ today = 1
    /\ published = {}
    /\ firstRead = 0
    /\ pc = "down"
    /\ scheduled = FALSE
    /\ index = {}
    /\ day = 0
    /\ end = 0

\* The container starts: settings, migrations, the views created without data
\* unless they exist, and the state of the backfill.
Boot ==
    /\ pc = "down"
    /\ scheduled' \in BOOLEAN
    /\ pc' = IF complete THEN "startcatchup" ELSE "backfill"
    /\ UNCHANGED <<database, sec, index, day, end>>

\* The backfill downloads the index, and continues after its cursor.
ReadIndex ==
    /\ pc = "backfill"
    /\ pc' = "entries"
    /\ index' = published
    /\ firstRead' = IF firstRead = 0 THEN today ELSE firstRead
    /\ UNCHANGED <<database, today, published, scheduled, day, end>>

\* The next entry is ingested with its checkpoint, or ends the process.
BackfillEntry ==
    /\ pc = "entries"
    /\ \E f \in index :
          /\ f > cursor
          /\ \A g \in index : g > cursor => f <= g
          /\ IF f \in Broken
             THEN Die /\ UNCHANGED <<status, cursor>>
             ELSE Ingest({f}) /\ cursor' = f /\ UNCHANGED process
    /\ UNCHANGED <<complete, shown, populated, sec>>

MarkComplete ==
    /\ pc = "entries"
    /\ \A f \in index : f <= cursor
    /\ complete' = TRUE
    /\ pc' = "refresh"
    /\ UNCHANGED <<status, cursor, shown, populated, sec, scheduled, index, day, end>>

\* The refresh that follows the backfill, in the process that completed it.
RefreshAfterBackfill ==
    /\ pc = "refresh"
    /\ shown' = Parsed
    /\ populated' = TRUE
    /\ EnterScheduler
    /\ UNCHANGED <<status, cursor, complete, sec>>

\* An incremental run starts, at startup or by the scheduler; without a parsed
\* filing it is over at once, and refreshes nothing.
StartRun ==
    /\ \/ pc = "startcatchup" /\ Parsed # {} /\ Window("catchup") /\ UNCHANGED <<scheduled, index>>
       \/ pc = "startcatchup" /\ Parsed = {} /\ EnterScheduler
       \/ pc = "scheduler" /\ Parsed # {} /\ Window("job") /\ UNCHANGED <<scheduled, index>>
    /\ UNCHANGED <<database, sec>>

\* The index of a day is downloaded and its entries ingested in their order, up
\* to one that cannot be downloaded, which ends the run: at startup with the
\* process, in the scheduler with a log entry.
SyncDay ==
    /\ pc \in {"catchup", "job"}
    /\ day <= end
    /\ LET entries == {f \in published : Day[f] = day}
           reached == {f \in entries : \A b \in Broken \cap entries : f < b}
       IN  /\ Ingest(reached)
           /\ IF reached = entries
              THEN day' = day + 1 /\ UNCHANGED <<pc, scheduled, index, end>>
              ELSE IF pc = "catchup" THEN Die ELSE LeaveRun
    /\ UNCHANGED <<cursor, complete, shown, populated, sec>>

FinishRun ==
    /\ pc \in {"catchup", "job"}
    /\ day > end
    /\ shown' = Parsed
    /\ populated' = TRUE
    /\ LeaveRun
    /\ UNCHANGED <<status, cursor, complete, sec>>

----------------------------------------------------------------------------
(* The environment                                                         *)

\* The process is killed, or an exception that will not repeat itself ends it.
Crash ==
    /\ pc # "down"
    /\ Die
    /\ UNCHANGED <<database, sec>>

\* A day passes; the quarter's index does not take longer than Outage.
Midnight ==
    /\ today < LastDay
    /\ firstRead # 0 /\ ~complete => today < firstRead + Outage
    /\ today' = today + 1
    /\ UNCHANGED <<database, published, firstRead, process>>

PublishFiling ==
    /\ \E f \in Filings \ published :
          /\ Day[f] <= today
          /\ today <= Day[f] + Lag
          /\ published' = published \cup {f}
    /\ UNCHANGED <<database, today, firstRead, process>>

----------------------------------------------------------------------------

Work ==
    \/ Boot
    \/ ReadIndex
    \/ BackfillEntry
    \/ MarkComplete
    \/ RefreshAfterBackfill
    \/ StartRun
    \/ SyncDay
    \/ FinishRun

Next == Work \/ Crash \/ Midnight \/ PublishFiling

Spec == Init /\ [][Next]_vars

\* The process runs on, the container is started again (restart:
\* unless-stopped, which includes an exit), and the scheduler goes on.
FairSpec == Spec /\ WF_vars(Work)

----------------------------------------------------------------------------
(* Properties                                                              *)

\* The state from which Updater starts, the assumption of its Init about the
\* backfill: there is a day up to which SEC's listing is recorded, and the window
\* reaches every published filing that is not.
UpdaterCanStart ==
    \E read \in 1 .. today : \A f \in published :
        IF Recorded(f) THEN Day[f] <= read ELSE read <= Day[f] + WindowDays

\* The backfill marks itself complete only when the updater can take over: a
\* filing inserted before the cursor while the worker was down is left to it
\* (BackfillRunner.run, should_skip in _backfill_quarter).
HandsOver == [][complete' /\ ~complete => UpdaterCanStart']_vars

\* After the backfill no published filing is ever unrecorded and out of the
\* window of the next run, restarts and failing runs included
\* (start in IncrementalUpdater.run).
NoGap ==
    complete => \A f \in published, g \in Parsed : Day[f] < Day[g] - WindowDays => Recorded(f)

\* Once the scheduler runs, the API can read the views: a crash between
\* mark_backfill_complete and the refresh is made good by the catch-up of the next
\* start, unless nothing was parsed (async_main).
PopulatedOnceScheduling == pc \in {"scheduler", "job"} => populated \/ Parsed = {}

\* A backfill that ends without a parsed filing leaves the updater without a
\* date to start from, for ever.
Stranded == complete /\ Parsed = {}

\* If crashes stop, and every document can be downloaded, each filing that SEC
\* lists is in the end recorded as failed or shown by the views (async_main).
EventuallyServed ==
    <>[][~Crash]_vars =>
        \A f \in Filings :
            f \in published ~> \/ status[f] = "failed"
                               \/ f \in shown
                               \/ Stranded
                               \/ Broken \cap published # {}

\* A document that can never be downloaded ends every run at its entry; it keeps
\* the worker from the filings after it, but from none before it
\* (the raise in IncrementalUpdater.run).
BlockedOnlyBehind ==
    <>[][~Crash]_vars =>
        \A f \in Filings :
            complete /\ f \in published ~>
                Recorded(f) \/ Stranded \/ \E b \in Broken \cap published : ~Before(f, b)

\* "On startup it [...] resumes historical backfill when needed, catches up
\* incremental filings after backfill": when the start that completed the
\* backfill comes to the scheduler, the filings of earlier days are recorded.
CatchesUpAfterBackfill ==
    [][pc = "refresh" /\ pc' = "scheduler" =>
          \A f \in published \ Broken : Day[f] < today => Recorded(f)]_vars
=============================================================================
