------------------------------- MODULE Updater -------------------------------
(***************************************************************************)
(* The incremental update (ingestion/updater.py, IncrementalUpdater.run):  *)
(* a job takes the filing date of the latest parsed filing, goes WindowDays *)
(* back from it, and ingests the daily indexes from there through today.   *)
(* Nothing else remembers how far the updates have come, so the window is  *)
(* all that protects a filing whose index appeared late, whose ingestion   *)
(* was cut short, or that came in during an outage.                        *)
(*                                                                         *)
(* Jobs is the set of runs that may be going on at once: the startup       *)
(* catch-up, and the tasks of the scheduler, which starts one without      *)
(* waiting for the one before.  The ingestion of an entry is one step;     *)
(* what happens inside it, overlapping sessions included, is in Ingest.    *)
(***************************************************************************)
EXTENDS Integers, FiniteSets

CONSTANTS
    Filings,        \* accession numbers
    Day,            \* the filing date of each: the daily index that lists it
    WindowDays,     \* how far a run looks back from the latest parsed filing
    FirstDay,       \* January 1 of BACKFILL_START_YEAR
    LastDay,        \* the calendar of the model ends here
    Jobs

ASSUME DaysAssumption ==
    /\ WindowDays \in Nat
    /\ FirstDay \in Int
    /\ LastDay \in Int
    /\ FirstDay <= LastDay
    /\ Day \in [Filings -> FirstDay .. LastDay]

VARIABLES
    status,     \* parse_status of each filing, "absent" without a row
    viewed,     \* the filings whose transactions the materialized views show
    today,
    published,  \* the filings that SEC's daily indexes list by now
    pc,         \* where each job stands
    end,        \* the day on which it started, the last day of its window
    day,        \* the day it has come to
    listed,     \* the days whose index was there when it started
    todo        \* the entries of that day's index it has not come to yet

database == <<status, viewed>>
sec      == <<today, published>>
jobs     == <<pc, end, day, listed, todo>>
vars     == <<status, viewed, today, published, pc, end, day, listed, todo>>

Days == FirstDay .. LastDay

Parsed == {f \in Filings : status[f] = "parsed"}
Recorded(f) == status[f] # "absent"

Entries(d) == {f \in published : Day[f] = d}

Later(d, e) == IF d > e THEN d ELSE e

\* The locals of a run that has ended are gone; they take their initial values.
Finish(j) ==
    /\ pc' = [pc EXCEPT ![j] = "idle"]
    /\ end' = [end EXCEPT ![j] = FirstDay]
    /\ day' = [day EXCEPT ![j] = FirstDay]
    /\ listed' = [listed EXCEPT ![j] = {}]
    /\ todo' = [todo EXCEPT ![j] = {}]

----------------------------------------------------------------------------

\* The backfill has recorded what SEC listed on the day on which it read the
\* last index, at least one filing of it parsed; the refresh after it may have
\* been cut off by a crash.
Init ==
    /\ today \in Days
    /\ published \in SUBSET {f \in Filings : Day[f] <= today}
    /\ status \in [Filings -> {"absent", "failed", "parsed"}]
    /\ \A f \in Filings : Recorded(f) => f \in published
    /\ \E read \in FirstDay .. today : \A f \in published :
          IF Recorded(f) THEN Day[f] <= read ELSE read <= Day[f] + WindowDays
    /\ Parsed # {}
    /\ viewed \in {{}, Parsed}
    /\ pc = [j \in Jobs |-> "idle"]
    /\ end = [j \in Jobs |-> FirstDay]
    /\ day = [j \in Jobs |-> FirstDay]
    /\ listed = [j \in Jobs |-> {}]
    /\ todo = [j \in Jobs |-> {}]

(* Start and FetchIndex as plausible bugs would have them                  *)

\* The window goes back from today.
Start_FromToday(j) ==
    /\ pc[j] = "idle"
    /\ Parsed # {}
    /\ day' = [day EXCEPT ![j] = Later(today - WindowDays, FirstDay)]
    /\ end' = [end EXCEPT ![j] = today]
    /\ listed' = [listed EXCEPT ![j] = {Day[f] : f \in published}]
    /\ pc' = [pc EXCEPT ![j] = "day"]
    /\ UNCHANGED <<status, viewed, today, published, todo>>

\* The window may begin before the first year.
Start_NoFirstDay(j) ==
    /\ pc[j] = "idle"
    /\ \E latest \in Parsed :
          /\ \A f \in Parsed : Day[f] <= Day[latest]
          /\ day' = [day EXCEPT ![j] = Day[latest] - WindowDays]
    /\ end' = [end EXCEPT ![j] = today]
    /\ listed' = [listed EXCEPT ![j] = {Day[f] : f \in published}]
    /\ pc' = [pc EXCEPT ![j] = "day"]
    /\ UNCHANGED <<status, viewed, today, published, todo>>

\* The last day of the window is left out.
FetchIndex_ExcludesEnd(j) ==
    /\ pc[j] = "day"
    /\ day[j] <= end[j]
    /\ \/ todo' = [todo EXCEPT ![j] = IF day[j] < end[j] THEN Entries(day[j]) ELSE {}]
       \/ day[j] \notin listed[j] /\ UNCHANGED todo
    /\ pc' = [pc EXCEPT ![j] = "entries"]
    /\ UNCHANGED <<status, viewed, today, published, end, day, listed>>

----------------------------------------------------------------------------

\* A job starts: its window is computed from the latest parsed filing, and
\* there is no run while there is none.
Start(j) ==
    /\ pc[j] = "idle"
    /\ \E latest \in Parsed :
          /\ \A f \in Parsed : Day[f] <= Day[latest]
          /\ day' = [day EXCEPT ![j] = Later(Day[latest] - WindowDays, FirstDay)]
    /\ end' = [end EXCEPT ![j] = today]
    /\ listed' = [listed EXCEPT ![j] = {Day[f] : f \in published}]
    /\ pc' = [pc EXCEPT ![j] = "day"]
    /\ UNCHANGED <<status, viewed, today, published, todo>>

\* The index of the next day is downloaded.  One that is not there yet, a 404
\* or a name missing from the listing of its quarter, is no error; the listing
\* is downloaded in the course of the run, so it may lack what is there now.
FetchIndex(j) ==
    /\ pc[j] = "day"
    /\ day[j] <= end[j]
    /\ \/ todo' = [todo EXCEPT ![j] = Entries(day[j])]
       \/ day[j] \notin listed[j] /\ UNCHANGED todo
    /\ pc' = [pc EXCEPT ![j] = "entries"]
    /\ UNCHANGED <<status, viewed, today, published, end, day, listed>>

\* An entry is ingested and committed: a parsed filing is skipped, any other
\* one becomes parsed or failed.
IngestEntry(j) ==
    /\ pc[j] = "entries"
    /\ \E f \in todo[j], outcome \in {"parsed", "failed"} :
          /\ status' = [status EXCEPT ![f] = IF @ = "parsed" THEN @ ELSE outcome]
          /\ todo' = [todo EXCEPT ![j] = @ \ {f}]
    /\ UNCHANGED <<viewed, today, published, pc, end, day, listed>>

NextDay(j) ==
    /\ pc[j] = "entries"
    /\ todo[j] = {}
    /\ day' = [day EXCEPT ![j] = @ + 1]
    /\ pc' = [pc EXCEPT ![j] = "day"]
    /\ UNCHANGED <<status, viewed, today, published, end, listed, todo>>

\* The window is done; the views are refreshed, and only now.
Refresh(j) ==
    /\ pc[j] = "day"
    /\ day[j] > end[j]
    /\ viewed' = Parsed
    /\ Finish(j)
    /\ UNCHANGED <<status, today, published>>

\* A request that failed for good, an entry that raised or a refresh that
\* failed ends the run, with the views as they were (_run_job).
Abort(j) ==
    /\ pc[j] # "idle"
    /\ Finish(j)
    /\ UNCHANGED <<database, sec>>

----------------------------------------------------------------------------
(* The environment                                                         *)

Crash ==
    /\ \E j \in Jobs : pc[j] # "idle"
    /\ pc' = [j \in Jobs |-> "idle"]
    /\ end' = [j \in Jobs |-> FirstDay]
    /\ day' = [j \in Jobs |-> FirstDay]
    /\ listed' = [j \in Jobs |-> {}]
    /\ todo' = [j \in Jobs |-> {}]
    /\ UNCHANGED <<database, sec>>

Midnight ==
    /\ today < LastDay
    /\ today' = today + 1
    /\ UNCHANGED <<database, published, jobs>>

\* SEC lists a filing, at the latest WindowDays after its filing date.
PublishFiling ==
    /\ \E f \in Filings \ published :
          /\ Day[f] <= today
          /\ today <= Day[f] + WindowDays
          /\ published' = published \cup {f}
    /\ UNCHANGED <<database, today, jobs>>

----------------------------------------------------------------------------

Step(j) == FetchIndex(j) \/ IngestEntry(j) \/ NextDay(j) \/ Refresh(j)

Next ==
    \/ \E j \in Jobs : Start(j) \/ Step(j) \/ Abort(j)
    \/ Crash
    \/ Midnight
    \/ PublishFiling

Spec == Init /\ [][Next]_vars

\* The scheduler keeps starting jobs, and the event loop runs them.
FairSpec == Spec /\ \A j \in Jobs : WF_vars(Start(j)) /\ WF_vars(Step(j))

----------------------------------------------------------------------------
(* Properties                                                              *)

\* The types of the tables and of the locals of the runs.
TypeOK ==
    /\ status \in [Filings -> {"absent", "failed", "parsed"}]
    /\ viewed \subseteq Filings
    /\ today \in Days
    /\ published \subseteq Filings
    /\ pc \in [Jobs -> {"idle", "day", "entries"}]
    /\ end \in [Jobs -> Days]
    /\ day \in [Jobs -> FirstDay .. LastDay + 1]
    /\ listed \in [Jobs -> SUBSET Days]
    /\ todo \in [Jobs -> SUBSET Filings]

\* No published filing falls out of the window unrecorded: whatever runs
\* overlap, are cut short or do not take place for days, a filing that the
\* next run would not reach any more has a row (start in IncrementalUpdater.run).
NoGap ==
    \A f \in published, g \in Parsed : Day[f] < Day[g] - WindowDays => Recorded(f)

\* A job ends before the end of its window, or leaves the views behind.
CutShort ==
    \E j \in Jobs :
        /\ pc[j] # "idle"
        /\ pc'[j] = "idle"
        /\ day[j] <= end[j] \/ viewed' # Parsed

\* If runs stop being cut short, every filing that SEC publishes is in the end
\* recorded as failed or shown by the views (IncrementalUpdater.run, whose
\* window is all that a next run knows of the ones before).
EventuallyServed ==
    <>[][~CutShort]_vars =>
        \A f \in Filings : f \in published ~> status[f] = "failed" \/ f \in viewed
=============================================================================
