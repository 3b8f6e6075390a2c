------------------------------ MODULE IndexWalk ------------------------------
(***************************************************************************)
(* How an incremental run finds the daily indexes of its window            *)
(* (sec/indexes.py, iter_quarters and iter_daily_index_urls, with the loop *)
(* of ingestion/updater.py that downloads them): for each quarter the      *)
(* window meets it downloads SEC's listing, and visits the days that are   *)
(* in it; where the listing cannot be had it visits every weekday.  All    *)
(* downloads go through SecClient, which other callers use meanwhile.      *)
(*                                                                         *)
(* A date is the number of days since January 1 of year 0, in a calendar   *)
(* whose twelve months all have MonthDays days.                            *)
(***************************************************************************)
EXTENDS SecClient, FiniteSetsExt, Sequences, SequencesExt

CONSTANTS
    Walker,         \* the caller that runs the incremental update
    MonthDays,
    Windows         \* the first and last day of the runs

ASSUME WalkAssumption ==
    /\ Walker \in Callers
    /\ MonthDays \in Nat \ {0}
    /\ \A w \in Windows : w[1] \in Nat /\ w[2] \in Nat /\ w[1] <= w[2]

VARIABLES
    phase,          \* where the run stands
    start, end,     \* its window
    posted,         \* the days whose index SEC has posted
    year, quarter,  \* the quarter the generator has come to
    names,          \* the days of the quarter it has not yielded yet
    visited,        \* the days it has yielded
    fetched         \* the days whose index the run has read

walk == <<phase, start, end, posted, year, quarter, names, visited, fetched>>
vars == <<pc, lock, since, nap, attempt, retries, result,
          phase, start, end, posted, year, quarter, names, visited, fetched>>

FirstOf(y, month) == (y * 12 + month - 1) * MonthDays
YearOf(d) == d \div (12 * MonthDays)
MonthOf(d) == ((d \div MonthDays) % 12) + 1
IsWeekday(d) == d % 7 < 5

QuarterForDate(d) == ((MonthOf(d) - 1) \div 3) + 1

QuarterStart == FirstOf(year, (quarter - 1) * 3 + 1)

----------------------------------------------------------------------------
(* Plausible mistakes, as in SecClient                                     *)

\* A quarter ends with the first day of its last month.
QuarterEnd_LastMonth ==
    IF quarter = 4 THEN FirstOf(year, 12) + MonthDays - 1
    ELSE FirstOf(year, (quarter - 1) * 3 + 3)

\* The listing is visited as it comes.
VisitDay_Unsorted ==
    /\ phase = "days"
    /\ Call(Walker)
    /\ phase' = "fetching"
    /\ \E d \in names :
          /\ names' = names \ {d}
          /\ visited' = Append(visited, d)
    /\ UNCHANGED <<start, end, posted, year, quarter, fetched>>

\* A listing that failed counts as an empty one.
Listed_ErrorIsEmpty ==
    /\ phase = "listing"
    /\ pc[Walker] = "idle"
    /\ names' = IF result[Walker] = "ok" THEN {d \in posted : start <= d /\ d <= end} ELSE {}
    /\ phase' = "days"
    /\ UNCHANGED <<client, start, end, posted, year, quarter, visited, fetched>>

----------------------------------------------------------------------------

QuarterEnd ==
    IF quarter = 4 THEN FirstOf(year, 12) + MonthDays - 1
    ELSE FirstOf(year, (quarter - 1) * 3 + 4) - 1

\* The part of the window in the current quarter.
QuarterWindow == Max({start, QuarterStart}) .. Min({end, QuarterEnd})

\* Days SEC posts an index for: weekdays, in the window and just outside of it.
Postable(w) == {d \in Excess(w[1], 1) .. w[2] + 1 : IsWeekday(d)}

Init ==
    /\ ClientInit
    /\ phase = "idle"
    /\ start = 0
    /\ end = 0
    /\ posted = {}
    /\ year = 0
    /\ quarter = 1
    /\ names = {}
    /\ visited = <<>>
    /\ fetched = {}

\* A run computes its window and enters the generator.
StartWalk ==
    /\ phase = "idle"
    /\ \E w \in Windows :
          /\ start' = w[1]
          /\ end' = w[2]
          /\ posted' \in SUBSET Postable(w)
          /\ year' = YearOf(w[1])
    /\ quarter' = 1
    /\ phase' = "quarters"
    /\ UNCHANGED <<client, names, visited, fetched>>

\* iter_quarters yields the quarter after this one.
Advance ==
    /\ phase' = "quarters"
    /\ year' = IF quarter = 4 THEN year + 1 ELSE year
    /\ quarter' = IF quarter = 4 THEN 1 ELSE quarter + 1

\* iter_quarters is not past the quarter of the last day.
InRange == year < YearOf(end) \/ (year = YearOf(end) /\ quarter <= QuarterForDate(end))

SkipQuarter ==
    /\ phase = "quarters"
    /\ InRange
    /\ QuarterWindow = {}
    /\ Advance
    /\ UNCHANGED <<client, start, end, posted, names, visited, fetched>>

ListQuarter ==
    /\ phase = "quarters"
    /\ InRange
    /\ QuarterWindow # {}
    /\ Call(Walker)
    /\ phase' = "listing"
    /\ UNCHANGED <<start, end, posted, year, quarter, names, visited, fetched>>

\* The listing of the quarter has come, or it has not, or it is not what it
\* should be; no day is visited a second time.
Listed ==
    /\ phase = "listing"
    /\ pc[Walker] = "idle"
    /\ \/ /\ result[Walker] = "ok"
          /\ names' = (posted \cap QuarterWindow) \ ToSet(visited)
       \/ names' = {d \in QuarterWindow : IsWeekday(d)} \ ToSet(visited)
    /\ phase' = "days"
    /\ UNCHANGED <<client, start, end, posted, year, quarter, visited, fetched>>

\* The next day in order is yielded, and its index asked for.
VisitDay ==
    /\ phase = "days"
    /\ names # {}
    /\ Call(Walker)
    /\ phase' = "fetching"
    /\ names' = names \ {Min(names)}
    /\ visited' = Append(visited, Min(names))
    /\ UNCHANGED <<start, end, posted, year, quarter, fetched>>

\* A 404 is passed over, any other error ends the run.
Fetched ==
    /\ phase = "fetching"
    /\ pc[Walker] = "idle"
    /\ fetched' = IF result[Walker] = "ok" THEN fetched \cup {Last(visited)} ELSE fetched
    /\ phase' = IF result[Walker] = "raised" THEN "aborted" ELSE "days"
    /\ UNCHANGED <<client, start, end, posted, year, quarter, names, visited>>

NextQuarter ==
    /\ phase = "days"
    /\ names = {}
    /\ Advance
    /\ UNCHANGED <<client, start, end, posted, names, visited, fetched>>

Finish ==
    /\ phase = "quarters"
    /\ ~InRange
    /\ phase' = "done"
    /\ UNCHANGED <<client, start, end, posted, year, quarter, names, visited, fetched>>

WalkStep ==
    \/ SkipQuarter
    \/ ListQuarter
    \/ Listed
    \/ VisitDay
    \/ Fetched
    \/ NextQuarter
    \/ Finish

\* SEC answers the request for an index by whether it has posted it.
Honest ==
    phase = "fetching" /\ pc'[Walker] = "idle" =>
        /\ result'[Walker] = "ok" => Last(visited) \in posted
        /\ result'[Walker] = "missing" => Last(visited) \notin posted

ClientStep(c) == CallStep(c) /\ Honest /\ UNCHANGED walk

OtherCall(c) == Call(c) /\ UNCHANGED walk

Next ==
    \/ StartWalk
    \/ WalkStep
    \/ \E c \in Callers : ClientStep(c)
    \/ \E c \in Callers \ {Walker} : OtherCall(c)
    \/ Tick /\ UNCHANGED walk

Spec == Init /\ [][Next]_vars

\* Time passes, the requests of the run are answered in the end (the client has
\* a timeout), and the run goes on.
FairSpec ==
    /\ Spec
    /\ WF_vars(WalkStep)
    /\ WF_vars(Tick /\ UNCHANGED walk)
    /\ \A c \in Callers : WF_vars(ClientStep(c))

----------------------------------------------------------------------------
(* Properties                                                              *)

\* The days are visited in their order and none twice, across quarters and
\* years, and where one quarter was listed and another was not: a run that
\* ingests days out of order could move the window of the next one past a day
\* it has not come to (iter_daily_index_urls).
VisitedInOrder ==
    \A i, j \in DOMAIN visited : i < j => visited[i] < visited[j]

\* A run that was not cut short has read every index SEC has posted for its
\* window, whichever listings failed (iter_daily_index_urls and its fallback).
NothingMissed == phase = "done" => fetched = posted \cap start .. end

\* Once the other callers are silent the run ends, whatever SEC answers: the
\* retries of a request come to an end (stop_after_attempt).
WalkEnds ==
    (\A c \in Callers \ {Walker} : <>[](pc[c] = "idle")) =>
        (phase = "quarters" ~> phase \in {"done", "aborted"})
=============================================================================
