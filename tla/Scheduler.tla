----------------------------- MODULE Scheduler -----------------------------
(***************************************************************************)
(* The scheduler of the worker (scheduler/scheduler.py, run_scheduler): a  *)
(* loop that sleeps and asks the schedule library whether the tick is due; *)
(* a tick, which is a task of its own, looks at the clock and runs the job *)
(* of the slot it is in, if no tick has done so.                           *)
(*                                                                         *)
(* A slot is one minute long, and a tick that comes after it finds nothing. *)
(* All coroutines share one event loop, which the downloads of a job block *)
(* (SecClient.get: up to a minute for each of five attempts, and the waits *)
(* between them), so a coroutine that could go on may have to wait for any *)
(* time.  The history in late says around which slots it waited too long.  *)
(***************************************************************************)
EXTENDS Integers, FiniteSets

CONSTANTS
    Minute,     \* the length of a slot
    Interval,   \* the time between two ticks, schedule.every(30).seconds
    Sleep,      \* the sleep of the loop, asyncio.sleep(1)
    Hourly,     \* when the slots of the hourly job begin; none if it is disabled
    Nightly,    \* when those of the nightly job begin
    LastTime,   \* the model ends here
    None        \* no slot

Slots == Hourly \cup Nightly

ASSUME TimesAssumption ==
    /\ Minute \in Nat /\ Interval \in Nat /\ Sleep \in Nat /\ LastTime \in Nat
    /\ Interval + Sleep < Minute

\* Minute 0 of the hours from 8 to 22, and 23:30.  The scheduler starts before
\* the first slot that counts.
ASSUME SlotsAssumption ==
    /\ Slots \subseteq Nat \ {0}
    /\ Hourly \cap Nightly = {}
    /\ \A s, t \in Slots : s < t => s + Minute <= t
    /\ None \notin Slots

VARIABLES
    clock,
    due,            \* next_run of the schedule library's job
    wake,           \* when the sleep of the loop ends
    created,        \* a task for a tick has been created and has not begun
    lastHourly,     \* state["last_hourly"]
    lastNightly,    \* state["last_nightly"]
    running,        \* the slots whose jobs are going on
    starts,         \* how often the job of each slot was started
    late            \* the slots in which a coroutine waited longer than Tolerable

vars == <<clock, due, wake, created, lastHourly, lastNightly, running, starts, late>>

\* now, to the minute, is the slot.
InSlot(s) == s <= clock /\ clock < s + Minute

ShouldRunHourly(s) == s \in Hourly /\ InSlot(s) /\ lastHourly # s
ShouldRunNightly(s) == s \in Nightly /\ InSlot(s) /\ lastNightly # s

StartJob(s) ==
    /\ running' = running \cup {s}
    /\ starts' = [starts EXCEPT ![s] = @ + 1]

\* When the coroutine that is next could go on: the tick since it was created,
\* which is when the loop went to sleep, and the loop since its sleep ended.
Ready == IF created THEN wake - Sleep ELSE wake

\* A wait that costs no slot: the loop and then the tick may both be
\* kept waiting, besides the interval and the sleep.  14 of the 60 seconds.
Tolerable == (Minute - Interval - Sleep - 1) \div 2

----------------------------------------------------------------------------
(* Plausible mistakes.  Each definition replaces the action it is named    *)
(* after when the properties are tested; the specification uses none.      *)

\* A tick every 60 seconds.
RunPending_EveryMinute ==
    /\ ~created
    /\ clock >= wake
    /\ IF clock >= due
       THEN created' = TRUE /\ due' = clock + 2 * Interval
       ELSE UNCHANGED <<created, due>>
    /\ wake' = clock + Sleep
    /\ UNCHANGED <<clock, lastHourly, lastNightly, running, starts, late>>

\* Only a job that is still going on keeps another tick from starting it again.
TickHourly_WhileRunning(s) ==
    /\ created
    /\ s \in Hourly /\ InSlot(s) /\ s \notin running
    /\ created' = FALSE
    /\ lastHourly' = s
    /\ StartJob(s)
    /\ UNCHANGED <<clock, due, wake, lastNightly, late>>

----------------------------------------------------------------------------

Init ==
    /\ clock = 0
    /\ due = Interval
    /\ wake = 0
    /\ created = FALSE
    /\ lastHourly = None
    /\ lastNightly = None
    /\ running = {}
    /\ starts = [s \in Slots |-> 0]
    /\ late = {}

\* The loop has slept, creates the task of the tick if that is due, and sleeps
\* again.  A task that was created before has begun by then.
RunPending ==
    /\ ~created
    /\ clock >= wake
    /\ IF clock >= due
       THEN created' = TRUE /\ due' = clock + Interval
       ELSE UNCHANGED <<created, due>>
    /\ wake' = clock + Sleep
    /\ UNCHANGED <<clock, lastHourly, lastNightly, running, starts, late>>

\* The task of the tick begins in the slot of an hourly job: it marks the slot
\* and runs the job, up to its first await and beyond.
TickHourly(s) ==
    /\ created
    /\ ShouldRunHourly(s)
    /\ created' = FALSE
    /\ lastHourly' = s
    /\ StartJob(s)
    /\ UNCHANGED <<clock, due, wake, lastNightly, late>>

TickNightly(s) ==
    /\ created
    /\ ShouldRunNightly(s)
    /\ created' = FALSE
    /\ lastNightly' = s
    /\ StartJob(s)
    /\ UNCHANGED <<clock, due, wake, lastHourly, late>>

TickIdle ==
    /\ created
    /\ \A s \in Slots : ~ShouldRunHourly(s) /\ ~ShouldRunNightly(s)
    /\ created' = FALSE
    /\ UNCHANGED <<clock, due, wake, lastHourly, lastNightly, running, starts, late>>

\* The job of a tick ends, by an exception or not.  The tick of an hourly job
\* then asks for the nightly one with the time it began with, which is in no
\* slot of it.
JobEnds(s) ==
    /\ s \in running
    /\ running' = running \ {s}
    /\ UNCHANGED <<clock, due, wake, created, lastHourly, lastNightly, starts, late>>

\* Time passes, asleep or in a download, whoever is waiting.
Elapse ==
    /\ clock < LastTime
    /\ clock' = clock + 1
    /\ late' = late \cup {s \in Slots : /\ s <= clock' /\ clock' <= s + Minute
                                       /\ clock' > Ready + Tolerable}
    /\ UNCHANGED <<due, wake, created, lastHourly, lastNightly, running, starts>>

----------------------------------------------------------------------------

Next ==
    \/ RunPending
    \/ \E s \in Slots : TickHourly(s) \/ TickNightly(s) \/ JobEnds(s)
    \/ TickIdle
    \/ Elapse

Spec == Init /\ [][Next]_vars

----------------------------------------------------------------------------
(* Properties                                                              *)

\* The types of the scheduler's state.
TypeOK ==
    /\ clock \in 0 .. LastTime
    /\ due \in Nat
    /\ wake \in Nat
    /\ created \in BOOLEAN
    /\ lastHourly \in Hourly \cup {None}
    /\ lastNightly \in Nightly \cup {None}
    /\ running \subseteq Slots
    /\ starts \in [Slots -> Nat]
    /\ late \subseteq Slots

\* Two or more ticks fall into the minute of a slot, and the job of the first
\* may have ended before the second: a slot's job is started once at most,
\* however long the event loop is blocked between the ticks (last_hourly and
\* last_nightly in run_scheduler).
OncePerSlot == \A s \in Slots : starts[s] <= 1

\* A slot is missed only if, while it lasts, the event loop keeps the scheduler
\* or its tick waiting for longer than Tolerable.  Whatever blocked the loop
\* before, and although shorter waits, the sleep and the interval add up, every
\* other slot is seen by a tick and its job started (run_scheduler).
NoSlotMissed == \A s \in Slots \ late : s + Minute <= clock => starts[s] >= 1
=============================================================================
