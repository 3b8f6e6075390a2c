---------------------------- MODULE WorkerProofs ----------------------------
(***************************************************************************)
(* Theorems about Worker, for any filings, calendar, broken documents and  *)
(* window that satisfy its assumptions, and for any crashes and outages:   *)
(* the backfill hands over to the updater, no later run leaves a gap, and  *)
(* the scheduler does not run over views that cannot be read.              *)
(***************************************************************************)
EXTENDS Worker, WellFoundedInduction, TLAPS

Statuses == {"absent", "failed", "parsed"}
Places == {"down", "backfill", "entries", "refresh", "startcatchup", "catchup", "scheduler", "job"}

TypeInv ==
    /\ status \in [Filings -> Statuses]
    /\ cursor \in Nat
    /\ complete \in BOOLEAN
    /\ shown \in SUBSET Filings
    /\ populated \in BOOLEAN
    /\ today \in 1 .. LastDay
    /\ published \in SUBSET Filings
    /\ firstRead \in 0 .. today
    /\ pc \in Places
    /\ scheduled \in BOOLEAN
    /\ index \in SUBSET Filings
    /\ day \in Nat
    /\ end \in 0 .. today

\* What is recorded has been listed, and nothing is listed before its date.
ListedInv ==
    /\ \A f \in Filings : Recorded(f) => f \in published
    /\ \A f \in published : Day[f] <= today

\* Where the process can stand before the backfill is complete, and after.
PlaceInv ==
    /\ pc \in {"backfill", "entries"} => ~complete
    /\ pc \in {"refresh", "startcatchup", "catchup", "scheduler", "job"} => complete

\* SEC has listed the filing since the first download of the quarter's index.
ListedLate(f) == firstRead # 0 /\ firstRead <= Day[f] + Lag

\* What the backfill leaves behind its cursor, and what the index it goes through
\* does not have, was listed late; and it does not take longer than an outage.
BackfillInv ==
    ~complete =>
        /\ \A f \in published : f <= cursor => Recorded(f) \/ ListedLate(f)
        /\ cursor # 0 => firstRead # 0
        /\ firstRead # 0 => today <= firstRead + Outage
        /\ pc = "entries" =>
              /\ firstRead # 0
              /\ index \subseteq published
              /\ \A f \in published \ index : ListedLate(f)

\* What a run has passed is recorded, unless SEC has listed it since the run began.
RunInv ==
    pc \in {"catchup", "job"} =>
        /\ day <= end + 1
        /\ \A f \in published : Recorded(f) \/ day <= Day[f] \/ end <= Day[f] + Lag

\* A job has parsed filings to start from, so an earlier refresh has seen some run end.
ViewsInv ==
    /\ PopulatedOnceScheduling
    /\ pc = "job" => populated

Inv == TypeInv /\ ListedInv /\ PlaceInv /\ BackfillInv /\ RunInv /\ NoGap /\ ViewsInv

LEMMA Bounds ==
    /\ LastDay \in Nat \ {0} /\ Lag \in Nat /\ Outage \in Nat /\ WindowDays \in Nat
    /\ Lag <= WindowDays
    /\ \A f \in Filings : Day[f] \in 1 .. LastDay /\ f \in Nat \ {0}
<1>1. /\ LastDay \in Nat \ {0} /\ Lag \in Nat /\ Outage \in Nat /\ WindowDays \in Nat
      /\ Day \in [Filings -> 1 .. LastDay]
    BY WorkerAssumption
<1>2. Lag <= WindowDays
    BY <1>1, WindowIsLongEnough
<1>3. QED
    BY <1>1, <1>2 DEF Filings

LEMMA InitInv == Init => Inv
<1> SUFFICES ASSUME Init PROVE Inv
    OBVIOUS
<1>1. complete \in BOOLEAN /\ populated \in BOOLEAN /\ scheduled \in BOOLEAN /\ complete = FALSE
    BY Zenon DEF Init
<1>2. TypeInv
    BY <1>1, Bounds DEF Init, TypeInv, Statuses, Places
<1>3. ListedInv /\ PlaceInv /\ BackfillInv /\ RunInv /\ NoGap /\ ViewsInv
    BY <1>1, Bounds DEF Init, ListedInv, PlaceInv, BackfillInv, RunInv, NoGap, ViewsInv,
       PopulatedOnceScheduling, Recorded
<1>4. QED
    BY <1>2, <1>3 DEF Inv

----------------------------------------------------------------------------
(* The operators                                                           *)

\* A set of dates that is not empty has a last one.
LEMMA LastOfDates ==
    ASSUME NEW S \in SUBSET (1 .. LastDay), S # {}
    PROVE  Max(S) \in S /\ \A d \in S : d <= Max(S)
<1> DEFINE R == {ss \in Nat \X Nat : ss[1] < ss[2]}
           Left == {LastDay - d : d \in S}
<1>1. IsWellFoundedOn(R, Nat)
    BY NatLessThanWellFounded DEF OpToRel
<1>2. Left \subseteq Nat /\ Left # {}
    <2>1. \A d \in S : LastDay - d \in Nat
        BY Bounds
    <2>2. QED
        BY <2>1
<1>3. PICK x \in Left : \A y \in Left : <<y, x>> \notin R
    <2> HIDE DEF R, Left
    <2>1. QED
        BY <1>1, <1>2, WFMin, Zenon
<1>4. \A y \in Left : x <= y
    <2>1. ASSUME NEW y \in Left PROVE x <= y
        <3>1. <<y, x>> \in Nat \X Nat /\ <<y, x>> \notin R
            BY <1>2, <1>3
        <3>2. QED
            BY <3>1
    <2>2. QED
        BY <2>1
<1>5. PICK last \in S : x = LastDay - last
    BY <1>3
<1>6. \A d \in S : d <= last
    BY <1>4, <1>5, Bounds
<1>7. QED
    BY <1>6 DEF Max

\* The window of a run begins at the first day, or its length before the latest
\* parsed filing.
LEMMA WindowStart ==
    ASSUME NEW S \in SUBSET (1 .. LastDay), S # {}, NEW n,
           n = Max({1, Max(S) - WindowDays})
    PROVE  n \in 1 .. LastDay /\ (n = 1 \/ \E d \in S : n = d - WindowDays)
<1>1. Max(S) \in S
    BY LastOfDates
<1>2. PICK latest \in S : latest = Max(S)
    BY <1>1
<1>3. n = IF 1 >= latest - WindowDays THEN 1 ELSE latest - WindowDays
    BY <1>2, Bounds DEF Max
<1>4. QED
    BY <1>2, <1>3, Bounds

\* What an ingestion does to the rows.
LEMMA Ingested ==
    ASSUME TypeInv, NEW fs \in SUBSET Filings, Ingest(fs)
    PROVE  /\ status' \in [Filings -> Statuses]
           /\ \A f \in Filings : Recorded(f) => Recorded(f)'
           /\ \A f \in fs : Recorded(f)'
           /\ \A f \in Filings \ fs : status'[f] = status[f]
BY DEF TypeInv, Ingest, Recorded, Statuses

\* The rows are recorded filings that were listed, and no parsed one is out of
\* reach of the calendar.
LEMMA ParsedIsListed ==
    ASSUME TypeInv, ListedInv
    PROVE  \A g \in Parsed : g \in published /\ Day[g] \in 1 .. today
BY Bounds DEF TypeInv, ListedInv, Parsed, Recorded

----------------------------------------------------------------------------
(* The steps                                                               *)

LEMMA BootKeepsInv == Inv /\ Boot => Inv'
BY DEF Inv, Boot, database, sec, TypeInv, ListedInv, PlaceInv, BackfillInv, RunInv, NoGap, ViewsInv,
   PopulatedOnceScheduling, Recorded, Parsed, Places, ListedLate

LEMMA ReadIndexKeepsInv == Inv /\ ReadIndex => Inv'
<1> SUFFICES ASSUME Inv, ReadIndex PROVE Inv'
    OBVIOUS
<1>1. UNCHANGED <<status, cursor, complete, shown, populated, today, published, scheduled, day, end>>
    BY DEF ReadIndex, database
<1>2. /\ pc' = "entries" /\ index' = published /\ firstRead' # 0 /\ firstRead' \in 1 .. today
      /\ firstRead # 0 => firstRead' = firstRead
      /\ firstRead = 0 => firstRead' = today
      /\ ~complete
    BY DEF ReadIndex, Inv, TypeInv, PlaceInv
<1>3. TypeInv'
    BY <1>1, <1>2 DEF Inv, TypeInv, Places
<1>4. ListedInv' /\ PlaceInv' /\ RunInv' /\ NoGap' /\ ViewsInv'
    BY <1>1, <1>2 DEF Inv, ListedInv, PlaceInv, RunInv, NoGap, ViewsInv, PopulatedOnceScheduling, Recorded, Parsed
<1>5. BackfillInv'
    <2>1. \A f \in published : f <= cursor => Recorded(f) \/ ListedLate(f)'
        BY <1>1, <1>2 DEF Inv, BackfillInv, ListedLate
    <2>2. today <= firstRead' + Outage
        <3>1. today \in Nat /\ Outage \in Nat /\ firstRead \in Nat
            BY Bounds DEF Inv, TypeInv
        <3>2. firstRead # 0 => today <= firstRead + Outage
            BY <1>2 DEF Inv, BackfillInv
        <3>3. CASE firstRead = 0
            <4>1. firstRead' = today
                BY <1>2, <3>3
            <4>2. QED
                BY <3>1, <4>1
        <3>4. CASE firstRead # 0
            <4>1. firstRead' = firstRead
                BY <1>2, <3>4
            <4>2. QED
                BY <3>2, <3>4, <4>1
        <3>5. QED
            BY <3>3, <3>4
    <2>3. QED
        BY <1>1, <1>2, <2>1, <2>2 DEF BackfillInv, Recorded
<1>6. QED
    BY <1>3, <1>4, <1>5 DEF Inv

LEMMA MidnightKeepsInv == Inv /\ Midnight => Inv'
<1> SUFFICES ASSUME Inv, Midnight PROVE Inv'
    OBVIOUS
<1>1. /\ UNCHANGED <<status, cursor, complete, shown, populated, published, firstRead, pc, scheduled, index, day, end>>
      /\ today' = today + 1 /\ today < LastDay
      /\ firstRead # 0 /\ ~complete => today < firstRead + Outage
    BY DEF Midnight, database, process
<1>2. TypeInv'
    BY <1>1, Bounds DEF Inv, TypeInv
<1>3. ListedInv'
    BY <1>1, Bounds DEF Inv, TypeInv, ListedInv, Recorded
<1>4. BackfillInv'
    BY <1>1, Bounds DEF Inv, TypeInv, BackfillInv, Recorded, ListedLate
<1>5. PlaceInv' /\ RunInv' /\ NoGap' /\ ViewsInv'
    BY <1>1 DEF Inv, PlaceInv, RunInv, NoGap, ViewsInv, PopulatedOnceScheduling, Recorded, Parsed
<1>6. QED
    BY <1>2, <1>3, <1>4, <1>5 DEF Inv

\* A filing that SEC lists is not older than the delay of its listing, so it is in
\* reach of the window, of a run that goes on, and of the hand-over.
LEMMA PublishKeepsInv == Inv /\ PublishFiling => Inv'
<1> SUFFICES ASSUME Inv, PublishFiling PROVE Inv'
    OBVIOUS
<1>1. PICK f \in Filings \ published : Day[f] <= today /\ today <= Day[f] + Lag /\ published' = published \cup {f}
    BY DEF PublishFiling
<1>2. UNCHANGED <<status, cursor, complete, shown, populated, today, firstRead, pc, scheduled, index, day, end>>
    BY DEF PublishFiling, database, process
<1>3. TypeInv' /\ ListedInv' /\ PlaceInv' /\ ViewsInv'
    BY <1>1, <1>2 DEF Inv, TypeInv, ListedInv, PlaceInv, ViewsInv, PopulatedOnceScheduling, Recorded, Parsed
<1>4. firstRead # 0 => ListedLate(f)
    BY <1>1, Bounds DEF Inv, TypeInv, ListedLate
<1>5. BackfillInv'
    <2>1. ~complete /\ f <= cursor => firstRead # 0
        <3>1. f \in Nat /\ f # 0
            BY DEF Filings
        <3>2. QED
            BY <3>1 DEF Inv, TypeInv, BackfillInv
    <2>2. QED
        BY <1>1, <1>2, <1>4, <2>1 DEF Inv, BackfillInv, Recorded, ListedLate
<1>6. RunInv'
    <2>1. end <= Day[f] + Lag
        BY <1>1, Bounds DEF Inv, TypeInv
    <2>2. QED
        BY <1>1, <1>2, <2>1 DEF Inv, RunInv, Recorded
<1>7. NoGap'
    <2>1. \A g \in Parsed : ~(Day[f] < Day[g] - WindowDays)
        BY <1>1, ParsedIsListed, Bounds DEF Inv, TypeInv
    <2>2. QED
        BY <1>1, <1>2, <2>1 DEF Inv, NoGap, Parsed, Recorded
<1>8. QED
    BY <1>3, <1>5, <1>6, <1>7 DEF Inv

\* The end of a process or of the startup, and a start of the scheduler, touch no more
\* than the process, and go to a place where no run is under way.
LEMMA LeavesKeepInv ==
    ASSUME Inv, UNCHANGED <<status, cursor, complete, sec>>,
           shown' \in SUBSET Filings, populated' \in BOOLEAN, scheduled' \in BOOLEAN,
           index' \in SUBSET Filings, day' = 0, end' = 0,
           \/ pc' = "down"
           \/ pc' = "scheduler" /\ complete /\ (populated' \/ Parsed = {})
    PROVE  Inv'
<1>1. UNCHANGED <<today, published, firstRead>>
    BY DEF sec
<1>2. TypeInv'
    BY <1>1, Bounds DEF Inv, TypeInv, Places
<1>3. ListedInv' /\ PlaceInv' /\ BackfillInv' /\ RunInv' /\ NoGap'
    BY <1>1 DEF Inv, ListedInv, PlaceInv, BackfillInv, RunInv, NoGap, Recorded, Parsed, ListedLate
<1>4. ViewsInv'
    BY DEF ViewsInv, PopulatedOnceScheduling, Parsed
<1>5. QED
    BY <1>2, <1>3, <1>4 DEF Inv

LEMMA CrashKeepsInv == Inv /\ Crash => Inv'
<1> SUFFICES ASSUME Inv, Crash PROVE Inv'
    OBVIOUS
<1>1. UNCHANGED <<status, cursor, complete, shown, populated, sec>> /\ Die
    BY DEF Crash, database
<1>2. scheduled' \in BOOLEAN
    BY <1>1, Zenon DEF Die
<1>3. shown' \in SUBSET Filings /\ populated' \in BOOLEAN
    BY <1>1 DEF Inv, TypeInv
<1>4. index' \in SUBSET Filings /\ day' = 0 /\ end' = 0 /\ pc' = "down"
    BY <1>1 DEF Die
<1>5. QED
    BY <1>1, <1>2, <1>3, <1>4, LeavesKeepInv

\* Where the startup is over the views are populated, or have nothing to show.
LEMMA EnterKeepsInv ==
    ASSUME Inv, EnterScheduler, UNCHANGED <<status, cursor, complete, sec>>, complete,
           shown' \in SUBSET Filings, populated' \in BOOLEAN, populated' \/ Parsed = {}
    PROVE  Inv'
<1>1. /\ scheduled' \in BOOLEAN
      /\ index' \in SUBSET Filings /\ day' = 0 /\ end' = 0
      /\ pc' \in {"down", "scheduler"}
    <2>1. CASE scheduled
        <3>1. scheduled' \in BOOLEAN
            BY <2>1 DEF EnterScheduler, Inv, TypeInv
        <3>2. QED
            BY <2>1, <3>1 DEF EnterScheduler
    <2>2. CASE ~scheduled
        <3>1. scheduled' \in BOOLEAN
            BY <2>2, Zenon DEF EnterScheduler, Die
        <3>2. QED
            BY <2>2, <3>1 DEF EnterScheduler, Die
    <2>3. QED
        BY <2>1, <2>2
<1>2. QED
    BY <1>1, LeavesKeepInv

LEMMA RefreshKeepsInv == Inv /\ RefreshAfterBackfill => Inv'
<1> SUFFICES ASSUME Inv, RefreshAfterBackfill PROVE Inv'
    OBVIOUS
<1>1. UNCHANGED <<status, cursor, complete, sec>> /\ EnterScheduler /\ complete
    BY DEF RefreshAfterBackfill, Inv, PlaceInv
<1>2. populated' \in BOOLEAN /\ populated'
    BY Zenon DEF RefreshAfterBackfill
<1>3. shown' \in SUBSET Filings
    BY DEF RefreshAfterBackfill, Parsed
<1>4. QED
    BY <1>1, <1>2, <1>3, EnterKeepsInv

LEMMA FinishRunKeepsInv == Inv /\ FinishRun => Inv'
<1> SUFFICES ASSUME Inv, FinishRun PROVE Inv'
    OBVIOUS
<1>1. UNCHANGED <<status, cursor, complete, sec>> /\ LeaveRun /\ complete
    BY DEF FinishRun, Inv, PlaceInv
<1>2. populated' \in BOOLEAN /\ populated'
    BY Zenon DEF FinishRun
<1>3. shown' \in SUBSET Filings
    BY DEF FinishRun, Parsed
<1>4. CASE pc = "catchup"
    BY <1>1, <1>2, <1>3, <1>4, EnterKeepsInv DEF LeaveRun
<1>5. CASE pc = "job"
    <2>1. pc' = "scheduler" /\ day' = 0 /\ end' = 0 /\ UNCHANGED <<scheduled, index>>
        BY <1>1, <1>5 DEF LeaveRun
    <2>2. scheduled' \in BOOLEAN /\ index' \in SUBSET Filings
        BY <2>1 DEF Inv, TypeInv
    <2>3. QED
        BY <1>1, <1>2, <1>3, <2>1, <2>2, LeavesKeepInv
<1>6. QED
    BY <1>4, <1>5 DEF FinishRun

LEMMA StartRunKeepsInv == Inv /\ StartRun => Inv'
<1> SUFFICES ASSUME Inv, StartRun PROVE Inv'
    OBVIOUS
<1>1. UNCHANGED <<status, cursor, complete, shown, populated, sec, today, published, firstRead>> /\ complete
    BY DEF StartRun, database, sec, Inv, PlaceInv
<1>2. CASE Parsed = {} /\ EnterScheduler
    <2>1. shown' \in SUBSET Filings /\ populated' \in BOOLEAN
        BY <1>1 DEF Inv, TypeInv
    <2>2. QED
        BY <1>1, <1>2, <2>1, EnterKeepsInv
<1>3. CASE /\ Parsed # {} /\ UNCHANGED <<scheduled, index>>
           /\ Window("catchup") \/ (Window("job") /\ pc = "scheduler")
    <2> DEFINE days == {Day[f] : f \in Parsed}
    <2>1. /\ pc' \in {"catchup", "job"} /\ end' = today
          /\ day' = Max({1, Max(days) - WindowDays})
          /\ pc' = "job" => pc = "scheduler"
        BY <1>3 DEF Window
    <2>2. days \subseteq 1 .. LastDay /\ days # {}
        BY <1>3, Bounds DEF Parsed
    <2>3. /\ day' \in 1 .. LastDay
          /\ day' = 1 \/ \E d \in days : day' = d - WindowDays
        <3> HIDE DEF days
        <3>1. QED
            BY <2>1, <2>2, WindowStart
    <2>4. \A d \in days : d <= today
        BY ParsedIsListed DEF Inv
    <2>5. day' <= end' + 1
        <3>1. today \in Nat /\ end' = today
            BY <2>1, Bounds DEF Inv, TypeInv
        <3>2. CASE day' = 1
            BY <3>1, <3>2
        <3>3. CASE \E d \in days : day' = d - WindowDays
            <4>1. PICK d \in days : day' = d - WindowDays
                BY <3>3
            <4>2. d \in Int /\ d <= today
                BY <2>2, <2>4
            <4>3. QED
                BY <3>1, <4>1, <4>2, Bounds
        <3>4. QED
            BY <2>3, <3>2, <3>3
    <2>6. TypeInv'
        BY <1>1, <1>3, <2>1, <2>3 DEF Inv, TypeInv, Places
    <2>7. \A f \in published : Recorded(f) \/ day' <= Day[f]
        <3>1. SUFFICES ASSUME NEW f \in published, ~Recorded(f) PROVE day' <= Day[f]
            OBVIOUS
        <3>2. Day[f] \in 1 .. LastDay
            BY Bounds DEF Inv, TypeInv
        <3>3. CASE day' = 1
            BY <3>2, <3>3
        <3>4. CASE \E d \in days : day' = d - WindowDays
            <4>1. PICK g \in Parsed : day' = Day[g] - WindowDays
                BY <3>4
            <4>2. ~(Day[f] < Day[g] - WindowDays)
                BY <1>1, <3>1, <4>1 DEF Inv, NoGap
            <4>3. Day[g] \in 1 .. LastDay
                BY <4>1, Bounds DEF Parsed
            <4>4. QED
                BY <3>2, <4>1, <4>2, <4>3, Bounds
        <3>5. QED
            BY <2>3, <3>3, <3>4
    <2>8. ListedInv' /\ PlaceInv' /\ BackfillInv' /\ NoGap'
        BY <1>1, <2>1 DEF Inv, ListedInv, PlaceInv, BackfillInv, NoGap, Recorded, Parsed
    <2>9. RunInv'
        BY <1>1, <2>5, <2>7 DEF RunInv, Recorded
    <2>10. ViewsInv'
        BY <1>1, <1>3, <2>1 DEF Inv, ViewsInv, PopulatedOnceScheduling, Parsed
    <2>11. QED
        BY <2>6, <2>8, <2>9, <2>10 DEF Inv
<1>4. QED
    BY <1>2, <1>3 DEF StartRun

LEMMA BackfillEntryKeepsInv == Inv /\ BackfillEntry => Inv'
<1> SUFFICES ASSUME Inv, BackfillEntry PROVE Inv'
    OBVIOUS
<1>1. /\ pc = "entries"
      /\ UNCHANGED <<complete, shown, populated, sec, today, published, firstRead>>
    BY DEF BackfillEntry, sec
<1>2. ~complete
    BY <1>1 DEF Inv, PlaceInv
<1>3. PICK f \in index :
          /\ \A g \in index : g > cursor => f <= g
          /\ f > cursor
          /\ IF f \in Broken
             THEN Die /\ UNCHANGED <<status, cursor>>
             ELSE Ingest({f}) /\ cursor' = f /\ UNCHANGED process
    BY DEF BackfillEntry
<1>4. CASE f \in Broken
    <2>1. Die /\ UNCHANGED <<status, cursor>>
        BY <1>3, <1>4
    <2>2. scheduled' \in BOOLEAN
        BY <2>1, Zenon DEF Die
    <2>3. shown' \in SUBSET Filings /\ populated' \in BOOLEAN
        BY <1>1 DEF Inv, TypeInv
    <2>4. index' \in SUBSET Filings /\ day' = 0 /\ end' = 0 /\ pc' = "down"
        BY <2>1 DEF Die
    <2>5. QED
        BY <1>1, <2>1, <2>2, <2>3, <2>4, LeavesKeepInv
<1>5. CASE f \notin Broken
    <2>1. /\ Ingest({f}) /\ cursor' = f
          /\ UNCHANGED <<pc, scheduled, index, day, end>>
        BY <1>3, <1>5 DEF process
    <2>2. f \in Filings /\ f \in Nat /\ cursor \in Nat
        BY Bounds DEF Inv, TypeInv
    <2>3. /\ status' \in [Filings -> Statuses]
          /\ \A g \in Filings : Recorded(g) => Recorded(g)'
          /\ Recorded(f)'
          /\ \A g \in Filings \ {f} : status'[g] = status[g]
        BY <2>1, <2>2, Ingested DEF Inv
    <2>4. TypeInv'
        BY <1>1, <2>1, <2>2, <2>3 DEF Inv, TypeInv
    <2>5. firstRead # 0
        BY <1>1, <1>2 DEF Inv, BackfillInv
    <2>6. ListedInv'
        <3>1. f \in published
            BY <1>1, <1>2 DEF Inv, BackfillInv
        <3>2. QED
            BY <1>1, <2>3, <3>1 DEF Inv, ListedInv, TypeInv, Recorded
    <2>7. ASSUME NEW g \in published, g <= cursor'
          PROVE  Recorded(g)' \/ ListedLate(g)
        <3>1. g \in Filings /\ g \in Nat
            BY Bounds DEF Inv, TypeInv
        <3>2. CASE g <= cursor
            BY <1>2, <2>3, <3>1, <3>2 DEF Inv, BackfillInv
        <3>3. CASE g > cursor /\ g \in index
            BY <1>3, <2>1, <2>2, <2>3, <2>7, <3>1, <3>3
        <3>4. CASE g \notin index
            BY <1>1, <1>2, <3>4 DEF Inv, BackfillInv
        <3>5. QED
            BY <2>2, <3>1, <3>2, <3>3, <3>4
    <2>8. BackfillInv'
        <3>1. \A g \in published : g <= cursor' => Recorded(g)' \/ ListedLate(g)
            BY <2>7
        <3>2. firstRead # 0 => today <= firstRead + Outage
            BY <1>2 DEF Inv, BackfillInv
        <3>3. index \subseteq published /\ \A g \in published \ index : ListedLate(g)
            BY <1>1, <1>2 DEF Inv, BackfillInv
        <3>4. QED
            BY <1>1, <2>1, <2>5, <3>1, <3>2, <3>3 DEF BackfillInv, ListedLate
    <2>9. PlaceInv' /\ RunInv' /\ NoGap' /\ ViewsInv'
        BY <1>1, <1>2, <2>1 DEF Inv, PlaceInv, RunInv, NoGap, ViewsInv, PopulatedOnceScheduling
    <2>10. QED
        BY <2>4, <2>6, <2>8, <2>9 DEF Inv
<1>6. QED
    BY <1>4, <1>5

\* The hand-over: what the backfill has left out was listed late, so it is not older
\* than the window, for the backfill has not taken longer than an outage.
LEMMA HandOver ==
    ASSUME Inv, MarkComplete
    PROVE  /\ \A f \in published : Recorded(f) \/ today <= Day[f] + WindowDays
           /\ UpdaterCanStart'
<1>1. /\ pc = "entries" /\ ~complete
      /\ \A f \in index : f <= cursor
      /\ UNCHANGED <<status, today, published, firstRead>>
    BY DEF MarkComplete, Inv, PlaceInv, sec
<1>2. ASSUME NEW f \in published, ~Recorded(f)
      PROVE  today <= Day[f] + WindowDays
    <2>1. ListedLate(f) /\ today <= firstRead + Outage
        BY <1>1, <1>2 DEF Inv, BackfillInv
    <2>2. firstRead <= Day[f] + Lag
        BY <2>1 DEF ListedLate
    <2>3. f \in Filings /\ today \in Nat /\ firstRead \in Nat
        BY Bounds DEF Inv, TypeInv
    <2>4. Lag + Outage <= WindowDays
        BY WindowIsLongEnough
    <2>5. Day[f] \in Nat
        BY <2>3, Bounds
    <2>6. QED
        BY <2>1, <2>2, <2>3, <2>4, <2>5, Bounds
<1>3. today \in 1 .. today /\ \A f \in published : Day[f] <= today
    BY Bounds DEF Inv, TypeInv, ListedInv
<1>4. UpdaterCanStart'
    BY <1>1, <1>2, <1>3 DEF UpdaterCanStart, Recorded
<1>5. QED
    BY <1>2, <1>4

LEMMA MarkCompleteKeepsInv == Inv /\ MarkComplete => Inv'
<1> SUFFICES ASSUME Inv, MarkComplete PROVE Inv'
    OBVIOUS
<1>1. /\ pc' = "refresh"
      /\ UNCHANGED <<status, cursor, shown, populated, today, published, firstRead, scheduled, index, day, end>>
    BY DEF MarkComplete, sec
<1>2. complete' \in BOOLEAN /\ complete'
    BY Zenon DEF MarkComplete
<1>3. TypeInv'
    BY <1>1, <1>2 DEF Inv, TypeInv, Places
<1>4. ListedInv' /\ PlaceInv' /\ BackfillInv' /\ RunInv' /\ ViewsInv'
    BY <1>1, <1>2 DEF Inv, ListedInv, PlaceInv, BackfillInv, RunInv, ViewsInv, PopulatedOnceScheduling, Recorded
<1>5. NoGap'
    <2>1. ASSUME NEW f \in published, NEW g \in Parsed, Day[f] < Day[g] - WindowDays
          PROVE  Recorded(f)
        <3>1. Day[f] \in Int /\ Day[g] \in Int /\ Day[g] <= today /\ today \in Int
            BY ParsedIsListed, Bounds DEF Inv, TypeInv
        <3>2. ~(today <= Day[f] + WindowDays)
            BY <2>1, <3>1, Bounds
        <3>3. QED
            BY <3>2, HandOver
    <2>2. QED
        BY <1>1, <2>1 DEF NoGap, Parsed, Recorded
<1>6. QED
    BY <1>3, <1>4, <1>5 DEF Inv

LEMMA SyncDayKeepsInv == Inv /\ SyncDay => Inv'
<1> SUFFICES ASSUME Inv, SyncDay PROVE Inv'
    OBVIOUS
<1>1. /\ pc \in {"catchup", "job"} /\ day <= end
      /\ UNCHANGED <<cursor, complete, shown, populated, today, published, firstRead>>
      /\ complete
    BY DEF SyncDay, sec, Inv, PlaceInv
<1> DEFINE entries == {f \in published : Day[f] = day}
           reached == {f \in entries : \A b \in Broken \cap entries : f < b}
<1>2. /\ Ingest(reached)
      /\ IF reached = entries
         THEN day' = day + 1 /\ UNCHANGED <<pc, scheduled, index, end>>
         ELSE IF pc = "catchup" THEN Die ELSE LeaveRun
    BY DEF SyncDay
<1>3. reached \subseteq Filings /\ \A f \in reached : f \in published /\ Day[f] = day
    BY DEF Inv, TypeInv
<1>4. /\ status' \in [Filings -> Statuses]
      /\ \A f \in Filings : Recorded(f) => Recorded(f)'
      /\ \A f \in reached : Recorded(f)'
      /\ \A f \in Filings \ reached : status'[f] = status[f]
    <2> HIDE DEF reached
    <2>1. QED
        BY <1>2, <1>3, Ingested DEF Inv
<1>5. day \in Nat /\ end \in Nat /\ end <= today /\ today \in Nat
    BY Bounds DEF Inv, TypeInv
<1>6. ListedInv'
    BY <1>1, <1>3, <1>4 DEF Inv, ListedInv, Recorded
<1>7. \A f \in published : Recorded(f) \/ day <= Day[f] \/ end <= Day[f] + Lag
    BY <1>1 DEF Inv, RunInv
<1>8. NoGap'
    <2>1. SUFFICES ASSUME NEW f \in published, NEW g \in Filings, status'[g] = "parsed",
                          Day[f] < Day[g] - WindowDays, ~Recorded(f)'
                   PROVE  FALSE
        BY <1>1 DEF NoGap, Parsed
    <2>2. ~Recorded(f) /\ f \in Filings /\ Day[f] \in Int /\ Day[g] \in Int
        BY <1>4, <2>1, Bounds DEF Inv, TypeInv
    <2>3. CASE g \in reached
        <3>1. Day[g] = day /\ (day <= Day[f] \/ end <= Day[f] + Lag)
            BY <1>3, <1>7, <2>2, <2>3
        <3>2. QED
            BY <1>1, <1>5, <2>1, <2>2, <3>1, Bounds
    <2>4. CASE g \notin reached
        <3>1. g \in Parsed
            BY <1>4, <2>1, <2>4 DEF Parsed
        <3>2. QED
            BY <1>1, <2>1, <2>2, <3>1 DEF Inv, NoGap
    <2>5. QED
        BY <2>3, <2>4
<1>9. CASE reached = entries
    <2>1. day' = day + 1 /\ UNCHANGED <<pc, scheduled, index, end>>
        BY <1>2, <1>9
    <2>2. TypeInv'
        BY <1>1, <1>4, <1>5, <2>1 DEF Inv, TypeInv
    <2>3. ASSUME NEW f \in published, ~Recorded(f)'
          PROVE  day' <= Day[f] \/ end <= Day[f] + Lag
        <3>1. f \in Filings /\ Day[f] \in Int /\ ~Recorded(f)
            BY <1>4, <2>3, Bounds DEF Inv, TypeInv
        <3>2. f \notin entries
            BY <1>4, <1>9, <2>3
        <3>3. Day[f] # day
            BY <3>2
        <3>4. QED
            BY <1>5, <1>7, <2>1, <3>1, <3>3
    <2>4. RunInv'
        BY <1>1, <1>5, <2>1, <2>3 DEF RunInv
    <2>5. PlaceInv' /\ BackfillInv'
        BY <1>1, <2>1 DEF Inv, PlaceInv, BackfillInv
    <2>6. ViewsInv'
        BY <1>1, <2>1 DEF Inv, ViewsInv, PopulatedOnceScheduling
    <2>7. QED
        BY <1>6, <1>8, <2>2, <2>4, <2>5, <2>6 DEF Inv
<1>10. CASE reached # entries
    <2>1. /\ pc' = "down" \/ (pc = "job" /\ pc' = "scheduler")
          /\ scheduled' \in BOOLEAN
          /\ index' \in SUBSET Filings /\ day' = 0 /\ end' = 0
        <3>1. CASE pc = "catchup"
            <4>1. Die
                BY <1>2, <1>10, <3>1
            <4>2. scheduled' \in BOOLEAN
                BY <4>1, Zenon DEF Die
            <4>3. QED
                BY <4>1, <4>2 DEF Die
        <3>2. CASE pc = "job"
            BY <1>2, <1>10, <3>2 DEF LeaveRun, Inv, TypeInv
        <3>3. QED
            BY <1>1, <3>1, <3>2
    <2>2. TypeInv'
        BY <1>1, <1>4, <1>5, <2>1 DEF Inv, TypeInv, Places
    <2>3. PlaceInv' /\ BackfillInv' /\ RunInv'
        BY <1>1, <2>1 DEF Inv, PlaceInv, BackfillInv, RunInv
    <2>4. ViewsInv'
        BY <1>1, <2>1 DEF Inv, ViewsInv, PopulatedOnceScheduling
    <2>5. QED
        BY <1>6, <1>8, <2>2, <2>3, <2>4 DEF Inv
<1>11. QED
    BY <1>9, <1>10

LEMMA StutterKeepsInv == Inv /\ UNCHANGED vars => Inv'
BY DEF vars, Inv, TypeInv, ListedInv, PlaceInv, BackfillInv, RunInv, NoGap, ViewsInv,
   PopulatedOnceScheduling, Recorded, Parsed, ListedLate

LEMMA StepKeepsInv == Inv /\ [Next]_vars => Inv'
BY BootKeepsInv, ReadIndexKeepsInv, BackfillEntryKeepsInv, MarkCompleteKeepsInv, RefreshKeepsInv,
   StartRunKeepsInv, SyncDayKeepsInv, FinishRunKeepsInv, CrashKeepsInv, MidnightKeepsInv,
   PublishKeepsInv, StutterKeepsInv DEF Next, Work

LEMMA InvHolds == Spec => []Inv
BY InitInv, StepKeepsInv, PTL DEF Spec

----------------------------------------------------------------------------
(* The theorems                                                            *)

\* The worker stays in its types: a run ends no later than the day it is run on
\* (end = datetime.now(UTC).date() in IncrementalUpdater.run).
THEOREM TypeCorrect == Spec => []TypeInv
BY InvHolds, PTL DEF Inv

\* Whatever the crashes and outages, once the backfill is complete the window of the
\* next run reaches every listed filing without a row (start in IncrementalUpdater.run).
THEOREM NoGapOpens == Spec => []NoGap
BY InvHolds, PTL DEF Inv

\* The scheduler does not run over views that were never refreshed, unless there is
\* nothing to show (async_main).
THEOREM PopulatedForReaders == Spec => []PopulatedOnceScheduling
BY InvHolds, PTL DEF Inv, ViewsInv

\* The backfill declares itself complete only where the updater can take over
\* (mark_backfill_complete in BackfillRunner.run).
THEOREM BackfillHandsOver == Spec => HandsOver
<1>1. Inv /\ [Next]_vars => [complete' /\ ~complete => UpdaterCanStart']_vars
    <2> SUFFICES ASSUME Inv, Next, complete', ~complete PROVE UpdaterCanStart'
        BY DEF vars
    <2>1. MarkComplete
        BY DEF Next, Work, Boot, ReadIndex, BackfillEntry, RefreshAfterBackfill, StartRun, SyncDay,
           FinishRun, Crash, Midnight, PublishFiling, database
    <2>2. QED
        BY <2>1, HandOver
<1>2. QED
    BY <1>1, InvHolds, PTL DEF Spec, HandsOver
=============================================================================
