---------------------------- MODULE UpdaterProofs ----------------------------
(***************************************************************************)
(* Whatever jobs overlap, are cut short or do not take place, no published *)
(* filing falls out of the window of the next job unrecorded: for any      *)
(* filings, calendar, window and set of jobs.                              *)
(***************************************************************************)
EXTENDS Updater, TLAPS

\* A filing that SEC can list no more on day d.
Settled(f, d) == Day[f] + WindowDays < d

\* What a running job has left behind it: the settled filings of the days it
\* has passed are recorded, those of the day it is at are recorded or still to
\* come, and it finds the indexes of all of them.
JobInv(j) ==
    /\ pc[j] # "entries" => todo[j] = {}
    /\ pc[j] # "idle" =>
          /\ end[j] <= today
          /\ \A f \in published : Settled(f, end[j]) => Day[f] \in listed[j]
          /\ \A f \in published : Day[f] < day[j] /\ Settled(f, end[j]) => Recorded(f)
    /\ pc[j] = "entries" =>
          /\ day[j] <= end[j]
          /\ todo[j] \subseteq Entries(day[j])
          /\ \A f \in published :
                Day[f] = day[j] /\ Settled(f, end[j]) => Recorded(f) \/ f \in todo[j]

\* Only what SEC listed was recorded, and it listed nothing ahead of its day.
FilingInv ==
    /\ \A f \in published : Day[f] <= today
    /\ \A f \in Filings : Recorded(f) => f \in published

Inv == TypeOK /\ FilingInv /\ NoGap /\ \A j \in Jobs : JobInv(j)

\* Later is the maximum of two days.
LEMMA LaterIsMax ==
    ASSUME NEW d \in Int, NEW e \in Int
    PROVE  /\ Later(d, e) \in {d, e}
           /\ Later(d, e) >= d
           /\ Later(d, e) >= e
BY DEF Later

\* The state the backfill leaves satisfies the invariant.
LEMMA InitInv == Init => Inv
<1> SUFFICES ASSUME Init PROVE Inv
    OBVIOUS
<1> USE DaysAssumption
<1>1. TypeOK
    BY DEF Init, TypeOK, Days, Parsed
<1>2. FilingInv
    BY DEF Init, FilingInv
<1>3. NoGap
    <2>1. PICK read \in FirstDay .. today : \A f \in published :
              IF Recorded(f) THEN Day[f] <= read ELSE read <= Day[f] + WindowDays
        BY DEF Init
    <2>2. \A f \in published : Day[f] \in Int
        BY DEF Init, Days
    <2>3. read \in Int /\ Parsed \subseteq published /\ \A g \in Parsed : Recorded(g)
        BY DEF Init, Parsed, Recorded, Days
    <2> QED
        BY <2>1, <2>2, <2>3 DEF NoGap
<1>4. \A j \in Jobs : JobInv(j)
    BY DEF Init, JobInv
<1> QED
    BY <1>1, <1>2, <1>3, <1>4 DEF Inv

\* A step that leaves the database and SEC's indexes alone, and gives a job
\* that it ends its initial locals, keeps the invariant.
LEMMA JobEnds ==
    ASSUME Inv,
           UNCHANGED <<status, today, published>>,
           viewed' \subseteq Filings,
           pc' \in [Jobs -> {"idle", "day", "entries"}],
           end' \in [Jobs -> Days],
           day' \in [Jobs -> FirstDay .. LastDay + 1],
           listed' \in [Jobs -> SUBSET Days],
           todo' \in [Jobs -> SUBSET Filings],
           \A j \in Jobs : \/ pc'[j] = "idle" /\ todo'[j] = {}
                           \/ /\ pc'[j] = pc[j]
                              /\ end'[j] = end[j]
                              /\ day'[j] = day[j]
                              /\ listed'[j] = listed[j]
                              /\ todo'[j] = todo[j]
    PROVE  Inv'
<1>1. TypeOK'
    BY DEF Inv, TypeOK
<1>2. FilingInv'
    BY DEF Inv, FilingInv, Recorded
<1>3. NoGap'
    BY DEF Inv, NoGap, Recorded, Parsed
<1>4. ASSUME NEW j \in Jobs PROVE JobInv(j)'
    <2>1. JobInv(j)
        BY DEF Inv
    <2> QED
        BY <2>1 DEF JobInv, Recorded, Entries, Settled
<1> QED
    BY <1>1, <1>2, <1>3, <1>4 DEF Inv

\* A step of one job that changes its locals only.
LEMMA JobMoves ==
    ASSUME Inv, NEW i \in Jobs,
           UNCHANGED <<status, viewed, today, published>>,
           TypeOK', JobInv(i)',
           \A j \in Jobs \ {i} : /\ pc'[j] = pc[j]
                                 /\ end'[j] = end[j]
                                 /\ day'[j] = day[j]
                                 /\ listed'[j] = listed[j]
                                 /\ todo'[j] = todo[j]
    PROVE  Inv'
<1>1. FilingInv'
    BY DEF Inv, FilingInv, Recorded
<1>2. NoGap'
    BY DEF Inv, NoGap, Recorded, Parsed
<1>3. ASSUME NEW j \in Jobs PROVE JobInv(j)'
    <2>1. CASE j = i
        BY <2>1
    <2>2. CASE j # i
        <3>1. JobInv(j)
            BY DEF Inv
        <3> QED
            BY <2>2, <3>1 DEF JobInv, Recorded, Entries, Settled
    <2> QED
        BY <2>1, <2>2
<1> QED
    BY <1>1, <1>2, <1>3 DEF Inv

LEMMA StartInv ==
    ASSUME Inv, NEW i \in Jobs, Start(i)
    PROVE  Inv'
<1> USE DaysAssumption
<1>1. PICK latest \in Parsed :
          day' = [day EXCEPT ![i] = Later(Day[latest] - WindowDays, FirstDay)]
    BY DEF Start
<1> DEFINE first == Later(Day[latest] - WindowDays, FirstDay)
<1>2. latest \in Filings /\ Day[latest] \in Days
    BY DEF Parsed, Days
<1>3. /\ first \in {Day[latest] - WindowDays, FirstDay}
      /\ first >= FirstDay
      /\ first \in Days
    <2>1. Day[latest] - WindowDays \in Int /\ FirstDay \in Int
        BY <1>2 DEF Days
    <2>2. /\ first \in {Day[latest] - WindowDays, FirstDay}
          /\ first >= FirstDay
        BY <2>1, LaterIsMax
    <2> QED
        BY <1>2, <2>1, <2>2 DEF Days
<1>4. TypeOK'
    <2>1. day' \in [Jobs -> FirstDay .. LastDay + 1]
        BY <1>1, <1>3 DEF Inv, TypeOK, Days
    <2> QED
        BY <2>1 DEF Inv, TypeOK, Start, Days
<1>5. JobInv(i)'
    <2>1. day'[i] = first /\ end'[i] = today /\ listed'[i] = {Day[f] : f \in published}
        BY <1>1 DEF Inv, TypeOK, Start
    <2>2. ASSUME NEW f \in published, Day[f] < first PROVE Recorded(f)
        <3>1. f \in Filings /\ Day[f] >= FirstDay /\ Day[f] \in Int
            BY DEF Inv, TypeOK, Days
        <3>2. Day[f] < Day[latest] - WindowDays
            BY <1>2, <1>3, <2>2, <3>1 DEF Days
        <3> QED
            BY <3>2 DEF Inv, NoGap
    <2>3. pc'[i] = "day" /\ UNCHANGED <<status, published, today>>
        BY DEF Inv, TypeOK, Start
    <2>4. today \in Int
        BY DEF Inv, TypeOK, Days
    <2>5. todo'[i] = {}
        BY DEF Inv, JobInv, Start
    <2> QED
        BY <2>1, <2>2, <2>3, <2>4, <2>5 DEF JobInv, Recorded, Settled
<1>6. \A j \in Jobs \ {i} : /\ pc'[j] = pc[j]
                            /\ end'[j] = end[j]
                            /\ day'[j] = day[j]
                            /\ listed'[j] = listed[j]
                            /\ todo'[j] = todo[j]
    BY DEF Inv, TypeOK, Start
<1>7. UNCHANGED <<status, viewed, today, published>>
    BY DEF Start
<1> QED
    BY <1>4, <1>5, <1>6, <1>7, JobMoves

LEMMA FetchIndexInv ==
    ASSUME Inv, NEW i \in Jobs, FetchIndex(i)
    PROVE  Inv'
<1> USE DaysAssumption
<1>1. UNCHANGED <<status, viewed, today, published, end, day, listed>>
    BY DEF FetchIndex
<1>2. todo'[i] = Entries(day[i]) \/ (day[i] \notin listed[i] /\ todo'[i] = todo[i])
    BY DEF FetchIndex, Inv, TypeOK
<1>3. TypeOK'
    <2>1. Entries(day[i]) \in SUBSET Filings
        BY DEF Inv, TypeOK, Entries
    <2> QED
        BY <2>1 DEF Inv, TypeOK, FetchIndex
<1>4. JobInv(i)'
    <2>1. JobInv(i) /\ pc[i] = "day" /\ day[i] <= end[i] /\ pc'[i] = "entries"
        BY DEF Inv, TypeOK, FetchIndex
    <2>2. CASE todo'[i] = Entries(day[i])
        BY <1>1, <2>1, <2>2 DEF JobInv, Recorded, Entries, Settled
    <2>3. CASE day[i] \notin listed[i] /\ todo'[i] = todo[i]
        BY <1>1, <2>1, <2>3 DEF JobInv, Recorded, Entries, Settled
    <2> QED
        BY <1>2, <2>2, <2>3
<1>5. \A j \in Jobs \ {i} : /\ pc'[j] = pc[j]
                            /\ end'[j] = end[j]
                            /\ day'[j] = day[j]
                            /\ listed'[j] = listed[j]
                            /\ todo'[j] = todo[j]
    BY DEF Inv, TypeOK, FetchIndex
<1> QED
    BY <1>1, <1>3, <1>4, <1>5, JobMoves

\* What an ingested filing may move the window past, the job has recorded.
LEMMA IngestEntryInv ==
    ASSUME Inv, NEW i \in Jobs, IngestEntry(i)
    PROVE  Inv'
<1> USE DaysAssumption
<1>1. PICK f \in todo[i], outcome \in {"parsed", "failed"} :
          /\ status' = [status EXCEPT ![f] = IF @ = "parsed" THEN @ ELSE outcome]
          /\ todo' = [todo EXCEPT ![i] = @ \ {f}]
    BY DEF IngestEntry
<1>2. /\ UNCHANGED <<viewed, today, published, pc, end, day, listed>>
      /\ pc[i] = "entries"
    BY DEF IngestEntry
<1>3. /\ f \in published
      /\ f \in Filings
      /\ Day[f] = day[i]
      /\ day[i] <= end[i]
    BY <1>2 DEF Inv, TypeOK, JobInv, Entries
<1>4. /\ TypeOK'
      /\ \A g \in Filings : status'[g] = status[g] \/ g = f
      /\ status'[f] # "absent"
      /\ \A j \in Jobs : todo'[j] \subseteq todo[j] /\ todo[j] \subseteq todo'[j] \cup {f}
    BY <1>1, <1>2, <1>3 DEF Inv, TypeOK
<1>5. \A g \in Filings : Recorded(g) => Recorded(g)'
    BY <1>4 DEF Recorded
<1>6. FilingInv'
    BY <1>2, <1>3, <1>4 DEF Inv, FilingInv, Recorded
<1>7. NoGap'
    <2> SUFFICES ASSUME NEW h \in published, NEW g \in Parsed', Day[h] < Day[g] - WindowDays
                 PROVE  Recorded(h)'
        BY <1>2 DEF NoGap
    <2>1. h \in Filings /\ g \in Filings /\ Day[h] \in Int /\ Day[g] \in Int
        BY DEF Inv, TypeOK, Parsed, Days
    <2>2. CASE g # f
        <3>1. g \in Parsed
            BY <1>4, <2>1, <2>2 DEF Parsed
        <3> QED
            BY <1>5, <2>1, <3>1 DEF Inv, NoGap
    <2>3. CASE g = f
        <3>1. end[i] \in Int /\ day[i] \in Int
            BY DEF Inv, TypeOK, Days
        <3>2. Day[h] < day[i] /\ Settled(h, end[i])
            BY <1>3, <2>1, <2>3, <3>1 DEF Settled
        <3>3. Recorded(h)
            BY <1>2, <3>2 DEF Inv, JobInv
        <3> QED
            BY <1>5, <2>1, <3>3
    <2> QED
        BY <2>2, <2>3
<1>8. ASSUME NEW j \in Jobs PROVE JobInv(j)'
    <2>1. JobInv(j)
        BY DEF Inv
    <2>2. published \subseteq Filings
        BY DEF Inv, TypeOK
    <2>3. Recorded(f)'
        BY <1>4 DEF Recorded
    <2>4. pc'[j] # "entries" => todo'[j] = {}
        BY <1>2, <1>4, <2>1 DEF JobInv
    <2>5. pc'[j] # "idle" =>
              /\ end'[j] <= today'
              /\ \A g \in published' : Settled(g, end[j])' => Day[g] \in listed'[j]
              /\ \A g \in published' : Day[g] < day'[j] /\ Settled(g, end[j])' => Recorded(g)'
        BY <1>2, <1>5, <2>1, <2>2 DEF JobInv, Settled
    <2>6. ASSUME pc[j] = "entries"
          PROVE  /\ day'[j] <= end'[j]
                 /\ todo'[j] \subseteq Entries(day[j])'
                 /\ \A g \in published' :
                        Day[g] = day'[j] /\ Settled(g, end[j])'
                            => Recorded(g)' \/ g \in todo'[j]
        <3>1. day'[j] <= end'[j] /\ todo'[j] \subseteq Entries(day[j])'
            BY <1>2, <1>4, <2>1, <2>6 DEF JobInv, Entries
        <3>2. ASSUME NEW g \in published, Day[g] = day[j], Settled(g, end[j])
              PROVE  Recorded(g)' \/ g \in todo'[j]
            <4>1. Recorded(g) \/ g \in todo[j]
                BY <2>1, <2>6, <3>2 DEF JobInv
            <4> QED
                BY <1>4, <1>5, <2>2, <2>3, <4>1
        <3> QED
            BY <1>2, <3>1, <3>2 DEF Settled
    <2> QED
        BY <1>2, <2>4, <2>5, <2>6 DEF JobInv
<1> QED
    BY <1>4, <1>6, <1>7, <1>8 DEF Inv

LEMMA NextDayInv ==
    ASSUME Inv, NEW i \in Jobs, NextDay(i)
    PROVE  Inv'
<1> USE DaysAssumption
<1>1. /\ UNCHANGED <<status, viewed, today, published, end, listed, todo>>
      /\ pc[i] = "entries" /\ todo[i] = {}
      /\ pc'[i] = "day" /\ day'[i] = day[i] + 1
    BY DEF NextDay, Inv, TypeOK
<1>2. JobInv(i)
    BY DEF Inv
<1>3. /\ day[i] \in Int /\ day[i] <= end[i] /\ end[i] \in Days
      /\ day[i] + 1 \in FirstDay .. LastDay + 1
    BY <1>1, <1>2 DEF Inv, TypeOK, JobInv, Days
<1>4. TypeOK'
    BY <1>3 DEF Inv, TypeOK, NextDay
<1>5. JobInv(i)'
    <2>1. ASSUME NEW f \in published, Day[f] < day[i] + 1, Settled(f, end[i])
          PROVE  Recorded(f)
        <3>1. Day[f] \in Int
            BY DEF Inv, TypeOK, Days
        <3>2. Day[f] < day[i] \/ Day[f] = day[i]
            BY <1>3, <2>1, <3>1
        <3> QED
            BY <1>1, <1>2, <2>1, <3>2 DEF JobInv
    <2> QED
        BY <1>1, <1>2, <2>1 DEF JobInv, Recorded, Settled
<1>6. \A j \in Jobs \ {i} : /\ pc'[j] = pc[j]
                            /\ end'[j] = end[j]
                            /\ day'[j] = day[j]
                            /\ listed'[j] = listed[j]
                            /\ todo'[j] = todo[j]
    BY DEF Inv, TypeOK, NextDay
<1> QED
    BY <1>1, <1>4, <1>5, <1>6, JobMoves

\* A run that ends, by itself, by an exception or with the process.
LEMMA EndInv ==
    ASSUME Inv,
           \/ \E j \in Jobs : Refresh(j) \/ Abort(j)
           \/ Crash
    PROVE  Inv'
<1> USE DaysAssumption
<1>1. FirstDay \in Days /\ FirstDay \in FirstDay .. LastDay + 1
    BY DEF Days
<1>2. Parsed \subseteq Filings
    BY DEF Parsed
<1>3. ASSUME NEW i \in Jobs, Refresh(i) \/ Abort(i) PROVE Inv'
    <2>1. UNCHANGED <<status, today, published>> /\ viewed' \subseteq Filings /\ Finish(i)
        BY <1>2, <1>3 DEF Refresh, Abort, database, sec, Inv, TypeOK
    <2>2. /\ pc' \in [Jobs -> {"idle", "day", "entries"}]
          /\ end' \in [Jobs -> Days]
          /\ day' \in [Jobs -> FirstDay .. LastDay + 1]
          /\ listed' \in [Jobs -> SUBSET Days]
          /\ todo' \in [Jobs -> SUBSET Filings]
        BY <1>1, <2>1 DEF Inv, TypeOK, Finish
    <2>3. \A j \in Jobs : \/ pc'[j] = "idle" /\ todo'[j] = {}
                          \/ /\ pc'[j] = pc[j]
                             /\ end'[j] = end[j]
                             /\ day'[j] = day[j]
                             /\ listed'[j] = listed[j]
                             /\ todo'[j] = todo[j]
        BY <2>1 DEF Inv, TypeOK, Finish
    <2> QED
        BY <2>1, <2>2, <2>3, JobEnds
<1>4. CASE Crash
    <2>1. UNCHANGED <<status, today, published>> /\ viewed' \subseteq Filings
        BY <1>4 DEF Crash, database, sec, Inv, TypeOK
    <2>2. /\ pc' \in [Jobs -> {"idle", "day", "entries"}]
          /\ end' \in [Jobs -> Days]
          /\ day' \in [Jobs -> FirstDay .. LastDay + 1]
          /\ listed' \in [Jobs -> SUBSET Days]
          /\ todo' \in [Jobs -> SUBSET Filings]
        BY <1>1, <1>4 DEF Crash
    <2>3. \A j \in Jobs : pc'[j] = "idle" /\ todo'[j] = {}
        BY <1>4 DEF Crash
    <2> QED
        BY <2>1, <2>2, <2>3, JobEnds
<1> QED
    BY <1>3, <1>4

\* A filing that SEC still lists is not settled for any job that has started.
LEMMA EnvironmentInv ==
    ASSUME Inv, Midnight \/ PublishFiling
    PROVE  Inv'
<1> USE DaysAssumption
<1>1. CASE Midnight
    <2>1. /\ UNCHANGED <<status, viewed, published, pc, end, day, listed, todo>>
          /\ today < LastDay /\ today' = today + 1 /\ today \in Int
        BY <1>1 DEF Midnight, database, jobs, Inv, TypeOK, Days
    <2>2. TypeOK'
        BY <2>1 DEF Inv, TypeOK, Days
    <2>3. FilingInv'
        <3>1. \A f \in published : Day[f] \in Int
            BY DEF Inv, TypeOK, Days
        <3> QED
            BY <2>1, <3>1 DEF Inv, FilingInv, Recorded
    <2>4. NoGap'
        BY <2>1 DEF Inv, NoGap, Recorded, Parsed
    <2>5. ASSUME NEW j \in Jobs PROVE JobInv(j)'
        <3>1. JobInv(j) /\ end[j] \in Int
            BY DEF Inv, TypeOK, Days
        <3> QED
            BY <2>1, <3>1 DEF JobInv, Recorded, Entries, Settled
    <2> QED
        BY <2>2, <2>3, <2>4, <2>5 DEF Inv
<1>2. CASE PublishFiling
    <2>1. PICK p \in Filings \ published :
              Day[p] <= today /\ today <= Day[p] + WindowDays /\ published' = published \cup {p}
        BY <1>2 DEF PublishFiling
    <2>2. UNCHANGED <<status, viewed, today, pc, end, day, listed, todo>>
        BY <1>2 DEF PublishFiling, database, jobs
    <2>3. TypeOK'
        BY <2>1, <2>2 DEF Inv, TypeOK
    <2>4. FilingInv'
        BY <2>1, <2>2 DEF Inv, FilingInv, Recorded
    <2>5. /\ Day[p] \in Int /\ today \in Int
          /\ \A j \in Jobs : end[j] \in Int
        BY DEF Inv, TypeOK, Days
    <2>6. NoGap'
        <3> SUFFICES ASSUME NEW f \in published', NEW g \in Parsed, Day[f] < Day[g] - WindowDays
                     PROVE  Recorded(f)
            BY <2>2 DEF NoGap, Parsed, Recorded
        <3>1. g \in published /\ Day[g] <= today /\ Day[g] \in Int
            BY DEF Inv, TypeOK, FilingInv, Parsed, Recorded, Days
        <3>2. f # p
            BY <2>1, <2>5, <3>1
        <3> QED
            BY <2>1, <3>2 DEF Inv, NoGap
    <2>7. ASSUME NEW j \in Jobs PROVE JobInv(j)'
        <3>1. JobInv(j)
            BY DEF Inv
        <3>2. pc[j] # "idle" => ~Settled(p, end[j])
            BY <2>1, <2>5, <3>1 DEF JobInv, Settled
        <3> QED
            BY <2>1, <2>2, <3>1, <3>2 DEF JobInv, Recorded, Entries, Settled
    <2> QED
        BY <2>3, <2>4, <2>6, <2>7 DEF Inv
<1> QED
    BY <1>1, <1>2

LEMMA StepInv == Inv /\ [Next]_vars => Inv'
<1> SUFFICES ASSUME Inv, [Next]_vars PROVE Inv'
    OBVIOUS
<1>1. CASE Next
    BY <1>1, StartInv, FetchIndexInv, IngestEntryInv, NextDayInv, EndInv, EnvironmentInv
    DEF Next, Step
<1>2. CASE UNCHANGED vars
    <2>1. UNCHANGED <<status, viewed, today, published, pc, end, day, listed, todo>>
        BY <1>2 DEF vars
    <2> QED
        BY <2>1, JobEnds DEF Inv, TypeOK
<1> QED
    BY <1>1, <1>2

\* The inductive invariant holds in every reachable state.
THEOREM InvHolds == Spec => []Inv
BY InitInv, StepInv, PTL DEF Spec

\* The tables and the locals of the runs keep their types.
THEOREM TypeCorrect == Spec => []TypeOK
<1>1. Inv => TypeOK
    BY DEF Inv
<1> QED
    BY <1>1, InvHolds, PTL

\* No published filing falls out of the window of IncrementalUpdater.run
\* unrecorded.
THEOREM NoGapOpens == Spec => []NoGap
<1>1. Inv => NoGap
    BY DEF Inv
<1> QED
    BY <1>1, InvHolds, PTL

----------------------------------------------------------------------------
(* The ledger                                                              *)

StatusLedger ==
    INSTANCE FilingLedger
    WITH ledger <- [f \in Filings |-> IF status[f] = "parsed" THEN "complete" ELSE status[f]]

\* Whatever jobs overlap, each step on the filings is one of the ledger, as each
\* commit of overlapping sessions in Ingest is (IncrementalUpdater.run).  The ledger
\* of a database that the backfill has filled does not begin in its initial state.
THEOREM JobsKeepLedger ==
    Spec => [][StatusLedger!Next]_[f \in Filings |-> IF status[f] = "parsed" THEN "complete" ELSE status[f]]
<1> DEFINE L == [f \in Filings |-> IF status[f] = "parsed" THEN "complete" ELSE status[f]]
<1>1. Inv /\ [Next]_vars => [StatusLedger!Next]_L
    <2> SUFFICES ASSUME Inv, [Next]_vars
                 PROVE  StatusLedger!Next \/ UNCHANGED L
        OBVIOUS
    <2>1. ASSUME NEW j \in Jobs, IngestEntry(j)
          PROVE  StatusLedger!Next \/ UNCHANGED L
        <3>1. PICK f \in Filings, outcome \in {"parsed", "failed"} :
                  status' = [status EXCEPT ![f] = IF @ = "parsed" THEN @ ELSE outcome]
            BY <2>1 DEF IngestEntry, Inv, TypeOK
        <3>2. CASE status[f] = "parsed" \/ (status[f] = "failed" /\ outcome = "failed")
            BY <3>1, <3>2 DEF Inv, TypeOK
        <3>3. CASE status[f] # "parsed" /\ outcome = "parsed"
            <4>1. StatusLedger!Complete(f)
                BY <3>1, <3>3 DEF StatusLedger!Complete, Inv, TypeOK
            <4>2. QED
                BY <4>1 DEF StatusLedger!Next
        <3>4. CASE status[f] = "absent" /\ outcome = "failed"
            <4>1. StatusLedger!RecordFailure(f)
                BY <3>1, <3>4 DEF StatusLedger!RecordFailure, Inv, TypeOK
            <4>2. QED
                BY <4>1 DEF StatusLedger!Next
        <3>5. QED
            BY <3>2, <3>3, <3>4 DEF Inv, TypeOK
    <2>2. CASE UNCHANGED status
        BY <2>2
    <2>3. UNCHANGED status \/ \E j \in Jobs : IngestEntry(j)
        BY DEF Next, Step, Start, FetchIndex, NextDay, Refresh, Abort, Crash, Midnight,
               PublishFiling, database, sec, vars
    <2>4. QED
        BY <2>1, <2>2, <2>3
<1>2. QED
    BY <1>1, InvHolds, PTL DEF Spec
==============================================================================
