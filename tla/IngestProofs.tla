---------------------------- MODULE IngestProofs ----------------------------
(***************************************************************************)
(* Theorems about Ingest, for any sets of filings and sessions.            *)
(***************************************************************************)
EXTENDS Ingest, TLAPS

----------------------------------------------------------------------------
(* The inductive invariant                                                 *)

\* A slot has an entry while a session is open in it, and an aborted or closed
\* transaction keeps no lock.
SlotsInv ==
    \A s \in Sessions :
        /\ pc[s] = "idle" <=> entry[s] = None
        /\ pc[s] \in {"idle", "started"} => seen[s] = "absent"
        /\ pc[s] \in {"idle"} \cup Aborted => s \notin holding /\ s \notin cleared

\* Which control states imply an uncommitted write, and the other way round.
WritesInv ==
    \A s \in Sessions :
        /\ s \in holding => pc[s] \in {"inserting", "stored", "failed"}
        /\ pc[s] \in {"inserting", "stored"} => s \in holding
        /\ pc[s] = "failed" /\ seen[s] = "absent" => s \in holding
        /\ s \in cleared => seen[s] = "failed"

\* Two transactions never hold the row of the same filing.
OneWriter == \A s, o \in holding : entry[s] = entry[o] => s = o

\* What a session has seen may be stale, but only towards parsed; and while it
\* holds the row of a filing it inserts, nobody else has committed that filing.
SeenInv ==
    \A s \in Sessions : pc[s] # "idle" =>
        /\ pc[s] = "skipping" => seen[s] = "parsed"
        /\ seen[s] = "parsed" => status[entry[s]] = "parsed"
        /\ seen[s] = "failed" => status[entry[s]] # "absent"
        /\ s \in holding /\ seen[s] = "absent" => status[entry[s]] = "absent"
        /\ pc[s] \in {"storing", "failing"} => seen[s] = "failed"
        /\ pc[s] \in {"fetching", "writing", "recording", "inserting", "stored", "failed"}
              => seen[s] # "parsed"

Inv ==
    /\ TypeOK
    /\ SlotsInv
    /\ WritesInv
    /\ OneWriter
    /\ SeenInv
    /\ RowsOnlyWhenParsed
    /\ LogsTellTheTruth

----------------------------------------------------------------------------
(* Every action preserves it                                               *)

LEMMA InitInv == Init => Inv
BY NoneIsNotAFiling
   DEF Init, Inv, TypeOK, SlotsInv, WritesInv, OneWriter, SeenInv, RowsOnlyWhenParsed,
       LogsTellTheTruth, Aborted, LogKinds, Working

LEMMA BreakInv ==
    ASSUME Inv, NEW s \in Sessions, pc[s] \in Working, NEW how \in Aborted, Break(s, how)
    PROVE  Inv'
<1> USE DEF Inv, Break
<1>1. TypeOK'
  BY DEF TypeOK
<1>2. SlotsInv' /\ WritesInv' /\ OneWriter'
  BY DEF TypeOK, SlotsInv, WritesInv, OneWriter, Aborted, Working
<1>3. SeenInv'
  BY DEF TypeOK, SlotsInv, SeenInv, Aborted, Working
<1>4. RowsOnlyWhenParsed' /\ LogsTellTheTruth'
  BY DEF RowsOnlyWhenParsed, LogsTellTheTruth
<1>5. QED
  BY <1>1, <1>2, <1>3, <1>4

LEMMA StartLogInv ==
    ASSUME Inv, NEW s \in Sessions, NEW f \in Filings, StartLog(s, f)
    PROVE  Inv'
<1> USE DEF Inv, StartLog
<1>1. TypeOK'
  BY DEF TypeOK, Working, Others
<1>2. SlotsInv' /\ WritesInv' /\ OneWriter'
  BY NoneIsNotAFiling DEF TypeOK, SlotsInv, WritesInv, OneWriter, Aborted
<1>3. SeenInv'
  BY DEF TypeOK, SlotsInv, SeenInv, Aborted
<1>4. RowsOnlyWhenParsed' /\ LogsTellTheTruth'
  BY DEF RowsOnlyWhenParsed, LogsTellTheTruth
<1>5. QED
  BY <1>1, <1>2, <1>3, <1>4

LEMMA SelectExistingInv ==
    ASSUME Inv, NEW s \in Sessions, SelectExisting(s)
    PROVE  Inv'
<1> USE DEF Inv, SelectExisting
<1>1. TypeOK'
  BY DEF TypeOK, SlotsInv, Working
<1>2. SlotsInv' /\ WritesInv' /\ OneWriter'
  BY DEF TypeOK, SlotsInv, WritesInv, OneWriter, SeenInv, Aborted
<1>3. SeenInv'
  BY DEF TypeOK, SlotsInv, WritesInv, SeenInv, Aborted
<1>4. RowsOnlyWhenParsed' /\ LogsTellTheTruth'
  BY DEF TypeOK, RowsOnlyWhenParsed, LogsTellTheTruth
<1>5. QED
  BY <1>1, <1>2, <1>3, <1>4

LEMMA FetchInv ==
    ASSUME Inv, NEW s \in Sessions, Fetch(s)
    PROVE  Inv'
<1> USE DEF Inv, Fetch
<1>1. TypeOK'
  BY DEF TypeOK, Working
<1>2. SlotsInv' /\ WritesInv' /\ OneWriter'
  BY DEF TypeOK, SlotsInv, WritesInv, OneWriter, SeenInv, Aborted
<1>3. SeenInv'
  BY DEF TypeOK, SlotsInv, WritesInv, SeenInv, Aborted
<1>4. RowsOnlyWhenParsed' /\ LogsTellTheTruth'
  BY DEF TypeOK, RowsOnlyWhenParsed, LogsTellTheTruth
<1>5. QED
  BY <1>1, <1>2, <1>3, <1>4

LEMMA DeleteRowsInv ==
    ASSUME Inv, NEW s \in Sessions, DeleteRows(s)
    PROVE  Inv'
<1> USE DEF Inv, DeleteRows
<1>1. TypeOK'
  BY DEF TypeOK, Working
<1>2. SlotsInv' /\ WritesInv' /\ OneWriter'
  BY DEF TypeOK, SlotsInv, WritesInv, OneWriter, SeenInv, Aborted
<1>3. SeenInv'
  BY DEF TypeOK, SlotsInv, WritesInv, SeenInv, Aborted
<1>4. RowsOnlyWhenParsed' /\ LogsTellTheTruth'
  BY DEF TypeOK, RowsOnlyWhenParsed, LogsTellTheTruth
<1>5. QED
  BY <1>1, <1>2, <1>3, <1>4

LEMMA FlushFilingInv ==
    ASSUME Inv, NEW s \in Sessions, FlushFiling(s)
    PROVE  Inv'
<1>1. CASE seen[s] = "absent" /\ status[entry[s]] # "absent"
  BY <1>1, BreakInv DEF FlushFiling, Working, Aborted
<1>2. CASE ~(seen[s] = "absent" /\ status[entry[s]] # "absent")
  <2> USE <1>2 DEF Inv, FlushFiling
  <2>1. TypeOK'
    BY DEF TypeOK, Working
  <2>2. SlotsInv' /\ WritesInv'
    BY DEF TypeOK, SlotsInv, WritesInv, Aborted
  <2>3. OneWriter'
    BY DEF OneWriter, RowFree
  <2>4. SeenInv'
    BY DEF TypeOK, SlotsInv, WritesInv, SeenInv, Aborted
  <2>5. RowsOnlyWhenParsed' /\ LogsTellTheTruth'
    BY DEF RowsOnlyWhenParsed, LogsTellTheTruth
  <2>6. QED
    BY <2>1, <2>2, <2>3, <2>4, <2>5
<1>3. QED
  BY <1>1, <1>2

LEMMA InsertRowsInv ==
    ASSUME Inv, NEW s \in Sessions, InsertRows(s)
    PROVE  Inv'
<1>1. CASE entry[s] \in rows /\ s \notin cleared
  BY <1>1, BreakInv DEF InsertRows, Working, Aborted
<1>2. CASE ~(entry[s] \in rows /\ s \notin cleared)
  <2> USE <1>2 DEF Inv, InsertRows
  <2>1. TypeOK'
    BY DEF TypeOK, Working
  <2>2. SlotsInv' /\ WritesInv' /\ OneWriter'
    BY DEF TypeOK, SlotsInv, WritesInv, OneWriter, Aborted
  <2>3. SeenInv'
    BY DEF TypeOK, SlotsInv, WritesInv, SeenInv, Aborted
  <2>4. RowsOnlyWhenParsed' /\ LogsTellTheTruth'
    BY DEF RowsOnlyWhenParsed, LogsTellTheTruth
  <2>5. QED
    BY <2>1, <2>2, <2>3, <2>4
<1>3. QED
  BY <1>1, <1>2

\* The end of a transaction, whatever it commits, leaves the slots in order.
LEMMA ReleaseSlots ==
    ASSUME Inv, NEW s \in Sessions, Release(s)
    PROVE  SlotsInv' /\ WritesInv' /\ OneWriter'
BY NoneIsNotAFiling
   DEF Inv, Release, TypeOK, SlotsInv, WritesInv, OneWriter, Aborted

LEMMA CommitSkippedInv ==
    ASSUME Inv, NEW s \in Sessions, CommitSkipped(s)
    PROVE  Inv'
<1> USE DEF CommitSkipped, Log
<1>1. SlotsInv' /\ WritesInv' /\ OneWriter'
  BY ReleaseSlots
<1>2. entry[s] \in Filings /\ status[entry[s]] = "parsed"
  BY DEF Inv, TypeOK, SlotsInv, SeenInv
<1>3. TypeOK'
  BY <1>2 DEF Inv, TypeOK, Release, LogKinds
<1>4. SeenInv'
  BY DEF Inv, TypeOK, SeenInv, Release
<1>5. RowsOnlyWhenParsed' /\ LogsTellTheTruth'
  BY <1>2 DEF Inv, TypeOK, RowsOnlyWhenParsed, LogsTellTheTruth
<1>6. QED
  BY <1>1, <1>3, <1>4, <1>5 DEF Inv

LEMMA CommitParsedInv ==
    ASSUME Inv, NEW s \in Sessions, CommitParsed(s)
    PROVE  Inv'
<1> USE DEF CommitParsed, Log
<1>1. SlotsInv' /\ WritesInv' /\ OneWriter'
  BY ReleaseSlots
<1>2. entry[s] \in Filings /\ s \in holding
  BY DEF Inv, TypeOK, SlotsInv, WritesInv
<1>3. TypeOK'
  BY <1>2 DEF Inv, TypeOK, Release, LogKinds
<1>4. SeenInv'
  BY <1>2 DEF Inv, TypeOK, SlotsInv, OneWriter, SeenInv, Release
<1>5. RowsOnlyWhenParsed' /\ LogsTellTheTruth'
  BY <1>2 DEF Inv, TypeOK, RowsOnlyWhenParsed, LogsTellTheTruth
<1>6. QED
  BY <1>1, <1>3, <1>4, <1>5 DEF Inv

LEMMA CommitFailedInv ==
    ASSUME Inv, NEW s \in Sessions, CommitFailed(s)
    PROVE  Inv'
<1> USE DEF CommitFailed, Log
<1>1. SlotsInv' /\ WritesInv' /\ OneWriter'
  BY ReleaseSlots
<1>2. /\ entry[s] \in Filings
      /\ seen[s] = "absent" => s \in holding /\ status[entry[s]] = "absent"
  BY DEF Inv, TypeOK, SlotsInv, WritesInv, SeenInv
<1>3. TypeOK'
  BY <1>2 DEF Inv, TypeOK, Release, LogKinds
<1>4. SeenInv'
  BY <1>2 DEF Inv, TypeOK, SlotsInv, OneWriter, SeenInv, Release
<1>5. RowsOnlyWhenParsed'
  BY <1>2 DEF Inv, TypeOK, RowsOnlyWhenParsed
<1>6. LogsTellTheTruth'
  BY <1>2 DEF Inv, TypeOK, LogsTellTheTruth
<1>7. QED
  BY <1>1, <1>3, <1>4, <1>5, <1>6 DEF Inv

LEMMA CommitRaisedInv ==
    ASSUME Inv, NEW s \in Sessions, CommitRaised(s)
    PROVE  Inv'
<1> USE DEF CommitRaised, Log
<1>1. SlotsInv' /\ WritesInv' /\ OneWriter'
  BY ReleaseSlots
<1>2. entry[s] \in Filings
  BY DEF Inv, TypeOK, SlotsInv
<1>3. TypeOK'
  BY <1>2 DEF Inv, TypeOK, Release, LogKinds
<1>4. SeenInv'
  BY DEF Inv, TypeOK, SeenInv, Release
<1>5. RowsOnlyWhenParsed' /\ LogsTellTheTruth'
  BY <1>2 DEF Inv, TypeOK, RowsOnlyWhenParsed, LogsTellTheTruth
<1>6. QED
  BY <1>1, <1>3, <1>4, <1>5 DEF Inv

LEMMA RollBackInv ==
    ASSUME Inv, NEW s \in Sessions, RollBack(s)
    PROVE  Inv'
<1> USE DEF RollBack, database
<1>1. SlotsInv' /\ WritesInv' /\ OneWriter'
  BY ReleaseSlots
<1>2. TypeOK' /\ SeenInv'
  BY DEF Inv, TypeOK, SeenInv, Release
<1>3. RowsOnlyWhenParsed' /\ LogsTellTheTruth'
  BY DEF Inv, RowsOnlyWhenParsed, LogsTellTheTruth
<1>4. QED
  BY <1>1, <1>2, <1>3 DEF Inv

LEMMA CrashInv ==
    ASSUME Inv, Crash
    PROVE  Inv'
<1> USE DEF Inv, Crash, database
<1>1. TypeOK' /\ SlotsInv' /\ WritesInv' /\ OneWriter' /\ SeenInv'
  BY DEF TypeOK, SlotsInv, WritesInv, OneWriter, SeenInv, Working, Aborted
<1>2. RowsOnlyWhenParsed' /\ LogsTellTheTruth'
  BY DEF RowsOnlyWhenParsed, LogsTellTheTruth
<1>3. QED
  BY <1>1, <1>2

LEMMA StutterInv ==
    ASSUME Inv, UNCHANGED vars
    PROVE  Inv'
BY DEF vars, Inv, TypeOK, SlotsInv, WritesInv, OneWriter, SeenInv, RowsOnlyWhenParsed,
       LogsTellTheTruth

LEMMA NextInv == Inv /\ [Next]_vars => Inv'
<1> SUFFICES ASSUME Inv, [Next]_vars
             PROVE  Inv'
  OBVIOUS
<1>1. ASSUME NEW s \in Sessions, NEW f \in Filings, StartLog(s, f)
      PROVE  Inv'
  BY <1>1, StartLogInv
<1>2. ASSUME NEW s \in Sessions, Advance(s)
      PROVE  Inv'
  <2>1. CASE DeadlockVictim(s)
    <3>1. pc[s] \in Working /\ Break(s, "broken")
      BY <2>1 DEF DeadlockVictim, Working
    <3>2. QED
      BY <3>1, BreakInv DEF Aborted
  <2>2. QED
    BY <1>2, <2>1, SelectExistingInv, FetchInv, CommitSkippedInv, CommitParsedInv,
       CommitFailedInv, CommitRaisedInv, RollBackInv
       DEF Advance
<1>3. ASSUME NEW s \in Sessions, Wait(s)
      PROVE  Inv'
  BY <1>3, DeleteRowsInv, FlushFilingInv, InsertRowsInv DEF Wait
<1>4. ASSUME NEW s \in Sessions, Fail(s)
      PROVE  Inv'
  BY <1>4, BreakInv DEF Fail, Aborted
<1>5. CASE Crash
  BY <1>5, CrashInv
<1>6. CASE UNCHANGED vars
  BY <1>6, StutterInv
<1>7. QED
  BY <1>1, <1>2, <1>3, <1>4, <1>5, <1>6 DEF Next

----------------------------------------------------------------------------
(* Theorems                                                                *)

\* The tables and the sessions keep their types, and no two open transactions
\* ever hold the same filing, whatever sessions overlap (ingest_index_entry).
THEOREM InvHolds == Spec => []Inv
BY InitInv, NextInv, PTL DEF Spec

\* The tables and the states of the sessions keep their types.
THEOREM TypeCorrect == Spec => []TypeOK
BY InvHolds, PTL DEF Inv

\* However many sessions ingest the same filing at the same time, transaction
\* rows are committed only for parsed filings (_store_parsed_filing).
THEOREM RowsNeedParsed == Spec => []RowsOnlyWhenParsed
BY InvHolds, PTL DEF Inv

\* However many sessions overlap, the kinds of log rows agree with the status
\* of the filing (mark_ingestion_success, mark_ingestion_skipped).
THEOREM LogsAreTrue == Spec => []LogsTellTheTruth
BY InvHolds, PTL DEF Inv

\* No session ever takes back what another one recorded: a parsed filing stays
\* parsed, a failed one stays known (_record_failed_filing).
THEOREM StatusIsMonotone == Spec => StatusNeverRegresses
<1>1. Inv /\ [Next]_vars =>
        [\A f \in Filings :
            /\ status[f] = "parsed" => status'[f] = "parsed"
            /\ status[f] = "failed" => status'[f] # "absent"]_vars
  <2> SUFFICES ASSUME Inv, Next, NEW g \in Filings
               PROVE  /\ status[g] = "parsed" => status'[g] = "parsed"
                      /\ status[g] = "failed" => status'[g] # "absent"
    OBVIOUS
  <2>1. ASSUME NEW s \in Sessions, CommitParsed(s)
        PROVE  status' = [status EXCEPT ![entry[s]] = "parsed"]
    BY <2>1 DEF CommitParsed
  <2>2. ASSUME NEW s \in Sessions, CommitFailed(s), seen[s] = "absent"
        PROVE  /\ status' = [status EXCEPT ![entry[s]] = "failed"]
               /\ status[entry[s]] = "absent"
    BY <2>2 DEF CommitFailed, Inv, WritesInv, SeenInv
  <2>3. CASE UNCHANGED status
    BY <2>3
  <2>4. UNCHANGED status \/ \E s \in Sessions :
           CommitParsed(s) \/ (CommitFailed(s) /\ seen[s] = "absent")
    BY DEF Next, Advance, Wait, StartLog, SelectExisting, Fetch, DeleteRows, FlushFiling,
           InsertRows, CommitSkipped, CommitFailed, CommitRaised, RollBack, DeadlockVictim,
           Fail, Crash, Break, database
  <2>5. QED
    BY <2>1, <2>2, <2>3, <2>4 DEF Inv, TypeOK
<1>2. QED
  BY <1>1, InvHolds, PTL DEF Spec, StatusNeverRegresses

\* However many sessions overlap, what is committed to the status of the filings is a
\* step of the ledger: an entry is ingested in one step, as Updater and Worker have it
\* (ingest_index_entry and the commit of its caller).
THEOREM OverlapImplementsLedger == Spec => StatusLedger!Spec
<1> DEFINE L == [f \in Filings |-> IF status[f] = "parsed" THEN "complete" ELSE status[f]]
<1>1. Init => StatusLedger!Init
  BY DEF Init, StatusLedger!Init
<1>2. Inv /\ [Next]_vars => [StatusLedger!Next]_L
  <2> SUFFICES ASSUME Inv, [Next]_vars
               PROVE  [StatusLedger!Next]_L
    OBVIOUS
  <2>1. ASSUME NEW s \in Sessions, CommitParsed(s)
        PROVE  StatusLedger!Next \/ UNCHANGED L
    <3>1. PICK f \in Filings : status' = [status EXCEPT ![f] = "parsed"]
      BY <2>1 DEF CommitParsed, Inv, TypeOK, SlotsInv
    <3>2. CASE status[f] = "parsed"
      BY <3>1, <3>2 DEF Inv, TypeOK
    <3>3. CASE status[f] # "parsed"
      <4>1. StatusLedger!Complete(f)
        BY <3>1, <3>3 DEF StatusLedger!Complete, Inv, TypeOK
      <4>2. QED
        BY <4>1 DEF StatusLedger!Next
    <3>4. QED
      BY <3>2, <3>3
  <2>2. ASSUME NEW s \in Sessions, CommitFailed(s), seen[s] = "absent"
        PROVE  StatusLedger!Next
    <3>1. PICK f \in Filings :
              /\ status[f] = "absent"
              /\ status' = [status EXCEPT ![f] = "failed"]
      <4>1. entry[s] \in Filings /\ status[entry[s]] = "absent"
        BY <2>2 DEF CommitFailed, Inv, TypeOK, SlotsInv, WritesInv, SeenInv
      <4>2. QED
        BY <2>2, <4>1 DEF CommitFailed
    <3>2. StatusLedger!RecordFailure(f)
      BY <3>1 DEF StatusLedger!RecordFailure, Inv, TypeOK
    <3>3. QED
      BY <3>2 DEF StatusLedger!Next
  <2>3. CASE UNCHANGED status
    BY <2>3
  <2>4. UNCHANGED status \/ \E s \in Sessions :
           CommitParsed(s) \/ (CommitFailed(s) /\ seen[s] = "absent")
    BY DEF Next, Advance, Wait, StartLog, SelectExisting, Fetch, DeleteRows, FlushFiling,
           InsertRows, CommitSkipped, CommitFailed, CommitRaised, RollBack, DeadlockVictim,
           Fail, Crash, Break, database, vars
  <2>5. QED
    BY <2>1, <2>2, <2>3, <2>4
<1>3. QED
  BY <1>1, <1>2, InvHolds, PTL DEF Spec, StatusLedger!Spec

\* The deletion that loses the rows of a parsed filing is of a session that has seen
\* a failure, and the log keeps every failure.
FailuresLogged ==
    \A s \in Sessions : seen[s] = "failed" => "failed" \in logs[entry[s]]

\* No overlap of sessions costs a filing its rows that has never failed
\* (_record_failed_filing): the log names every filing that may have lost them.
THEOREM OnlyFailedLoseRows == Spec => []UnfailedKeepRows
<1>1. Init => FailuresLogged /\ UnfailedKeepRows
  BY DEF Init, FailuresLogged, UnfailedKeepRows
<1>2. Inv /\ FailuresLogged /\ UnfailedKeepRows /\ [Next]_vars => FailuresLogged' /\ UnfailedKeepRows'
  <2> SUFFICES ASSUME Inv, FailuresLogged, UnfailedKeepRows, [Next]_vars
               PROVE  FailuresLogged' /\ UnfailedKeepRows'
    OBVIOUS
  <2> USE DEF Inv, TypeOK, FailuresLogged, UnfailedKeepRows
  <2>1. ASSUME NEW s \in Sessions, NEW f \in Filings, StartLog(s, f)
        PROVE  FailuresLogged' /\ UnfailedKeepRows'
    BY <2>1 DEF StartLog, SlotsInv
  <2>2. ASSUME NEW s \in Sessions, SelectExisting(s)
        PROVE  FailuresLogged' /\ UnfailedKeepRows'
    BY <2>2 DEF SelectExisting, SlotsInv, LogsTellTheTruth
  <2>3. ASSUME NEW s \in Sessions,
               Fetch(s) \/ DeleteRows(s) \/ FlushFiling(s) \/ InsertRows(s)
                 \/ DeadlockVictim(s) \/ Fail(s)
        PROVE  FailuresLogged' /\ UnfailedKeepRows'
    <3>1. UNCHANGED <<status, rows, logs, entry, seen>>
      BY <2>3 DEF Fetch, DeleteRows, FlushFiling, InsertRows, DeadlockVictim, Fail, Break
    <3>2. QED
      BY <3>1
  <2>4. ASSUME NEW s \in Sessions,
               CommitSkipped(s) \/ CommitParsed(s) \/ CommitFailed(s) \/ CommitRaised(s) \/ RollBack(s)
        PROVE  FailuresLogged' /\ UnfailedKeepRows'
    <3>1. /\ entry[s] \in Filings
          /\ entry' = [entry EXCEPT ![s] = None]
          /\ seen' = [seen EXCEPT ![s] = "absent"]
          /\ \A f \in Filings : logs[f] \subseteq logs'[f]
      BY <2>4 DEF CommitSkipped, CommitParsed, CommitFailed, CommitRaised, RollBack, Release,
           Log, database, SlotsInv, Aborted
    <3>2. FailuresLogged'
      <4>1. \A o \in Sessions : seen[o] = "failed" => entry[o] \in Filings
        BY DEF SlotsInv
      <4>2. QED
        BY <3>1, <4>1
    <3>3. UnfailedKeepRows'
      <4>1. CASE CommitParsed(s)
        BY <3>1, <4>1 DEF CommitParsed
      <4>2. CASE CommitFailed(s)
        <5>1. s \in cleared => "failed" \in logs[entry[s]]
          BY DEF WritesInv
        <5>2. \A f \in Filings : status'[f] = "parsed" => status[f] = "parsed"
          BY <3>1, <4>2 DEF CommitFailed
        <5>3. QED
          BY <3>1, <4>2, <5>1, <5>2 DEF CommitFailed
      <4>3. CASE UNCHANGED <<status, rows>>
        BY <3>1, <4>3
      <4>4. QED
        BY <2>4, <4>1, <4>2, <4>3 DEF CommitSkipped, CommitRaised, RollBack, database
    <3>4. QED
      BY <3>2, <3>3
  <2>5. CASE Crash
    BY <2>5 DEF Crash, database
  <2>6. CASE UNCHANGED vars
    BY <2>6 DEF vars
  <2>7. QED
    BY <2>1, <2>2, <2>3, <2>4, <2>5, <2>6 DEF Next, Advance, Wait
<1>3. QED
  BY <1>1, <1>2, InvHolds, PTL DEF Spec

----------------------------------------------------------------------------
(* A session that is alone with its filing                                 *)

\* What a lone session has seen is still so, hence it meets no conflict and
\* deletes nothing that another one has committed.
LoneInv ==
    \A s \in Sessions \ met : pc[s] # "idle" =>
        /\ \A o \in Sessions \ {s} : entry[o] # entry[s]
        /\ pc[s] \notin {"started", "broken"} => seen[s] = status[entry[s]]
        /\ pc[s] # "conflicted"

LEMMA LoneStep == Inv /\ LoneInv /\ [Next]_vars => LoneInv'
<1> SUFFICES ASSUME Inv, LoneInv, [Next]_vars
             PROVE  LoneInv'
  OBVIOUS
<1>1. ASSUME NEW s \in Sessions, NEW f \in Filings, StartLog(s, f)
      PROVE  LoneInv'
  <2>1. ASSUME NEW r \in Sessions \ met', pc'[r] # "idle"
        PROVE  r = s \/ (r \notin met /\ pc[r] # "idle" /\ entry[r] # f)
    BY <1>1, <2>1 DEF StartLog, Others, Inv, TypeOK
  <2>2. ASSUME s \notin met', NEW o \in Sessions \ {s}
        PROVE  entry[o] # f
    BY <1>1, <2>2 DEF StartLog, Others
  <2>3. QED
    BY <1>1, <2>1, <2>2 DEF StartLog, LoneInv, Inv, TypeOK
<1>2. ASSUME NEW s \in Sessions, SelectExisting(s) \/ Fetch(s) \/ DeleteRows(s)
      PROVE  LoneInv'
  BY <1>2 DEF SelectExisting, Fetch, DeleteRows, LoneInv, Inv, TypeOK
<1>3. ASSUME NEW s \in Sessions, FlushFiling(s) \/ InsertRows(s)
      PROVE  LoneInv'
  <2>1. CASE Break(s, "conflicted")
    <3>1. s \in met
      <4>1. CASE FlushFiling(s)
        BY <2>1, <4>1 DEF FlushFiling, Break, LoneInv, Inv, TypeOK
      <4>2. CASE InsertRows(s)
        <5>1. pc[s] = "inserting"
          BY <4>2 DEF InsertRows
        <5>2. entry[s] \in rows
          BY <2>1, <4>2, <5>1 DEF InsertRows, Break, Inv, TypeOK
        <5>3. seen[s] # status[entry[s]]
          BY <5>1, <5>2 DEF Inv, SeenInv, RowsOnlyWhenParsed
        <5>4. QED
          BY <5>1, <5>3 DEF LoneInv
      <4>3. QED
        BY <1>3, <4>1, <4>2
    <3>2. QED
      BY <2>1, <3>1 DEF Break, LoneInv, Inv, TypeOK
  <2>2. CASE ~Break(s, "conflicted")
    <3>1. /\ pc[s] \in {"writing", "recording", "inserting"}
          /\ \E next \in {"inserting", "failed", "stored"} : pc' = [pc EXCEPT ![s] = next]
          /\ UNCHANGED <<status, entry, seen, met>>
      BY <1>3, <2>2 DEF FlushFiling, InsertRows, Inv, TypeOK
    <3>2. QED
      BY <3>1 DEF LoneInv, Inv, TypeOK
  <2>3. QED
    BY <2>1, <2>2
<1>4. ASSUME NEW s \in Sessions,
             CommitSkipped(s) \/ CommitParsed(s) \/ CommitFailed(s) \/ CommitRaised(s) \/ RollBack(s)
      PROVE  LoneInv'
  <2>1. /\ pc[s] # "idle" /\ entry[s] \in Filings
        /\ Release(s)
        /\ \A f \in Filings : f # entry[s] => status'[f] = status[f]
    BY <1>4
       DEF CommitSkipped, CommitParsed, CommitFailed, CommitRaised, RollBack, database, Aborted,
           Inv, TypeOK, SlotsInv
  <2>2. ASSUME NEW r \in Sessions \ met', pc'[r] # "idle"
        PROVE  /\ r # s /\ r \notin met /\ pc[r] # "idle"
               /\ entry[r] \in Filings /\ entry[r] # entry[s]
    BY <2>1, <2>2 DEF Release, LoneInv, Inv, TypeOK, SlotsInv
  <2>3. QED
    BY <2>1, <2>2, NoneIsNotAFiling DEF Release, LoneInv, Inv, TypeOK
<1>5. ASSUME NEW s \in Sessions, DeadlockVictim(s) \/ Fail(s)
      PROVE  LoneInv'
  <2>1. pc[s] # "idle" /\ Break(s, "broken")
    BY <1>5 DEF DeadlockVictim, Fail, Working
  <2>2. QED
    BY <2>1 DEF Break, LoneInv, Inv, TypeOK
<1>6. CASE Crash
  BY <1>6 DEF Crash, LoneInv
<1>7. CASE UNCHANGED vars
  BY <1>7 DEF vars, LoneInv
<1>8. QED
  BY <1>1, <1>2, <1>3, <1>4, <1>5, <1>6, <1>7 DEF Next, Advance, Wait

LEMMA LoneHolds == Spec => []LoneInv
<1>1. Init => LoneInv
  BY DEF Init, LoneInv
<1>2. QED
  BY <1>1, LoneStep, InvHolds, PTL DEF Spec

\* Whatever else goes on, a session that overlaps no other one of its filing never
\* violates a unique constraint (_store_parsed_filing, _record_failed_filing).
THEOREM LoneNoConflict == Spec => []LoneNeverConflicts
<1>1. LoneInv => LoneNeverConflicts
  BY DEF LoneInv, LoneNeverConflicts
<1>2. QED
  BY <1>1, LoneHolds, PTL

\* The end of a session that overlaps no other one of its filing is a step of the
\* ledger, or changes nothing: its statements, its rollback and its death are atomic.
THEOREM LoneSessionsAreAtomic == Spec => LoneIsAtomic
<1> DEFINE L == [f \in Filings |-> Recorded(f)]
<1>1. Inv /\ LoneInv /\ [Next]_vars =>
        [(\E s \in Sessions \ met : pc[s] # "idle" /\ pc'[s] = "idle") => Ledger!Next \/ UNCHANGED L]_vars
  <2> SUFFICES ASSUME Inv, LoneInv, Next,
                      NEW s \in Sessions \ met, pc[s] # "idle", pc'[s] = "idle"
               PROVE  Ledger!Next \/ UNCHANGED L
    OBVIOUS
  <2>1. entry[s] \in Filings
    BY DEF Inv, TypeOK, SlotsInv
  <2>2. CASE CommitParsed(s)
    <3>1. status[entry[s]] # "parsed"
      BY <2>2 DEF CommitParsed, Inv, SeenInv, LoneInv
    <3>2. \A f \in Filings : Recorded(f)' = IF f = entry[s] THEN "complete" ELSE Recorded(f)
      BY <2>1, <2>2 DEF CommitParsed, Inv, TypeOK, Recorded
    <3>3. Ledger!Complete(entry[s])
      BY <2>1, <3>1, <3>2 DEF Ledger!Complete, Recorded
    <3>4. QED
      BY <2>1, <3>3 DEF Ledger!Next
  <2>3. CASE CommitFailed(s) /\ seen[s] = "absent"
    <3>1. status[entry[s]] = "absent" /\ entry[s] \notin rows
      BY <2>1, <2>3 DEF CommitFailed, Inv, LoneInv, RowsOnlyWhenParsed
    <3>2. \A f \in Filings : Recorded(f)' = IF f = entry[s] THEN "failed" ELSE Recorded(f)
      BY <2>1, <2>3, <3>1 DEF CommitFailed, Inv, TypeOK, Recorded
    <3>3. Recorded(entry[s]) = "absent"
      BY <3>1 DEF Recorded
    <3>4. Ledger!RecordFailure(entry[s])
      BY <2>1, <3>2, <3>3 DEF Ledger!RecordFailure
    <3>5. QED
      BY <2>1, <3>4 DEF Ledger!Next
  <2>4. CASE CommitFailed(s) /\ seen[s] # "absent"
    <3>1. status[entry[s]] # "parsed" /\ entry[s] \notin rows
      BY <2>1, <2>4 DEF CommitFailed, Inv, LoneInv, SeenInv, RowsOnlyWhenParsed
    <3>2. UNCHANGED <<status, rows>>
      BY <2>4, <3>1 DEF CommitFailed
    <3>3. QED
      BY <3>2 DEF Recorded
  <2>5. CASE UNCHANGED <<status, rows>>
    BY <2>5 DEF Recorded
  <2>6. UNCHANGED <<status, rows>> \/ \E o \in Sessions : (CommitParsed(o) \/ CommitFailed(o))
    BY DEF Next, Advance, Wait, StartLog, SelectExisting, Fetch, DeleteRows, FlushFiling,
           InsertRows, CommitSkipped, CommitRaised, RollBack, DeadlockVictim,
           Fail, Crash, Break, database
  <2>7. ASSUME NEW o \in Sessions, CommitParsed(o) \/ CommitFailed(o)
        PROVE  o = s
    <3>1. pc' = [pc EXCEPT ![o] = "idle"]
      BY <2>7 DEF CommitParsed, CommitFailed, Release
    <3>2. QED
      BY <3>1 DEF Inv, TypeOK
  <2>8. QED
    BY <2>2, <2>3, <2>4, <2>5, <2>6, <2>7
<1>2. QED
  BY <1>1, InvHolds, LoneHolds, PTL DEF Spec, LoneIsAtomic
=============================================================================
