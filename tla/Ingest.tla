------------------------------- MODULE Ingest -------------------------------
(***************************************************************************)
(* The ingestion of one filing by one database session                     *)
(* (ingestion/storage.py, ingest_index_entry), at the grain of its SQL     *)
(* statements, for any number of sessions that overlap.  Sessions overlap  *)
(* because the scheduler starts every job as a task of its own and does    *)
(* not wait for the one before: an hourly update that outlasts its hour, or *)
(* the nightly reconciliation, meets the same filings in other sessions.   *)
(*                                                                         *)
(* A session works in one PostgreSQL transaction, READ COMMITTED: what it  *)
(* writes is invisible to the others until its commit, a statement sees    *)
(* what is committed when it runs, and a write waits for the transaction   *)
(* that holds the row.  status, rows and logs are the committed tables; the *)
(* uncommitted writes of a session are implied by pc, seen, holding and    *)
(* cleared.                                                                *)
(***************************************************************************)
EXTENDS FiniteSets

CONSTANTS
    Filings,    \* accession numbers; each stands for a filing with transactions
    Sessions,   \* slots for the sessions that may be open at the same time
    None        \* the entry of a slot that has no session open

ASSUME NoneIsNotAFiling == None \notin Filings

VARIABLES
    status,     \* sec_ownership_filings.parse_status, "absent" without a row
    rows,       \* filings whose transaction rows are in sec_insider_transactions
    logs,       \* the kinds of completed rows each filing has in sec_ingestion_logs
    pc,         \* where each session stands
    entry,      \* the index entry the session ingests
    seen,       \* parse_status of "existing", the object the SELECT loaded
    holding,    \* sessions whose transaction wrote their filing's row: they lock it
    cleared,    \* sessions whose transaction deleted their filing's transaction rows
    met         \* history: sessions that overlap, or have, another one of their filing

database == <<status, rows, logs>>
session  == <<pc, entry, seen, holding, cleared, met>>
vars     == <<status, rows, logs, pc, entry, seen, holding, cleared, met>>

LogKinds == {"success", "skipped", "failed"}

\* Control states in which a session still works for its entry; "conflicted"
\* and "broken" are those of a transaction the database has already aborted.
Working == {"started", "fetching", "skipping", "storing", "failing", "writing",
            "recording", "inserting", "stored", "failed", "raising"}
Aborted == {"conflicted", "broken"}

----------------------------------------------------------------------------
(* Locks and the end of a transaction                                      *)

\* No other open transaction has written the filing's row.
RowFree(s) == \A o \in holding \ {s} : entry[o] # entry[s]

\* No other open transaction has deleted the filing's transaction rows.
DeletionFree(s) == \A o \in cleared \ {s} : entry[o] # entry[s]

\* The transaction is over: its locks are gone and its slot is free.
Release(s) ==
    /\ pc' = [pc EXCEPT ![s] = "idle"]
    /\ entry' = [entry EXCEPT ![s] = None]
    /\ seen' = [seen EXCEPT ![s] = "absent"]
    /\ holding' = holding \ {s}
    /\ cleared' = cleared \ {s}
    /\ met' = met \ {s}

\* A statement failed: the server aborts the transaction and frees its locks,
\* while the coroutine has still to find out.
Break(s, how) ==
    /\ pc' = [pc EXCEPT ![s] = how]
    /\ holding' = holding \ {s}
    /\ cleared' = cleared \ {s}
    /\ UNCHANGED <<status, rows, logs, entry, seen, met>>

Log(f, kind) == logs' = [logs EXCEPT ![f] = @ \cup {kind}]

----------------------------------------------------------------------------
(* Plausible mistakes.  Each definition replaces the action it is named    *)
(* after when the properties are tested; the specification uses none.      *)

\* The SELECT asks for parsed filings only.
SelectExisting_ParsedOnly(s) ==
    /\ pc[s] = "started"
    /\ seen' = [seen EXCEPT ![s] = IF status[entry[s]] = "parsed" THEN "parsed" ELSE "absent"]
    /\ pc' = [pc EXCEPT ![s] = IF status[entry[s]] = "parsed" THEN "skipping" ELSE "fetching"]
    /\ UNCHANGED <<status, rows, logs, entry, holding, cleared, met>>

\* Any filing that exists is skipped, the failed ones too.
SelectExisting_SkipFailed(s) ==
    /\ pc[s] = "started"
    /\ seen' = [seen EXCEPT ![s] = status[entry[s]]]
    /\ pc' = [pc EXCEPT ![s] = IF status[entry[s]] # "absent" THEN "skipping" ELSE "fetching"]
    /\ UNCHANGED <<status, rows, logs, entry, holding, cleared, met>>

\* The log row of a skipped filing is never completed.
CommitSkipped_LogOpen(s) ==
    /\ pc[s] = "skipping"
    /\ Log(entry[s], "started")
    /\ Release(s)
    /\ UNCHANGED <<status, rows>>

\* Rows are stored only with a new filing.
CommitParsed_NewOnly(s) ==
    /\ pc[s] = "stored"
    /\ status' = [status EXCEPT ![entry[s]] = "parsed"]
    /\ rows' = IF seen[s] = "absent" THEN rows \cup {entry[s]} ELSE rows
    /\ Log(entry[s], "success")
    /\ Release(s)

\* A repeated failure writes parse_status again.
CommitFailed_AnyStatus(s) ==
    /\ pc[s] = "failed"
    /\ status' = [status EXCEPT ![entry[s]] = "failed"]
    /\ rows' = IF s \in cleared THEN rows \ {entry[s]} ELSE rows
    /\ Log(entry[s], "failed")
    /\ Release(s)

\* The log row of a failure that is recorded is never completed.
CommitFailed_LogOpen(s) ==
    /\ pc[s] = "failed"
    /\ status' = IF seen[s] = "absent" THEN [status EXCEPT ![entry[s]] = "failed"] ELSE status
    /\ rows' = IF s \in cleared THEN rows \ {entry[s]} ELSE rows
    /\ Log(entry[s], "started")
    /\ Release(s)

\* Only the violation of a constraint is handled; other errors leave the session open.
RollBack_ConflictOnly(s) ==
    /\ pc[s] = "conflicted"
    /\ Release(s)
    /\ UNCHANGED database

----------------------------------------------------------------------------

Init ==
    /\ status = [f \in Filings |-> "absent"]
    /\ rows = {}
    /\ logs = [f \in Filings |-> {}]
    /\ pc = [s \in Sessions |-> "idle"]
    /\ entry = [s \in Sessions |-> None]
    /\ seen = [s \in Sessions |-> "absent"]
    /\ holding = {}
    /\ cleared = {}
    /\ met = {}

\* The other sessions that are open for the filing.
Others(s, f) == {o \in Sessions \ {s} : entry[o] = f}

\* A session is opened for an index entry and flushes its "started" log row.
StartLog(s, f) ==
    /\ pc[s] = "idle"
    /\ pc' = [pc EXCEPT ![s] = "started"]
    /\ entry' = [entry EXCEPT ![s] = f]
    /\ met' = IF Others(s, f) = {} THEN met ELSE met \cup Others(s, f) \cup {s}
    /\ UNCHANGED <<status, rows, logs, seen, holding, cleared>>

\* The SELECT by accession number; everything later relies on what it returned.
SelectExisting(s) ==
    /\ pc[s] = "started"
    /\ seen' = [seen EXCEPT ![s] = status[entry[s]]]
    /\ pc' = [pc EXCEPT ![s] = IF status[entry[s]] = "parsed" THEN "skipping" ELSE "fetching"]
    /\ UNCHANGED <<status, rows, logs, entry, holding, cleared, met>>

\* The GET, with its retries, and the parser: a filing, an OwnershipParseError,
\* or an exception.  A failed filing seen before has its rows deleted first.
Fetch(s) ==
    /\ pc[s] = "fetching"
    /\ \/ pc' = [pc EXCEPT ![s] = IF seen[s] = "failed" THEN "storing" ELSE "writing"]
       \/ pc' = [pc EXCEPT ![s] = IF seen[s] = "failed" THEN "failing" ELSE "recording"]
       \/ pc' = [pc EXCEPT ![s] = "raising"]
    /\ UNCHANGED <<status, rows, logs, entry, seen, holding, cleared, met>>

\* DELETE of the transaction rows of the existing filing; the sessions have no
\* autoflush, so the filing's row is written after it.  After another failure
\* the flush writes only the columns that differ from the loaded
\* object, so parse_status stays out of it, and there may be nothing to write.
DeleteRows(s) ==
    /\ pc[s] \in {"storing", "failing"}
    /\ DeletionFree(s)
    /\ cleared' = IF entry[s] \in rows THEN cleared \cup {s} ELSE cleared
    /\ \/ pc[s] = "storing" /\ pc' = [pc EXCEPT ![s] = "writing"]
       \/ pc[s] = "failing" /\ \E next \in {"recording", "failed"} : pc' = [pc EXCEPT ![s] = next]
    /\ UNCHANGED <<status, rows, logs, entry, seen, holding, met>>

\* The flush of the filing's row, an INSERT or an UPDATE, which waits for a
\* transaction that wrote the row; the INSERT violates the unique accession
\* number when another session committed the filing after this one's SELECT.
FlushFiling(s) ==
    /\ pc[s] \in {"writing", "recording"}
    /\ RowFree(s)
    /\ IF seen[s] = "absent" /\ status[entry[s]] # "absent"
       THEN Break(s, "conflicted")
       ELSE /\ pc' = [pc EXCEPT ![s] = IF @ = "writing" THEN "inserting" ELSE "failed"]
            /\ holding' = holding \cup {s}
            /\ UNCHANGED <<status, rows, logs, entry, seen, cleared, met>>

\* The flush of the transaction rows, which waits for a transaction that
\* deletes rows of the same keys, and violates their uniqueness when committed
\* rows are there that this session has not deleted.
InsertRows(s) ==
    /\ pc[s] = "inserting"
    /\ DeletionFree(s)
    /\ IF entry[s] \in rows /\ s \notin cleared
       THEN Break(s, "conflicted")
       ELSE /\ pc' = [pc EXCEPT ![s] = "stored"]
            /\ UNCHANGED <<status, rows, logs, entry, seen, holding, cleared, met>>

----------------------------------------------------------------------------
(* The commit of the caller, after a return or an exception                *)

CommitSkipped(s) ==
    /\ pc[s] = "skipping"
    /\ Log(entry[s], "skipped")
    /\ Release(s)
    /\ UNCHANGED <<status, rows>>

CommitParsed(s) ==
    /\ pc[s] = "stored"
    /\ status' = [status EXCEPT ![entry[s]] = "parsed"]
    /\ rows' = rows \cup {entry[s]}
    /\ Log(entry[s], "success")
    /\ Release(s)

\* A parse failure is committed with its log row; parse_status is written only
\* by the INSERT, the deletion of rows whether or not the filing still failed.
CommitFailed(s) ==
    /\ pc[s] = "failed"
    /\ status' = IF seen[s] = "absent" THEN [status EXCEPT ![entry[s]] = "failed"] ELSE status
    /\ rows' = IF s \in cleared THEN rows \ {entry[s]} ELSE rows
    /\ Log(entry[s], "failed")
    /\ Release(s)

\* An exception of the client or the parser: the caller commits the log row
\* and raises, which ends its run.
CommitRaised(s) ==
    /\ pc[s] = "raising"
    /\ Log(entry[s], "failed")
    /\ Release(s)
    /\ UNCHANGED <<status, rows>>

\* After a failed statement the same commit raises in its turn: everything is
\* rolled back, the log row included.
RollBack(s) ==
    /\ pc[s] \in Aborted
    /\ Release(s)
    /\ UNCHANGED database

----------------------------------------------------------------------------
(* The environment                                                         *)

\* s waits for o's deletion of rows and o for s's filing row; the database
\* aborts either of them.
DeadlockVictim(s) ==
    /\ \E inserter \in holding, deleter \in cleared :
          /\ entry[inserter] = entry[deleter]
          /\ pc[inserter] = "inserting"
          /\ pc[deleter] \in {"writing", "recording"}
          /\ s \in {inserter, deleter}
    /\ Break(s, "broken")

\* A statement fails for a reason of its own: the connection is lost, the
\* server is restarted.
Fail(s) ==
    /\ pc[s] \in Working
    /\ Break(s, "broken")

\* The worker dies, and every open transaction with it.
Crash ==
    /\ \E s \in Sessions : pc[s] # "idle"
    /\ pc' = [s \in Sessions |-> "idle"]
    /\ entry' = [s \in Sessions |-> None]
    /\ seen' = [s \in Sessions |-> "absent"]
    /\ holding' = {}
    /\ cleared' = {}
    /\ met' = {}
    /\ UNCHANGED database

----------------------------------------------------------------------------

\* Steps that only need the event loop and the server to go on ...
Advance(s) ==
    \/ SelectExisting(s)
    \/ Fetch(s)
    \/ CommitSkipped(s)
    \/ CommitParsed(s)
    \/ CommitFailed(s)
    \/ CommitRaised(s)
    \/ RollBack(s)
    \/ DeadlockVictim(s)

\* ... and the statements that may have to wait for another transaction.
Wait(s) == DeleteRows(s) \/ FlushFiling(s) \/ InsertRows(s)

Next ==
    \/ \E s \in Sessions, f \in Filings : StartLog(s, f)
    \/ \E s \in Sessions : Advance(s) \/ Wait(s) \/ Fail(s)
    \/ Crash

Spec == Init /\ [][Next]_vars

\* The event loop runs every task that is ready, the server completes every
\* statement it can, and PostgreSQL queues the transactions that wait for a
\* row, so that one of them is not passed over for ever.
FairSpec ==
    /\ Spec
    /\ \A s \in Sessions : WF_vars(Advance(s)) /\ SF_vars(Wait(s))

----------------------------------------------------------------------------
(* Properties                                                              *)

\* The types of the tables and of the sessions' states
\* (models.py, ingest_index_entry).
TypeOK ==
    /\ status \in [Filings -> {"absent", "failed", "parsed"}]
    /\ rows \subseteq Filings
    /\ logs \in [Filings -> SUBSET LogKinds]
    /\ pc \in [Sessions -> {"idle"} \cup Working \cup Aborted]
    /\ entry \in [Sessions -> Filings \cup {None}]
    /\ seen \in [Sessions -> {"absent", "failed", "parsed"}]
    /\ holding \subseteq Sessions
    /\ cleared \subseteq Sessions
    /\ met \subseteq Sessions

\* The views and the API read transactions without their filing's status:
\* whatever sessions overlap, transaction rows are stored only for a filing
\* whose status is parsed (_store_parsed_filing, _record_failed_filing).
RowsOnlyWhenParsed == \A f \in rows : status[f] = "parsed"

\* The ingestion log can be believed: a filing has a success row exactly when
\* it is parsed, a skipped row only if it is, and no recorded failure is
\* without its failed row (mark_ingestion_* and the caller's commit).
LogsTellTheTruth ==
    \A f \in Filings :
        /\ "success" \in logs[f] <=> status[f] = "parsed"
        /\ "skipped" \in logs[f] => status[f] = "parsed"
        /\ status[f] = "failed" => "failed" \in logs[f]

\* A session that still believes the filing failed never takes back the parsed
\* status another one has committed, nor is a recorded failure forgotten.
StatusNeverRegresses ==
    [][\A f \in Filings :
          /\ status[f] = "parsed" => status'[f] = "parsed"
          /\ status[f] = "failed" => status'[f] # "absent"]_vars

\* A session that overlaps no other one of its filing never violates a unique
\* constraint, so that no run ends because of it, whatever sessions that did
\* overlap have left behind (FlushFiling and InsertRows above).
LoneNeverConflicts == \A s \in Sessions \ met : pc[s] # "conflicted"

\* A parsed filing keeps its transaction rows.
ParsedKeepsRows == \A f \in Filings : status[f] = "parsed" => f \in rows

\* Sessions that wait for each other's locks all end, deadlocks included.
SessionsFinish == \A s \in Sessions : pc[s] # "idle" ~> pc[s] = "idle"

----------------------------------------------------------------------------
(* A session that is alone with its filing implements the ledger           *)

\* What the tables say of a filing; "partial" is nothing the ledger knows.
Recorded(f) ==
    CASE status[f] = "parsed" /\ f \in rows    -> "complete"
      [] status[f] = "failed" /\ f \notin rows -> "failed"
      [] status[f] = "absent" /\ f \notin rows -> "absent"
      [] OTHER                                 -> "partial"

Ledger == INSTANCE FilingLedger WITH ledger <- [f \in Filings |-> Recorded(f)]

\* The end of a session that overlaps no other one of its filing, whether it
\* commits, is rolled back or dies, is a step of the ledger or changes nothing:
\* never a filing that is parsed without its rows, even on top of what sessions
\* that did overlap have left (ingest_index_entry and its caller's commit).
LoneIsAtomic ==
    [][(\E s \in Sessions \ met : pc[s] # "idle" /\ pc'[s] = "idle")
          => Ledger!Next \/ UNCHANGED [f \in Filings |-> Recorded(f)]]_vars

----------------------------------------------------------------------------
(* What remains of that when sessions overlap                              *)

\* The status alone, as the jobs read it: they skip what is parsed and try again
\* what has failed.
StatusLedger ==
    INSTANCE FilingLedger
    WITH ledger <- [f \in Filings |-> IF status[f] = "parsed" THEN "complete" ELSE status[f]]

\* Sessions that overlap can lose the rows of a parsed filing only if it had failed
\* before, and the log has a failure of each filing that may have lost them
\* (the DELETE of _record_failed_filing).
UnfailedKeepRows ==
    \A f \in Filings : status[f] = "parsed" /\ f \notin rows => "failed" \in logs[f]
=============================================================================
