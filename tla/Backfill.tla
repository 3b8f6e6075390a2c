------------------------------ MODULE Backfill ------------------------------
(***************************************************************************)
(* The historical backfill (ingestion/backfill.py, bulk_dataset.py and     *)
(* checkpoints.py): quarter by quarter, from SEC's bulk dataset where it   *)
(* is served and else filing by filing from the quarter's index, with a    *)
(* persistent cursor so that a restarted worker resumes.                   *)
(*                                                                         *)
(* status, cursor and complete are the database and survive a crash; every *)
(* other variable of the worker is a local of its coroutines.  A filing is *)
(* ingested in the transaction that moves the cursor, so that is one step; *)
(* Ingest models what happens inside.  No other job ingests before the     *)
(* backfill is complete.                                                   *)
(*                                                                         *)
(* bulk_dataset.py calls normalize_ticker_symbol, which it never imports:  *)
(* a batch with a filing that is not parsed yet raises NameError, which    *)
(* ends the process, and only a batch that is all parsed goes through.     *)
(*                                                                         *)
(* Three things of SEC's and the world's change meanwhile: filings are     *)
(* published into an index that is sorted by company, so anywhere in it; a *)
(* dataset is served or not, each time it is asked for; quarters begin.    *)
(***************************************************************************)
EXTENDS Naturals, Sequences, FiniteSets

CONSTANTS
    Filings,        \* accession numbers
    None,           \* a cursor without accession number
    LastQuarter,    \* the bound of the calendar: quarters count from BACKFILL_START_YEAR
    Index,          \* Index[q]: the entries of q's master index, in order, repetitions included
    Late,           \* filings that are published while the backfill goes on
    BulkQuarters,   \* quarters not before BULK_DATASET_MIN_YEAR
    Dataset,        \* Dataset[q]: the accession numbers of q's bulk dataset, in order
    BatchSize       \* BULK_BATCH_SIZE

Quarters == 1 .. LastQuarter

ASSUME QuartersAssumption ==
    /\ LastQuarter \in Nat \ {0}
    /\ BulkQuarters \subseteq Quarters
    /\ BatchSize \in Nat \ {0}

ASSUME FilingsAssumption ==
    /\ None \notin Filings
    /\ Late \subseteq Filings
    /\ Index \in [Quarters -> Seq(Filings)]
    /\ Dataset \in [BulkQuarters -> Seq(Filings)]

\* SEC lists a filing under its filing date, so in one quarter, in the dataset as in the index.
ASSUME OneQuarterPerFiling ==
    /\ \A q, r \in Quarters : \A n \in DOMAIN Index[q], m \in DOMAIN Index[r] :
          Index[q][n] = Index[r][m] => q = r
    /\ \A q \in BulkQuarters, r \in Quarters : \A i \in DOMAIN Dataset[q], m \in DOMAIN Index[r] :
          Dataset[q][i] = Index[r][m] => q = r

\* The code takes a dataset in place of the index: it has to hold what the index lists.
ASSUME DatasetCoversIndex ==
    \A q \in BulkQuarters : \A p \in DOMAIN Index[q] :
        Index[q][p] \notin Late => \E i \in DOMAIN Dataset[q] : Dataset[q][i] = Index[q][p]

VARIABLES
    status,     \* parse_status of each filing, "absent" without a row
    cursor,     \* last_year and last_quarter (0: NULL), last_accession
    complete,   \* backfill_complete
    published,  \* the late filings that SEC's index lists by now
    current,    \* the quarter of today
    pc,         \* where the worker stands
    last,       \* the last quarter of the list that the latest run went through
    quarter,    \* (year, quarter) of the loop of BackfillRunner.run
    resume,     \* resume_year and resume_quarter, resume_accession
    index,      \* the filings in the index that was downloaded
    pos,        \* the next entry of the index, or of the dataset
    skipping,   \* should_skip
    took        \* last_accession is not None

database == <<status, cursor, complete>>
world    == <<published, current>>
worker   == <<pc, last, quarter, resume, index, pos, skipping, took>>
vars     == <<status, cursor, complete, published, current,
              pc, last, quarter, resume, index, pos, skipping, took>>

Cursors == [quarter : 0 .. LastQuarter, accession : Filings \cup {None}]
NoCursor == [quarter |-> 0, accession |-> None]

\* What an index downloaded now would list.
Visible == (Filings \ Late) \cup published

\* resume_accession as _backfill_quarter receives it.
ResumeAccession == IF quarter = resume.quarter THEN resume.accession ELSE None

Checkpoint(accession) == cursor' = [quarter |-> quarter, accession |-> accession]

\* batch_accessions: the dataset's entries from pos on, the last batch being shorter.
BatchEnd ==
    IF pos + BatchSize - 1 <= Len(Dataset[quarter]) THEN pos + BatchSize - 1 ELSE Len(Dataset[quarter])
Batch == {Dataset[quarter][i] : i \in pos .. BatchEnd}

\* The process ends, at a crash or at an exception, and leaves only the database.
Die(how) ==
    /\ pc' = how
    /\ quarter' = 0
    /\ resume' = NoCursor
    /\ index' = {}
    /\ pos' = 0
    /\ skipping' = FALSE
    /\ took' = FALSE
    /\ UNCHANGED last

Down == pc \in {"crashed", "raised"}

\* The loop goes to the next quarter, and resume_accession is spent.
NextQuarter ==
    /\ pc' = "quarter"
    /\ quarter' = quarter + 1
    /\ resume' = [resume EXCEPT !.accession = None]
    /\ UNCHANGED <<last, index, pos, skipping, took>>

----------------------------------------------------------------------------
(* Plausible mistakes.  Each definition replaces the action it is named    *)
(* after when the properties are tested; the specification uses none.      *)

\* The run resumes after the cursor's quarter ("<=" for "<").
Boot_AfterCursor ==
    /\ Down
    /\ IF complete
       THEN pc' = "done" /\ UNCHANGED <<last, quarter, resume>>
       ELSE /\ pc' = "quarter"
            /\ last' = current
            /\ quarter' = cursor.quarter + 1
            /\ resume' = cursor
    /\ UNCHANGED <<status, cursor, complete, published, current, index, pos, skipping, took>>

\* The run starts again at the first quarter.
Boot_FromFirst ==
    /\ Down
    /\ IF complete
       THEN pc' = "done" /\ UNCHANGED <<last, quarter, resume>>
       ELSE /\ pc' = "quarter"
            /\ last' = current
            /\ quarter' = 1
            /\ resume' = cursor
    /\ UNCHANGED <<status, cursor, complete, published, current, index, pos, skipping, took>>

\* A dataset that is not there counts as one that is empty.
FetchDataset_404IsDone ==
    /\ pc = "quarter"
    /\ quarter <= last
    /\ IF quarter \in BulkQuarters
       THEN \/ pc' = "bulk" /\ pos' = 1 /\ UNCHANGED <<last, quarter, resume, index, skipping, took>>
            \/ NextQuarter
       ELSE pc' = "index" /\ UNCHANGED <<last, quarter, resume, index, pos, skipping, took>>
    /\ UNCHANGED <<database, world>>

\* The batch is stored, as with the import of normalize_ticker_symbol.
BulkBatch_Imported ==
    /\ pc = "bulk"
    /\ pos <= Len(Dataset[quarter])
    /\ status' = [f \in Filings |-> IF f \in Batch THEN "parsed" ELSE status[f]]
    /\ Checkpoint(Dataset[quarter][BatchEnd])
    /\ pos' = BatchEnd + 1
    /\ UNCHANGED <<complete, published, current, pc, last, quarter, resume, index, skipping, took>>

\* The next batch begins with the last filing of this one.
BulkBatch_NoAdvance ==
    /\ pc = "bulk"
    /\ pos <= Len(Dataset[quarter])
    /\ \/ /\ \A f \in Batch : status[f] = "parsed"
          /\ Checkpoint(Dataset[quarter][BatchEnd])
          /\ pos' = BatchEnd
          /\ UNCHANGED <<pc, last, quarter, resume, index, skipping, took>>
       \/ /\ \E f \in Batch : status[f] # "parsed"
          /\ Die("raised")
          /\ UNCHANGED cursor
    /\ UNCHANGED <<status, complete, published, current>>

\* A parsed filing is fetched again.
IngestEntry_Reparse ==
    /\ pc = "entries"
    /\ pos <= Len(Index[quarter])
    /\ Index[quarter][pos] \in index
    /\ ~skipping
    /\ \E outcome \in {"parsed", "failed"} :
          status' = [status EXCEPT ![Index[quarter][pos]] = outcome]
    /\ Checkpoint(Index[quarter][pos])
    /\ pos' = pos + 1
    /\ took' = TRUE
    /\ UNCHANGED <<complete, published, current, pc, last, quarter, resume, index, skipping>>

\* The checkpoint of a quarter without new entries already names the next quarter.
EndIndex_CheckpointNext ==
    /\ pc = "entries"
    /\ pos > Len(Index[quarter])
    /\ IF took
       THEN UNCHANGED cursor
       ELSE cursor' = [quarter |-> quarter + 1, accession |-> None]
    /\ NextQuarter
    /\ UNCHANGED <<status, complete, published, current>>

----------------------------------------------------------------------------

Init ==
    /\ status = [f \in Filings |-> "absent"]
    /\ cursor = NoCursor
    /\ complete = FALSE
    /\ published = {}
    /\ current \in Quarters
    /\ pc = "crashed"
    /\ last = 0
    /\ quarter = 0
    /\ resume = NoCursor
    /\ index = {}
    /\ pos = 0
    /\ skipping = FALSE
    /\ took = FALSE

\* The worker starts: it is past the backfill, or it lists the quarters up to
\* today's, reads the cursor and continues at the quarter the cursor names.
Boot ==
    /\ Down
    /\ IF complete
       THEN pc' = "done" /\ UNCHANGED <<last, quarter, resume>>
       ELSE /\ pc' = "quarter"
            /\ last' = current
            /\ quarter' = IF cursor.quarter = 0 THEN 1 ELSE cursor.quarter
            /\ resume' = cursor
    /\ UNCHANGED <<status, cursor, complete, published, current, index, pos, skipping, took>>

\* The bulk dataset is asked for.  SEC serves it, or the answer is a 404: then,
\* as for too early a year, the index is taken.
FetchDataset ==
    /\ pc = "quarter"
    /\ quarter <= last
    /\ \/ quarter \in BulkQuarters /\ pc' = "bulk" /\ pos' = 1
       \/ pc' = "index" /\ UNCHANGED pos
    /\ UNCHANGED <<status, cursor, complete, published, current,
                   last, quarter, resume, index, skipping, took>>

\* One batch.  If all of it is parsed the cursor names its last filing; else
\* the row of the first other filing cannot be made (NameError), the
\* transaction is rolled back and the process ends.
BulkBatch ==
    /\ pc = "bulk"
    /\ pos <= Len(Dataset[quarter])
    /\ \/ /\ \A f \in Batch : status[f] = "parsed"
          /\ Checkpoint(Dataset[quarter][BatchEnd])
          /\ pos' = BatchEnd + 1
          /\ UNCHANGED <<pc, last, quarter, resume, index, skipping, took>>
       \/ /\ \E f \in Batch : status[f] # "parsed"
          /\ Die("raised")
          /\ UNCHANGED cursor
    /\ UNCHANGED <<status, complete, published, current>>

BulkEnd ==
    /\ pc = "bulk"
    /\ pos > Len(Dataset[quarter])
    /\ NextQuarter
    /\ UNCHANGED <<database, world>>

\* The quarter's index is downloaded; its entries up to the cursor are skipped.
FetchIndex ==
    /\ pc = "index"
    /\ pc' = "entries"
    /\ index' = Visible
    /\ pos' = 1
    /\ skipping' = (ResumeAccession # None)
    /\ took' = FALSE
    /\ UNCHANGED <<status, cursor, complete, published, current, last, quarter, resume>>

\* An entry is not in the downloaded index, or not after the cursor's.
SkipEntry ==
    /\ pc = "entries"
    /\ pos <= Len(Index[quarter])
    /\ Index[quarter][pos] \notin index \/ skipping
    /\ skipping' = (skipping /\ ~(Index[quarter][pos] \in index
                                   /\ Index[quarter][pos] = ResumeAccession))
    /\ pos' = pos + 1
    /\ UNCHANGED <<status, cursor, complete, published, current, pc, last, quarter, resume, index, took>>

\* An entry is ingested and the cursor set to it, in one commit: a parsed
\* filing is skipped, any other one becomes parsed or failed.
IngestEntry ==
    /\ pc = "entries"
    /\ pos <= Len(Index[quarter])
    /\ Index[quarter][pos] \in index
    /\ ~skipping
    /\ \E outcome \in {"parsed", "failed"} :
          status' = [status EXCEPT ![Index[quarter][pos]] = IF @ = "parsed" THEN @ ELSE outcome]
    /\ Checkpoint(Index[quarter][pos])
    /\ pos' = pos + 1
    /\ took' = TRUE
    /\ UNCHANGED <<complete, published, current, pc, last, quarter, resume, index, skipping>>

\* The index is exhausted; a quarter in which nothing was ingested gets its checkpoint here.
EndIndex ==
    /\ pc = "entries"
    /\ pos > Len(Index[quarter])
    /\ IF took THEN UNCHANGED cursor ELSE Checkpoint(ResumeAccession)
    /\ NextQuarter
    /\ UNCHANGED <<status, complete, published, current>>

\* Every quarter is done.
MarkComplete ==
    /\ pc = "quarter"
    /\ quarter > last
    /\ complete' = TRUE
    /\ pc' = "done"
    /\ UNCHANGED <<status, cursor, published, current, last, quarter, resume, index, pos, skipping, took>>

----------------------------------------------------------------------------
(* The environment                                                         *)

\* The process dies, or an exception (a request that failed for good, the
\* database) ends it; Docker starts it again.
Crash ==
    /\ ~Down
    /\ Die("crashed")
    /\ UNCHANGED <<database, world>>

PublishFiling ==
    /\ \E f \in Late \ published : published' = published \cup {f}
    /\ UNCHANGED <<database, current, worker>>

NewQuarter ==
    /\ current < LastQuarter
    /\ current' = current + 1
    /\ UNCHANGED <<database, published, worker>>

----------------------------------------------------------------------------

Work ==
    \/ Boot
    \/ FetchDataset
    \/ BulkBatch
    \/ BulkEnd
    \/ FetchIndex
    \/ SkipEntry
    \/ IngestEntry
    \/ EndIndex
    \/ MarkComplete

Next == Work \/ Crash \/ PublishFiling \/ NewQuarter

Spec == Init /\ [][Next]_vars

\* The worker runs on, and is started again after a crash (restart: unless-stopped).
FairSpec == Spec /\ WF_vars(Work)

----------------------------------------------------------------------------
(* Properties                                                              *)

Recorded(f) == status[f] # "absent"

\* Every entry of the quarter has a row, but for the filings that came late.
Covered(q) == \A p \in DOMAIN Index[q] : Index[q][p] \in Late \/ Recorded(Index[q][p])

\* The types of sec_backfill_state and of the locals of BackfillRunner.
TypeOK ==
    /\ status \in [Filings -> {"absent", "failed", "parsed"}]
    /\ cursor \in Cursors
    /\ complete \in BOOLEAN
    /\ published \subseteq Late
    /\ current \in Quarters
    /\ pc \in {"crashed", "raised", "quarter", "bulk", "index", "entries", "done"}
    /\ last \in 0 .. LastQuarter
    /\ quarter \in 0 .. LastQuarter + 1
    /\ resume \in Cursors
    /\ index \subseteq Filings
    /\ pos \in Nat
    /\ skipping \in BOOLEAN
    /\ took \in BOOLEAN

\* Whatever crashes and resumptions there were, with the dataset of a quarter
\* served at one start and not at the next, a backfill marked complete has
\* recorded every filing the indexes of its quarters listed when it started
\* (BackfillRunner.run, mark_backfill_complete).
NothingSkipped == complete => \A q \in Quarters : q <= last => Covered(q)

\* The quarters before the cursor, which the startup report counts as done
\* (_outstanding_work_estimate), are done.
EstimateSound == \A q \in Quarters : q < cursor.quarter => Covered(q)

\* An entry that a resumed run passes over because it comes before the cursor
\* was recorded by an earlier run, unless it was published since, even if the
\* cursor is that of a dataset in another order (should_skip in
\* _backfill_quarter, with the resume_accession of BackfillRunner.run).
SkippedWasRecorded ==
    pc = "entries" /\ skipping /\ pos <= Len(Index[quarter]) =>
        Index[quarter][pos] \in Late \/ Recorded(Index[quarter][pos])

\* Progress is never lost by more than the quarter at hand: no restart, and no
\* checkpoint of an empty quarter, moves the cursor to an earlier quarter.
QuarterNeverRegresses == [][cursor'.quarter >= cursor.quarter]_vars

\* The dataset of a quarter is served.
Served == pc = "quarter" /\ pc' = "bulk"

\* If the worker stops crashing and SEC serves no datasets any more the backfill
\* ends, whichever state the crashes and the datasets left behind.
BackfillCompletes == <>[][~Crash /\ ~Served]_vars => <>complete

\* README.md:3, "resumes historical backfill when needed, catches up incremental
\* filings after backfill": if the worker stops crashing the backfill ends.
\* It does not: a dataset with a filing that is not parsed stops every start
\* (normalize_ticker_symbol in _filing_row).
BackfillEnds == <>[][~Crash]_vars => <>complete

----------------------------------------------------------------------------
(* The backfill, restarts included, implements the ledger      *)

Ledger == INSTANCE FilingLedger
    WITH ledger <- [f \in Filings |-> IF status[f] = "parsed" THEN "complete" ELSE status[f]]

LedgerSpec == Ledger!Spec
=============================================================================
