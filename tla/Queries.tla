------------------------------- MODULE Queries -------------------------------
(***************************************************************************)
(* The read side (api/queries.py) beside a worker that commits filings.    *)
(* A request is answered by one statement or by several in one session;    *)
(* PostgreSQL's READ COMMITTED gives each statement a snapshot of its own, *)
(* so what the worker commits between two statements is seen by the second *)
(* alone.  The endpoints of one statement return what one snapshot holds.  *)
(*                                                                         *)
(* The worker is one session at a time here: a filing goes from unknown to *)
(* failed or parsed, and from failed to parsed, with its rows in the same  *)
(* commit.  (What overlapping sessions can do to a filing is in Ingest.)   *)
(***************************************************************************)
EXTENDS Integers, Sequences, FiniteSets

CONSTANTS
    Filing,
    Rows,           \* the transactions of each filing
    None

VARIABLES
    status,         \* sec_ownership_filings.parse_status, "unknown" without a row
    complete,       \* sec_backfill_state.backfill_complete
    request,        \* the request that is being answered, or None
    answer          \* what its statements have returned so far

storage == <<status, complete>>
queryVars == <<request, answer>>

ASSUME QueriesAssumption ==
    /\ IsFiniteSet(Filing)
    /\ \A f \in Filing : IsFiniteSet(Rows[f])

Parsed == {f \in Filing : status[f] = "parsed"}
Stored == UNION {Rows[f] : f \in Parsed}

----------------------------------------------------------------------------
(* Plausible mistakes, for the tests of the properties                     *)

\* The rows of a filing are read before the filing, or counted before it.
Statements_RowsFirst(r) ==
    IF r.kind = "detail" THEN <<"transactions", "filing">>
                         ELSE <<"transactions", "filings", "backfill">>

----------------------------------------------------------------------------

StorageInit ==
    /\ status = [f \in Filing |-> "unknown"]
    /\ complete = FALSE

\* The worker commits a filing: its row, and the transactions if it was parsed.
CommitFiling(f, outcome) ==
    /\ f \notin Parsed
    /\ status' = [status EXCEPT ![f] = outcome]
    /\ UNCHANGED complete

CommitComplete ==
    /\ complete' = TRUE
    /\ UNCHANGED status

\* filing_detail and summary: their statements, in their order.
Statements(r) ==
    IF r.kind = "detail" THEN <<"filing", "transactions">>
                         ELSE <<"filings", "transactions", "backfill">>

\* What a statement of the request returns from the snapshot it is run in.
Result(r, statement) ==
    CASE statement = "filing" -> status[r.accession]
      [] statement = "transactions" ->
            IF r.kind = "detail" THEN IF r.accession \in Parsed THEN Rows[r.accession] ELSE {}
                                 ELSE Stored
      [] statement = "filings" -> Parsed
      [] statement = "backfill" -> complete

Answered == request # None /\ Len(answer) = Len(Statements(request))

\* What the named statement of the request has returned.
Returned(statement) ==
    answer[CHOOSE i \in DOMAIN answer : Statements(request)[i] = statement]

QueryInit == request = None /\ answer = <<>>

Ask ==
    /\ request = None \/ Answered
    /\ request' \in [kind : {"detail"}, accession : Filing] \cup [kind : {"summary"}]
    /\ answer' = <<>>

\* The next statement; without a filing the detail is answered with None (404).
Execute ==
    /\ request # None /\ ~Answered
    /\ LET statement == Statements(request)[Len(answer) + 1]
           result == Result(request, statement)
       IN  IF statement = "filing" /\ result = "unknown"
           THEN request' = None /\ answer' = <<>>
           ELSE request' = request /\ answer' = Append(answer, result)

----------------------------------------------------------------------------
(* Properties                                                              *)

\* A filing that is reported as parsed comes with all its transactions, though
\* the worker may commit it between the two statements of filing_detail: as long
\* as one session at a time ingests it, for overlapping ones may delete its rows.
\* (The converse does not hold: a filing reported as failed may come with rows.)
ParsedComesWithRows ==
    Answered /\ request.kind = "detail" =>
        (Returned("filing") = "parsed" => Returned("transactions") = Rows[request.accession])

\* The transactions that summary counts include those of every filing it counts
\* as parsed, so that no total falls short of the filings it is shown beside.
SummaryCoversFilings ==
    Answered /\ request.kind = "summary" =>
        UNION {Rows[f] : f \in Returned("filings")} \subseteq Returned("transactions")
=============================================================================
