------------------------------ MODULE SalesPage ------------------------------
(***************************************************************************)
(* The sales page of the web front end (salesPage of app.js): one offset   *)
(* shared by every run() of the page, the fields of the form read whenever *)
(* a request is sent and the page size again when its answer arrives,      *)
(* answers in any order; and the search behind it, search_transactions, an *)
(* OFFSET into a list that grows while the reader turns its pages.         *)
(*                                                                         *)
(* A filter, what the form has in the fields other than the page size, is  *)
(* the set of the rows it lets through.                                    *)
(*                                                                         *)
(* Requests only read, so the page and the requests of Queries are looked  *)
(* at one beside the other: a behaviour has either.                        *)
(***************************************************************************)
EXTENDS Queries, FiniteSetsExt, SequencesExt

CONSTANTS
    Key,            \* of a row: [date, filed, id], date 0 for none
    FieldValues,    \* what the reader may put into the page size, 0 for nothing
    Filters,        \* what the reader may put into the other fields
    DefaultLimit, MaxLimit,
    MaxFlight       \* bound: requests on their way

VARIABLES
    reader,         \* "page" or "queries"
    offset,
    field,          \* the page size in the form
    filter,         \* the rest of the form
    flight,         \* the requests on their way, oldest first
    screen,         \* loading, an error, or rows and the size they are paged by
    before,         \* the rows of the search stored when the first page was served
    shown,          \* the rows shown since the last search
    searched,       \* the filter of the last search
    overlapped,     \* it was sent while another request was on its way
    refiltered      \* a page was requested under another filter since

history == <<searched, overlapped, refiltered>>
pageVars == <<offset, field, filter, flight, screen, before, shown, history>>
AllRows == UNION {Rows[f] : f \in Filing}
vars == <<storage, queryVars, reader, pageVars>>

ASSUME SalesPageAssumption ==
    /\ MaxLimit \in Nat
    /\ FieldValues \subseteq Nat
    /\ Filters \subseteq SUBSET AllRows
    /\ DefaultLimit \in 1..MaxLimit
    /\ MaxFlight \in Nat \ {0}
    /\ \A f \in Filing : \A r \in Rows[f] : Key[r] \in [date : Nat, filed : Nat, id : Nat]

\* The id is the primary key of the transactions.
ASSUME KeyAssumption ==
    \A f, g \in Filing : \A r \in Rows[f], s \in Rows[g] : Key[r].id = Key[s].id => r = s

----------------------------------------------------------------------------
(* Plausible mistakes, for the tests of the properties                     *)

\* Rows of a day come in any order: t.id is missing from the ORDER BY.
Precedes_NoTieBreak(r, s) ==
    \/ Key[r].date > Key[s].date
    \/ Key[r].date = Key[s].date /\ Key[r].filed > Key[s].filed

\* The next page starts at the offset that the size in the form leads to.
NextOffset_FormSize(size) == offset + Max({field, 1})

----------------------------------------------------------------------------

\* ORDER BY t.transaction_date DESC NULLS LAST, f.filing_date DESC, t.id DESC
Precedes(r, s) ==
    \/ Key[r].date > Key[s].date
    \/ Key[r].date = Key[s].date /\ Key[r].filed > Key[s].filed
    \/ Key[r].date = Key[s].date /\ Key[r].filed = Key[s].filed /\ Key[r].id > Key[s].id

\* The lists that the ORDER BY allows.
Orders(rows) ==
    {list \in SetToSeqs(rows) : \A i, j \in DOMAIN list : Precedes(list[i], list[j]) => i < j}

\* clamp_limit; without a limit the parameter takes its default.
ClampLimit(limit) == IF limit = 0 THEN DefaultLimit ELSE Max({1, Min({limit, MaxLimit})})

\* search_transactions: LIMIT ... OFFSET ... of the ordered rows.
SearchResults(r) ==
    {SubSeq(list, r.offset + 1, Min({r.offset + ClampLimit(r.limit), Len(list)})) :
        list \in Orders(Stored \cap r.filter)}

\* run(): the parameters are those of now.
Run(from) ==
    /\ Len(flight) < MaxFlight
    /\ flight' = Append(flight, [offset |-> from, limit |-> field, filter |-> filter, rows |-> None])
    /\ screen' = [is |-> "loading"]

Rendered == screen.is = "rows"

\* The form is submitted.
Search ==
    /\ offset' = 0
    /\ Run(0)
    /\ searched' = filter /\ overlapped' = (flight # <<>>) /\ refiltered' = FALSE
    /\ before' = {} /\ shown' = {}
    /\ UNCHANGED <<field, filter>>

EditField ==
    /\ \/ field' \in FieldValues /\ UNCHANGED filter
       \/ filter' \in Filters /\ UNCHANGED field
    /\ UNCHANGED <<offset, flight, screen, before, shown, history>>

\* The server answers a request: the search is one statement.  It refuses a
\* size above the maximum.
Serve ==
    /\ \E i \in DOMAIN flight :
          /\ flight[i].rows = None
          /\ flight[i].limit <= MaxLimit
          /\ \E rows \in SearchResults(flight[i]) : flight' = [flight EXCEPT ![i].rows = rows]
          /\ before' = IF flight[i].offset = 0 THEN Stored \cap flight[i].filter ELSE before
    /\ UNCHANGED <<offset, field, filter, screen, shown, history>>

\* The answer arrives.  The size is the form's of now, and the buttons keep it.
Render ==
    /\ \E i \in DOMAIN flight :
          /\ flight[i].rows # None
          /\ screen' = [is |-> "rows", rows |-> flight[i].rows, size |-> field]
          /\ shown' = shown \cup Range(flight[i].rows)
          /\ flight' = RemoveAt(flight, i)
    /\ UNCHANGED <<offset, field, filter, before, history>>

\* The request fails, or its answer is refused.
RequestFails ==
    /\ \E i \in DOMAIN flight : flight' = RemoveAt(flight, i)
    /\ screen' = [is |-> "error"]
    /\ UNCHANGED <<offset, field, filter, before, shown, history>>

NextOffset(size) == offset + size

\* A button sends the form as it is now, submitted or not, with the offset that
\* the page has led to.
Turn(to) ==
    /\ offset' = to
    /\ Run(to)
    /\ refiltered' = (refiltered \/ filter # searched)
    /\ UNCHANGED <<field, filter, before, shown, searched, overlapped>>

\* The Next button, disabled when there are fewer rows than the size; with an
\* empty size it stays where it is.
ClickNext ==
    /\ Rendered /\ Len(screen.rows) >= screen.size
    /\ Turn(NextOffset(screen.size))

\* The Previous button, disabled on the first page.
ClickPrevious ==
    /\ Rendered /\ offset # 0
    /\ Turn(Max({0, offset - screen.size}))

\* The page is opened with a first search, of all sales.
PageInit ==
    /\ offset = 0 /\ field = DefaultLimit /\ filter = AllRows
    /\ flight = <<[offset |-> 0, limit |-> DefaultLimit, filter |-> AllRows, rows |-> None]>>
    /\ screen = [is |-> "loading"]
    /\ before = {} /\ shown = {}
    /\ searched = AllRows /\ overlapped = FALSE /\ refiltered = FALSE

PageNext ==
    Search \/ EditField \/ Serve \/ Render \/ RequestFails \/ ClickNext \/ ClickPrevious

----------------------------------------------------------------------------

Init == StorageInit /\ QueryInit /\ PageInit /\ reader \in {"page", "queries"}

\* What the search cannot see, a filing that failed or the end of the backfill,
\* is committed only where there are requests that can.
Next ==
    \/ /\ \E f \in Filing : CommitFiling(f, "parsed")
       /\ UNCHANGED <<queryVars, reader, pageVars>>
    \/ /\ reader = "queries"
       /\ (\E f \in Filing : CommitFiling(f, "failed")) \/ CommitComplete
       /\ UNCHANGED <<queryVars, reader, pageVars>>
    \/ reader = "queries" /\ (Ask \/ Execute) /\ UNCHANGED <<storage, reader, pageVars>>
    \/ reader = "page" /\ PageNext /\ UNCHANGED <<storage, queryVars, reader>>

Spec == Init /\ [][Next]_vars

----------------------------------------------------------------------------
(* Properties                                                              *)

\* Turning the pages leaves no row of the search out, though each page is an
\* OFFSET into the list of its moment, filings are ingested between two pages, and
\* the form may be edited at any time: every row that was there at the first page
\* and comes before one on the screen has been shown since.  It takes that no
\* search was sent while another request was on its way: an old answer that comes
\* late is rendered as if it were for the current offset.  And it takes that no
\* page was requested while the form had other filters than the search: the
\* buttons keep the offset, which then counts the rows of another list.
PagingSkipsNothing ==
    (Rendered /\ ~overlapped /\ ~refiltered) =>
        \A i \in DOMAIN screen.rows, r \in before : Precedes(r, screen.rows[i]) => r \in shown
=============================================================================
