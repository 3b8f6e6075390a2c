-------------------------------- MODULE Views --------------------------------
(***************************************************************************)
(* The two materialized views (views/manager.py): they are created without *)
(* data when the worker starts, and refreshed one after the other at the   *)
(* end of each job, concurrently where PostgreSQL allows it, which it does *)
(* not before the first refresh.  Jobs overlap, so their refreshes do, and *)
(* so do their sessions, of which one may delete what another has stored   *)
(* (Ingest).  PostgreSQL runs the refreshes of one view one at a time.     *)
(*                                                                         *)
(* What a view shows is determined by the transactions its last refresh    *)
(* has seen; ClusterBuys says what sec_cluster_buys makes of them.         *)
(***************************************************************************)
EXTENDS ClusterBuys, Sequences

CONSTANTS
    Transactions,   \* those that the jobs may ingest
    Jobs,
    MaxCommits      \* bound: the commits of the jobs

ViewNames == <<"sec_cluster_buys", "sec_ingestion_summary">>
View == {ViewNames[i] : i \in DOMAIN ViewNames}

ASSUME ViewsAssumption ==
    /\ MinValue \in Nat \ {0}
    /\ Span \in Nat
    /\ MaxCommits \in Nat
    /\ IsFiniteSet(Transactions)
    /\ \A t \in Transactions : t.value \in Nat /\ t.day \in Int \cup {NoDay}

VARIABLES
    stored,     \* the transactions in the table
    commits,    \* how many commits that took
    view,       \* "missing", "empty" (WITH NO DATA) or "filled"
    basis,      \* the transactions that the last refresh of the view has seen
    pc,         \* where the refresh of each job stands
    next,       \* the view it has come to
    owed,       \* the transactions that were there when it began and ever since
    barred      \* those that were not there then, nor at any time since

viewVars == <<stored, commits, view, basis, pc, next, owed, barred>>

----------------------------------------------------------------------------

\* A refresh has ended, well or not.
Leave(j, how) ==
    /\ pc' = [pc EXCEPT ![j] = how]
    /\ next' = [next EXCEPT ![j] = 1]

\* REFRESH has succeeded on the view the job has come to.
Refreshed(j) ==
    /\ basis' = [basis EXCEPT ![ViewNames[next[j]]] = stored]
    /\ view' = [view EXCEPT ![ViewNames[next[j]]] = "filled"]
    /\ IF next[j] < Len(ViewNames)
       THEN /\ pc' = [pc EXCEPT ![j] = "concurrent"]
            /\ next' = [next EXCEPT ![j] = @ + 1]
       ELSE Leave(j, "refreshed")

----------------------------------------------------------------------------
(* Plausible mistakes, for the tests of the properties                     *)

\* A refresh that cannot be concurrent is left to the next job.
RefreshNormally_Skip(j) ==
    /\ pc[j] = "normal"
    /\ IF next[j] < Len(ViewNames)
       THEN /\ pc' = [pc EXCEPT ![j] = "concurrent"]
            /\ next' = [next EXCEPT ![j] = @ + 1]
       ELSE Leave(j, "refreshed")
    /\ UNCHANGED <<stored, commits, view, basis, owed, barred>>

\* The worker creates the views anew when it starts.
Boot_Recreates ==
    /\ view' = [v \in View |-> "empty"]
    /\ basis' = [v \in View |-> {}]
    /\ pc' = [j \in Jobs |-> "idle"]
    /\ next' = [j \in Jobs |-> 1]
    /\ owed' = [j \in Jobs |-> {}] /\ barred' = [j \in Jobs |-> {}]
    /\ UNCHANGED <<stored, commits>>

----------------------------------------------------------------------------

ViewsInit ==
    /\ stored = {}
    /\ commits = 0
    /\ view = [v \in View |-> "missing"]
    /\ basis = [v \in View |-> {}]
    /\ pc = [j \in Jobs |-> "idle"]
    /\ next = [j \in Jobs |-> 1]
    /\ owed = [j \in Jobs |-> {}] /\ barred = [j \in Jobs |-> {}]

\* The worker starts, for the first time or after a crash, which ends all jobs:
\* CREATE ... IF NOT EXISTS for both views in one transaction.
Boot ==
    /\ view' = [v \in View |-> IF view[v] = "missing" THEN "empty" ELSE view[v]]
    /\ pc' = [j \in Jobs |-> "idle"]
    /\ next' = [j \in Jobs |-> 1]
    /\ owed' = [j \in Jobs |-> {}] /\ barred' = [j \in Jobs |-> {}]
    /\ UNCHANGED <<stored, commits, basis>>

Running == \A v \in View : view[v] # "missing"

\* A session of a job commits, and these are the rows of the table now.
Commit(rows) ==
    /\ Running /\ commits < MaxCommits
    /\ stored' = rows
    /\ commits' = commits + 1
    /\ owed' = [j \in Jobs |-> owed[j] \cap rows]
    /\ barred' = [j \in Jobs |-> barred[j] \ rows]
    /\ UNCHANGED <<view, basis, pc, next>>

\* The transactions of a filing, or of a batch of filings, are stored.
Store == \E some \in SUBSET (Transactions \ stored) \ {{}} : Commit(stored \cup some)

\* The DELETE of a session that overlaps another one of the filing takes away the
\* rows that the other has committed, and puts none in their place.
Lose == \E some \in SUBSET stored \ {{}} : Commit(stored \ some)

\* A job has ingested what there was and refreshes the views.
StartRefresh(j) ==
    /\ Running
    /\ pc[j] \in {"idle", "refreshed", "raised"}
    /\ pc' = [pc EXCEPT ![j] = "concurrent"]
    /\ owed' = [owed EXCEPT ![j] = stored]
    /\ barred' = [barred EXCEPT ![j] = Transactions \ stored]
    /\ UNCHANGED <<stored, commits, view, basis, next>>

\* REFRESH MATERIALIZED VIEW CONCURRENTLY; it fails on a view without data, and
\* may fail for other reasons.
RefreshConcurrently(j) ==
    /\ pc[j] = "concurrent"
    /\ \/ /\ view[ViewNames[next[j]]] = "filled"
          /\ Refreshed(j)
       \/ /\ pc' = [pc EXCEPT ![j] = "normal"]
          /\ UNCHANGED <<view, basis, next>>
    /\ UNCHANGED <<stored, commits, owed, barred>>

\* REFRESH MATERIALIZED VIEW; its error ends the job.
RefreshNormally(j) ==
    /\ pc[j] = "normal"
    /\ \/ Refreshed(j)
       \/ Leave(j, "raised") /\ UNCHANGED <<view, basis>>
    /\ UNCHANGED <<stored, commits, owed, barred>>

ViewsNext ==
    \/ Boot
    \/ Store \/ Lose
    \/ \E j \in Jobs : StartRefresh(j) \/ RefreshConcurrently(j) \/ RefreshNormally(j)

ViewsSpec == ViewsInit /\ [][ViewsNext]_viewVars

----------------------------------------------------------------------------
(* Properties                                                              *)

Shown == Clusters(basis["sec_cluster_buys"])
Seen == basis["sec_cluster_buys"]

\* A window is left out only for one that is shown and has all its purchases,
\* though the one that suppresses it may be suppressed itself: any two insiders
\* who buy within the span are together in a cluster of the view.
NoClusterLost ==
    \A p, q \in Purchases(Seen) :
        ( /\ p.ticker = q.ticker /\ p.insider # q.insider /\ NoInsider \notin {p.insider, q.insider}
          /\ p.day <= q.day /\ q.day <= p.day + Span )
            => \E c \in Shown : {p, q} \subseteq Bought(Seen, c.ticker, c.start)

\* The list has no cluster twice: of two that it shows neither contains the other.
NoneContained ==
    \A c, d \in Shown :
        c # d => ~(Bought(Seen, c.ticker, c.start) \subseteq Bought(Seen, d.ticker, d.start))

\* A job that ends without an error leaves both views with everything that was
\* there when its refresh began and has been since, and with nothing that was not
\* there at any time since then, whatever other jobs stored, deleted or refreshed
\* meanwhile and whether or not the views could be refreshed concurrently
\* (refresh_materialized_views).
NothingStale ==
    \A j \in Jobs, v \in View :
        pc[j] = "refreshed" => owed[j] \subseteq basis[v] /\ basis[v] \cap barred[j] = {}

\* A view that has been filled can be read from then on, and drops no transaction
\* but those that have been deleted, restarts included (ensure_materialized_views).
ViewsKeepWhatIsStored ==
    [][\A v \in View :
          view[v] = "filled" => view'[v] = "filled" /\ basis[v] \cap stored \subseteq basis'[v]]_viewVars
=============================================================================
