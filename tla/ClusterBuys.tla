----------------------------- MODULE ClusterBuys -----------------------------
(***************************************************************************)
(* The query behind sec_cluster_buys (views/cluster_buys.sql) as operators *)
(* over a set of transactions: the open-market purchases of two or more    *)
(* insiders of a company within a week.  Every day of a purchase opens a   *)
(* window; a window is left out when one that opened earlier contains it   *)
(* and has more insiders or a larger value.                                *)
(*                                                                         *)
(* A transaction is a record with a code, ticker, insider, day and value,  *)
(* and with whatever else tells two of them apart; insider is the CIK of   *)
(* the reporting owner or, without one, the name, and NoInsider without    *)
(* either; ticker is NoTicker if the filing has none or a placeholder, and *)
(* day is NoDay if the transaction is not dated.                           *)
(***************************************************************************)
EXTENDS Integers, FiniteSetsExt

CONSTANTS
    NoTicker, NoInsider, NoDay,
    MinValue,       \* 25000
    Span            \* a window ends so many days after it opens (6)

Purchases(transactions) ==
    {t \in transactions :
        t.code = "P" /\ t.value >= MinValue /\ t.ticker # NoTicker /\ t.day # NoDay}

----------------------------------------------------------------------------
(* Plausible mistakes, for the tests of the properties                     *)

\* The last day of a window is left out.
Bought_EndExcluded(transactions, ticker, start) ==
    {p \in Purchases(transactions) : p.ticker = ticker /\ start <= p.day /\ p.day < start + Span}

\* A window that begins on the same day, the window itself included, may contain it.
Suppresses_NotStrict(outer, inner) ==
    /\ outer.ticker = inner.ticker
    /\ outer.start <= inner.start
    /\ outer.end >= inner.end

\* Only a window that has more of both leaves another out.
Suppresses_Both(outer, inner) ==
    /\ outer.ticker = inner.ticker
    /\ outer.end >= inner.end
    /\ outer.start < inner.start
    /\ outer.insiders > inner.insiders /\ outer.value > inner.value

----------------------------------------------------------------------------

\* The join of a window with the purchases, grouped by ticker and first day.
Bought(transactions, ticker, start) ==
    {p \in Purchases(transactions) : p.ticker = ticker /\ start <= p.day /\ p.day <= start + Span}

\* candidate_windows and cluster_windows; COUNT leaves out who is not known.
Window(transactions, ticker, start) ==
    LET bought == Bought(transactions, ticker, start)
    IN  [ticker   |-> ticker,
         start    |-> start,
         end      |-> Max({p.day : p \in bought}),
         insiders |-> Cardinality({p.insider : p \in bought} \ {NoInsider}),
         value    |-> MapThenSumSet(LAMBDA p : p.value, bought)]

Windows(transactions) ==
    {w \in {Window(transactions, p.ticker, p.day) : p \in Purchases(transactions)} : w.insiders >= 2}

Suppresses(outer, inner) ==
    /\ outer.ticker = inner.ticker
    /\ outer.end >= inner.end
    /\ outer.start < inner.start
    /\ outer.insiders > inner.insiders \/ outer.value > inner.value

\* The rows of the view.
Clusters(transactions) ==
    LET windows == Windows(transactions)
    IN  {w \in windows : \A outer \in windows : ~Suppresses(outer, w)}
=============================================================================
