------------------------------- MODULE MCReads -------------------------------
(***************************************************************************)
(* An instance of SalesPage for TLC: two filings with three sales, two of  *)
(* them without a date; pages of one or two rows, of all sales or of two.  *)
(***************************************************************************)
EXTENDS SalesPage

CONSTANTS f1, f2, a, b, c

MCRows == [f \in {f1, f2} |-> CASE f = f1 -> {a, b} [] f = f2 -> {c}]

MCKey ==
    [r \in {a, b, c} |->
        CASE r = a -> [date |-> 0, filed |-> 2, id |-> 1]
          [] r = b -> [date |-> 0, filed |-> 2, id |-> 2]
          [] r = c -> [date |-> 3, filed |-> 3, id |-> 3]]

MCFilters == {{a, b, c}, {a, c}}
=============================================================================
