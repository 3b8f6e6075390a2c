------------------------------ MODULE MCLegacy -------------------------------
(***************************************************************************)
(* The legacy tables for TLC: rows of up to three cells, of which two make *)
(* a transaction, and tables in cells of tables; a mention of Table I, the *)
(* title of a column, and a footnote that reads like the heading of Table  *)
(* II.                                                                     *)
(***************************************************************************)
EXTENDS LegacyTable

MCText ==
    {"date", "word", "Table I - Non-Derivative", "Table II - Derivative",
     "see Table I", "Title of Derivative Security", "Derivative Security in Table II"}

MCPhrases ==
    [t \in MCText |->
        CASE t = "Table I - Non-Derivative" -> {"Table I", "Non-Derivative", "Derivative"}
          [] t \in {"Table II - Derivative", "Derivative Security in Table II"}
                -> {"Table I", "Table II", "Derivative"}
          [] t = "see Table I" -> {"Table I"}
          [] t = "Title of Derivative Security" -> {"Derivative"}
          [] OTHER -> {}]

\* The year of a transaction of the last eighty years is found again, written with
\* two digits or with four (_legacy_date).
ASSUME YearsRecovered ==
    \A filed \in 1993..2033 : \A year \in (filed - 79)..filed :
        LegacyYear(year, filed) = year /\ LegacyYear(year % 100, filed) = year
=============================================================================
