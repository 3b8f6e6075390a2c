----------------------------- MODULE MCUpdater -----------------------------
(***************************************************************************)
(* An instance of Updater for TLC: three days, a filing on each, and a     *)
(* window of one day, so that filings do fall out of it.                   *)
(***************************************************************************)
EXTENDS Updater, TLC

CONSTANTS f1, f2, f3, j1, j2

MCFilings == {f1, f2, f3}
MCDay == f1 :> 1 @@ f2 :> 2 @@ f3 :> 3
=============================================================================
