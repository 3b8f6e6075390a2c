------------------------------ MODULE MCWorker ------------------------------
(***************************************************************************)
(* Instances of Worker for TLC.  Four days, a window of two, and filings   *)
(* whose order in the index is not that of their days, so that one can be  *)
(* inserted before the cursor; the third can never be downloaded.  And two *)
(* filings of one day, to see what a single start does.                    *)
(***************************************************************************)
EXTENDS Worker

MCDay == <<3, 1, 3, 4, 1>>
MCTwoFilings == <<1, 1>>
=============================================================================
