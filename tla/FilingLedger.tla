---------------------------- MODULE FilingLedger ----------------------------
(***************************************************************************)
(* What the ingestion of ownership filings promises, filing by filing and  *)
(* with nothing said of sessions, statements or checkpoints: a filing the  *)
(* database does not know yet may be recorded as a failed parse, a filing  *)
(* that is unknown or failed may be recorded complete, that is parsed and  *)
(* with all its transaction rows, and a complete filing is final.          *)
(*                                                                         *)
(* Backfill (restarts included) is shown to implement it, and so is each   *)
(* session of Ingest that overlaps no other one of its filing.  Sessions   *)
(* that overlap do so too, and Updater with them, if complete means parsed *)
(* and no more.                                                            *)
(***************************************************************************)

CONSTANT Filings

VARIABLE ledger

----------------------------------------------------------------------------

Init == ledger = [f \in Filings |-> "absent"]

\* A document that could not be parsed is remembered, so that a later run tries it again.
RecordFailure(f) ==
    /\ ledger[f] = "absent"
    /\ ledger' = [ledger EXCEPT ![f] = "failed"]

Complete(f) ==
    /\ ledger[f] # "complete"
    /\ ledger' = [ledger EXCEPT ![f] = "complete"]

Next == \E f \in Filings : RecordFailure(f) \/ Complete(f)

Spec == Init /\ [][Next]_ledger
=============================================================================
