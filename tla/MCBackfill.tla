----------------------------- MODULE MCBackfill -----------------------------
(***************************************************************************)
(* An instance of Backfill for TLC.  Three quarters: one before the bulk   *)
(* datasets whose index lists a filing twice (SEC's indexes have an entry  *)
(* per company of the filing), one whose dataset is in another order than  *)
(* its index, and one that may begin during the backfill and into whose    *)
(* index l is published.                                                   *)
(***************************************************************************)
EXTENDS Backfill, TLC

CONSTANTS a, b, c, d, e, g, h, l

MCFilings == {a, b, c, d, e, g, h, l}
MCIndex == <<<<a, b, a>>, <<c, d, h>>, <<e, l, g>>>>
MCDataset == 2 :> <<h, d, c>>
=============================================================================
