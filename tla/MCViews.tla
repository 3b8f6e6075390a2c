------------------------------- MODULE MCViews -------------------------------
(***************************************************************************)
(* An instance of Views for TLC: windows of four days and purchases over   *)
(* five, so that windows overlap, three may lie in one another, and the    *)
(* last purchase is not in the first window; the insider of one of the     *)
(* purchases is not known.                                                 *)
(***************************************************************************)
EXTENDS Views, TLC

CONSTANTS j1, j2, ann, bob, cid, acme

Buy(ticker, insider, day, value) ==
    [code |-> "P", ticker |-> ticker, insider |-> insider, day |-> day, value |-> value]

MCTransactions ==
    {Buy(acme, ann, 1, 2), Buy(acme, bob, 2, 9), Buy(acme, NoInsider, 3, 2),
     Buy(acme, cid, 4, 3), Buy(acme, bob, 5, 2)}

MCSymmetry == Permutations({j1, j2})
=============================================================================
