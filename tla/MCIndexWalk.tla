----------------------------- MODULE MCIndexWalk -----------------------------
(***************************************************************************)
(* An instance of IndexWalk for TLC: months of two days, and windows that  *)
(* lie within a quarter, over the end of one with a weekend at it, and     *)
(* over the end of a year.                                                 *)
(***************************************************************************)
EXTENDS IndexWalk

CONSTANTS updater, other

MCWindows == {<<8, 9>>, <<17, 20>>, <<22, 25>>}
=============================================================================
