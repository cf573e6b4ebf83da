--------------------------- MODULE MCTokenSession ---------------------------
(***************************************************************************)
(* Small instances of TokenSession for TLC.                                *)
(***************************************************************************)
EXTENDS TokenSession, TLC

Alike == Permutations(Clicks)
=============================================================================
