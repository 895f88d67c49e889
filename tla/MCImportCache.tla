---------------------------- MODULE MCImportCache ----------------------------
(* ImportCache with two callers and two imports. *)
EXTENDS ImportCache, TLC

MCSymmetry == Permutations(Callers) \cup Permutations(Keys)
=============================================================================
