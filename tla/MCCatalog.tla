----------------------------- MODULE MCCatalog -----------------------------
(***************************************************************************)
(* Catalog for TLC.  The two tasks are interchangeable, and no property of *)
(* the safety run tells them apart.                                        *)
(***************************************************************************)
EXTENDS Catalog, TLC

TaskSymmetry == Permutations(Tasks)
=============================================================================
