-------------------------- MODULE MCIndexRegistry --------------------------
(***************************************************************************)
(* IndexRegistry for TLC: requests are interchangeable.                    *)
(***************************************************************************)
EXTENDS IndexRegistry, TLC

TaskSymmetry == Permutations(Tasks)
=============================================================================
