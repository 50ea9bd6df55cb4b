--------------------------- MODULE MCTenantStore ---------------------------
(***************************************************************************)
(* TenantStore for TLC: requests are interchangeable, and so are names.    *)
(***************************************************************************)
EXTENDS TenantStore, TLC

StoreSymmetry == Permutations(Tasks) \cup Permutations(Names)
=============================================================================
