-------------------------- MODULE MCQueryService --------------------------
(***************************************************************************)
(* Small instances of QueryService for TLC.                                *)
(***************************************************************************)
EXTENDS QueryService, TLC

Symmetry == Permutations(Searches) \cup Permutations(Workers)
=============================================================================
