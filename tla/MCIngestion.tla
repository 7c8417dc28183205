---------------------------- MODULE MCIngestion ----------------------------
(***************************************************************************)
(* Small instances of Ingestion for TLC.                                   *)
(***************************************************************************)
EXTENDS Ingestion, TLC

CONSTANTS i1, i2, i3, acme, globex, sunset, sunrise, text

\* i3 belongs to another tenant than i1 and i2.
MCTenantOf == [i \in Items |-> IF i = i3 THEN globex ELSE acme]

\* sunset and sunrise are one bit apart, text is far from both.
MCDistance ==
  [p \in Images \X Images |->
     CASE p[1] = p[2] -> 0
       [] text \in {p[1], p[2]} -> 30
       [] OTHER -> 1]

WorkerSymmetry == Permutations(Workers)
RequestSymmetry == Permutations(Requests)
Symmetry == WorkerSymmetry \cup RequestSymmetry
=============================================================================
