---------------------------- MODULE MCStreamQuery ----------------------------
(***************************************************************************)
(* Model-checking instances of StreamQuery; the cfg files give the         *)
(* constants.                                                              *)
(***************************************************************************)
EXTENDS StreamQuery, TLC

\* Query ids are only compared for equality.
QuerySymmetry == Permutations(Queries)
=============================================================================
