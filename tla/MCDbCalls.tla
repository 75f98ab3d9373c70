----------------------------- MODULE MCDbCalls -----------------------------
(* Instances of DbCalls: calls are interchangeable. *)
EXTENDS DbCalls, TLC

CallSymmetry == Permutations(Calls)
=============================================================================
