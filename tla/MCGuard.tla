------------------------------ MODULE MCGuard ------------------------------
(* Guard on its own, its callers interchangeable. *)
EXTENDS Guard, TLC

CallerSymmetry == Permutations(Callers)
=============================================================================
