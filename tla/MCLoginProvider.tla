-------------------------- MODULE MCLoginProvider --------------------------
(* LoginProvider with interchangeable sessions. *)
EXTENDS LoginProvider, TLC

SessionSymmetry == Permutations(Sessions)
=============================================================================
