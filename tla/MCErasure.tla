----------------------------- MODULE MCErasure -----------------------------
(* Model checking Erasure: no definition tells one distinct id from another. *)
EXTENDS Erasure, TLC

IdSymmetry == Permutations(Ids)
=============================================================================
