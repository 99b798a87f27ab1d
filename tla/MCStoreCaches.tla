---------------------------- MODULE MCStoreCaches ----------------------------
(* Model values for StoreCaches. *)
EXTENDS StoreCaches, TLC

ThreadSymmetry == Permutations(Thread)
=============================================================================
