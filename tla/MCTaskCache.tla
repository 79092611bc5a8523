------------------------------ MODULE MCTaskCache ------------------------------
(***************************************************************************)
(* Instances of TaskCache for TLC.                                         *)
(***************************************************************************)
EXTENDS TaskCache, TLC

CONSTANTS w1, w2, short, long

WorkerSymmetry == Permutations(Worker)
=================================================================================
