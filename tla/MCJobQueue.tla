----------------------------- MODULE MCJobQueue -----------------------------
(***************************************************************************)
(* JobQueue for TLC.  Workers are interchangeable; jobs are not (the       *)
(* oldest is claimed first).                                               *)
(***************************************************************************)
EXTENDS JobQueue, TLC

CONSTANTS w1, w2, w3

WorkerSymmetry == Permutations(Workers)
=============================================================================
