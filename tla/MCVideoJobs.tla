------------------------------ MODULE MCVideoJobs ------------------------------
(* An instance of VideoJobs for TLC. *)
EXTENDS VideoJobs, TLC

CONSTANTS u1, u2, w1, w2

(* A video of exactly the limit and a larger one. *)
AtAndOver == [u \in Uploads |-> IF u = u1 THEN MaxSize ELSE MaxSize + 1]

WorkerSymmetry == Permutations(Workers)
================================================================================
