----------------------------- MODULE MCTmReply -----------------------------
(* TmReply for the runs with several workers, which are interchangeable *)
EXTENDS TmReply, TLC

WorkerSymmetry == Permutations(Workers)
=============================================================================
