-------------------------- MODULE MCProcessingThread --------------------------
(* TLC instances of ProcessingThread: the sets that a .cfg cannot write. *)
EXTENDS ProcessingThread, TLC

CONSTANTS c1, c2, t1, t2, t3

MCSymmetry == Permutations(Clients)
=============================================================================
