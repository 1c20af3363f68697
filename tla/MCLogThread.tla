---------------------------- MODULE MCLogThread ----------------------------
(* Model values and symmetry for the runs of LogThread. *)
EXTENDS LogThread, TLC

ThreadSymmetry == Permutations(AppThreads)
StreamSymmetry == Permutations(Streams)
=============================================================================
