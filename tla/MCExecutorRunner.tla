--------------------------- MODULE MCExecutorRunner ---------------------------
(* Small instances of ExecutorRunner for TLC.                               *)
EXTENDS ExecutorRunner, TLC

Interchangeable == Permutations(Slots) \cup Permutations(Runs)
==============================================================================
