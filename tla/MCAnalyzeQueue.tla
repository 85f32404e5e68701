--------------------------- MODULE MCAnalyzeQueue ---------------------------
(* Model values and symmetry for the instances of AnalyzeQueue. *)
EXTENDS AnalyzeQueueBoard, TLC

CONSTANTS p1, p2, k1, k2, k3

Interchangeable == Permutations(Procs) \cup Permutations(Keys)
=============================================================================
