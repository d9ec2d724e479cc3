------------------------- MODULE MCAnalysisCoordinator -------------------------
(* Model values and symmetry for the runs of AnalysisCoordinator. *)
EXTENDS AnalysisCoordinator, TLC

\* Handlers and job ids are interchangeable; sound for safety properties.
Symmetry == Permutations(Clients) \cup Permutations(JobIds) \cup Permutations(Digests)
=============================================================================
