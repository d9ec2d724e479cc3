--------------------------- MODULE MCReviewMapCache ----------------------------
(***************************************************************************)
(* The instance of ReviewMapCache for TLC.                                 *)
(***************************************************************************)
EXTENDS ReviewMapCache, TLC

\* Identities, and maps, are interchangeable.
Symmetry == Permutations(Identities) \cup Permutations(Maps)
=============================================================================
