-------------------------- MODULE MCReviewViewModel --------------------------
(* Instances of ReviewViewModel for TLC. *)
EXTENDS ReviewViewModel, TLC

\* The texts of comments are interchangeable.
Symmetry == Permutations(Bodies)
=============================================================================
