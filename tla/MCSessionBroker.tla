---------------------------- MODULE MCSessionBroker ----------------------------
(***************************************************************************)
(* Instances of SessionBroker for TLC.                                     *)
(***************************************************************************)
EXTENDS SessionBroker, TLC

\* Callers, and sessions, are interchangeable.
Symmetry == Permutations(Callers) \cup Permutations(Sessions)
=============================================================================
