----------------------- MODULE MCReviewNavigation -----------------------
(* Two files with text, a test file among them, and a binary one; a reload  *)
(* may take lines or a file away, or bring them.                            *)
EXTENDS ReviewNavigation

File(i, n) == [id |-> i, lines |-> n]
MCDiffs == <<<<File(1, 1), File(2, 2), File(3, 0)>>, <<File(2, 1), File(3, 0), File(4, 1)>>>>
MCFilters == {FileIds, {1, 4}, {2, 3}, {3}}
MCTestFiles == {1}
MCNoteTargets == {<<1, 1>>, <<2, 2>>}
=========================================================================
