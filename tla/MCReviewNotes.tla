---------------------------- MODULE MCReviewNotes ----------------------------
(* A small instance of ReviewNotes for TLC.                                *)
EXTENDS ReviewNotes

CONSTANTS f1, f2, r1

MCFiles == {f1, f2}
\* The second lies inside the first: asking there joins the first's thread.
MCRanges == {<<1, 2>>, <<2, 2>>}
MCText == {"", "a"}
MCComments == {[file |-> f1, found |-> TRUE, summary |-> s] : s \in {"ok", "blank", "control", "malformed"}}
              \union {[file |-> f1, found |-> FALSE, summary |-> "ok"]}
MCRequestIds == {r1}
=============================================================================
