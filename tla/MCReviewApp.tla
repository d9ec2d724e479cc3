----------------------------- MODULE MCReviewApp -----------------------------
(* A small instance of ReviewApp for TLC.                                  *)
EXTENDS ReviewApp

Local == [remote |-> FALSE, selfAuthored |-> FALSE, pager |-> FALSE, path |-> TRUE,
          prompt |-> TRUE, map |-> FALSE, linear |-> FALSE, chat |-> TRUE]
PullRequest == [remote |-> TRUE, selfAuthored |-> FALSE, pager |-> FALSE, path |-> TRUE,
                prompt |-> TRUE, map |-> TRUE, linear |-> TRUE, chat |-> TRUE]
MCSettings == {Local, [Local EXCEPT !.pager = TRUE], [Local EXCEPT !.prompt = FALSE],
               [PullRequest EXCEPT !.linear = FALSE, !.chat = FALSE],
               [PullRequest EXCEPT !.selfAuthored = TRUE, !.path = FALSE]}
MCText == {"", "a"}
MCThemes == {"paper", "ink"}
=============================================================================
