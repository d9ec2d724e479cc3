------------------------------- MODULE MCParts -------------------------------
(***************************************************************************)
(* The parts of the program that are checked each on their own: the state  *)
(* machines of Parts, and the parts that compute a result from their       *)
(* input.  A behaviour is about one part.                                  *)
(***************************************************************************)
EXTENDS Parts, MCAlgorithms

CONSTANT i1

ChatItems == {i1}

Group(id, names, collapsed) == [id |-> id, files |-> names, collapsed |-> collapsed]
ExactMap ==
  [head |-> "h1", status |-> "Ready", groups |-> <<Group("core", <<"a">>, FALSE), Group("tests", <<"t">>, TRUE)>>, hits |-> {"t"}]
\* The exact map while it is analysed, and enriched maps of this head and of the next one.
AnsweredMaps ==
  {[ExactMap EXCEPT !.status = s] : s \in {"Analyzing", "Failed"}}
  \cup {[head |-> h, status |-> "Enriched", groups |-> <<Group("ai", <<"a">>, FALSE), Group("tests", <<"t">>, TRUE)>>, hits |-> {"a"}] :
          h \in {"h1", "h2"}}

VARIABLE input  \* what a part that computes was given
vars == <<partVars, input>>

\* No input.
Unset == <<>>

Init ==
  /\ input = Unset
  /\ \/ PartsInit
     \/ /\ part \in {"diff", "rows", "terminal", "view", "plan", "config", "vcs", "http"}
        /\ NoChat /\ NoBackends /\ NoPane /\ NoPairing /\ NoSetup

\* A part that computes is given an input; the disjuncts are apart, so that each is seen to have some.
Given(i) == input = Unset /\ input' = i /\ UNCHANGED partVars

Next ==
  \/ PartsNext /\ UNCHANGED input
  \/ part = "diff" /\ \E i \in DiffInputs : Given(i)
  \/ part = "rows" /\ \E i \in RowInputs : Given(i)
  \/ part = "terminal" /\ \E i \in TerminalInputs : Given(i)
  \/ part = "view" /\ \E i \in ViewInputs : Given(i)
  \/ part = "plan" /\ \E i \in PlanInputs : Given(i)
  \/ part = "config" /\ \E i \in ConfigInputs : Given(i)
  \/ part = "vcs" /\ \E i \in VcsInputs : Given(i)
  \/ part = "http" /\ \E i \in HttpInputs : Given(i)

Spec == Init /\ [][Next]_vars

-----------------------------------------------------------------------------
(* Properties: what the parts that compute promise.                        *)

\* Any diff git writes is read back line for line with its numbers, kinds, counts and paths,
\* whatever its lines and paths look like (parse_unified_diff).
DiffsAreRead == part = "diff" /\ input # Unset => ReadsDiffs(input)

\* In both layouts the rows show each text whole and in order, and a comment on any selection
\* of them is about those lines, before and after it goes to GitHub (build_row_plan,
\* place_github_threads).
RowsShowTheDiff == part = "rows" /\ input # Unset => ShowsRows(input)

\* Escapes leave patches and pages without a trace, and the moved marks of git's colours
\* land on the lines they were on (normalize_patch_text, sanitize_terminal_text,
\* parse_git_patch).
TextIsClean == part = "terminal" /\ input # Unset => CleansText(input)

\* A rebuilt view stays at its row, the caret stays at its character, and a selection copies
\* what it covers (restore_viewport_anchor, wrap_note_text_indexed, project_selection).
ViewKeepsItsPlace == part = "view" /\ input # Unset => KeepsTheView(input)

\* Every file of a pull request is in one batch within the limits, and an answer that is
\* accepted becomes a map in which every file has its place (budget_batches,
\* validate_enrichment, merge_enrichment).
GuideIsExact == part = "plan" /\ input # Unset => GuidesExactly(input)

\* The last layer that names a setting decides it, refused values are never in force,
\* migrating a file does not change what it says and a saved preference is in force the
\* next time (ConfigResolver, migrate_user_config, save_view_preferences).
ConfigIsHonoured == part = "config" /\ input # Unset => HonoursConfig(input)

\* A review holds exactly what its command compares, reads the text around a change from the
\* sides that were compared, and loads the same again while nothing changes (GitAdapter,
\* ReviewLoader, run_review).
ReviewIsTheComparison == part = "vcs" /\ input # Unset => LoadsTheReview(input)

\* However the network cuts them, requests arrive whole and answers are read whole or
\* refused, and the broker waits for a command as long as its client (read_request,
\* SessionClient, ReviewMapClient).
HttpIsWhole == part = "http" /\ input # Unset => SpeaksHttp(input)
=============================================================================
