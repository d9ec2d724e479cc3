---------------------------- MODULE MCAlgorithms ----------------------------
(***************************************************************************)
(* Bounded inputs for the parts of the program that compute a result from  *)
(* their input, and what is claimed of the result.  Each claim is stated   *)
(* in the module of its part, over all inputs.                             *)
(***************************************************************************)
EXTENDS Integers, Sequences, FiniteSets, TLC

CONSTANTS None, Err, Bad, PlainText, Malformed, Unreachable

Diff == INSTANCE DiffParser
Rows == INSTANCE DiffRows
Terminal == INSTANCE TerminalText
Geometry == INSTANCE ReviewGeometry
Plan == INSTANCE ReviewMapPlan
Config == INSTANCE ConfigLayers
Vcs == INSTANCE VcsInput WITH MaxLines <- 4, MaxBytes <- 4, MaxAgentFiles <- 4, MaxAgentNotes <- 3
Http == INSTANCE SessionHttp WITH MaxHeader <- 5, MaxBody <- 5, MaxResponse <- 9

SeqsUpTo(S, n) == UNION {[1 .. k -> S] : k \in 0 .. n}

-----------------------------------------------------------------------------
(* Diffs: scripts of up to five lines, so that two hunks, a gap before,    *)
(* between and after them, and both kinds of change in one hunk occur.     *)

Scripts(n) == SeqsUpTo({"=", "-", "+"}, n)
ChangedFile(kind, old, new, script, context, dashed, binary) ==
  [kind |-> kind, old |-> old, new |-> new, binary |-> binary, script |-> script, context |-> context, dashed |-> dashed]
Modified(script, context, dashed) == ChangedFile("Modified", "f", "f", script, context, dashed, FALSE)
Kinds ==
  {ChangedFile("Added", "f", "f", <<"+", "+">>, 1, FALSE, FALSE), ChangedFile("Deleted", "f", "f", <<"-">>, 1, TRUE, FALSE),
   ChangedFile("Renamed", "g", "f", <<>>, 1, FALSE, FALSE), ChangedFile("Renamed", "g", "f", <<"=", "+">>, 1, TRUE, FALSE),
   ChangedFile("Copied", "g", "f", <<"-", "=">>, 1, FALSE, FALSE), ChangedFile("Modified", "f", "f", <<>>, 1, FALSE, TRUE)}

DiffInputs ==
  {[files |-> <<Modified(s, c, d)>>, path |-> <<>>] : s \in Scripts(5), c \in 0 .. 2, d \in BOOLEAN}
  \cup {[files |-> <<f, g>>, path |-> <<>>] : f \in Kinds, g \in Kinds}
  \cup {[files |-> <<>>, path |-> p] : p \in SeqsUpTo({"x", " ", "b", "/"}, 5) \ {<<>>}}
ReadsDiffs(i) ==
  /\ Diff!ReadsWhatGitWrote(i.files)
  /\ i.path # <<>> => Diff!HeaderNamesThePath(i.path)

RowInputs == {Modified(s, c, FALSE) : s \in Scripts(4), c \in 1 .. 2} \cup {f \in Kinds : f.kind \in {"Added", "Deleted", "Renamed"}}
             \cup {Modified(<<"-", "+">> \o s \o <<t>>, 1, FALSE) : s \in [1 .. 4 -> {"=", "+"}], t \in {"-", "="}}
ShowsRows(f) == Rows!ShowsTheFile(f) /\ Rows!CommentsLand(f)

\* Up to three pieces of terminal output, and patches of two files in four colourings.
Piece(t, chars, end) == [t |-> t, chars |-> chars, end |-> end]
Pieces ==
  {Piece("plain", c, "m") : c \in {<<"x">>, <<"[", "m">>, <<"CR", "LF">>, <<"CTL", "\\">>}}
  \cup {Piece("csi", c, e) : c \in {<<>>, <<"1", ";">>}, e \in {"m", "K"}}
  \cup {Piece("osc", c, e) : c \in {<<>>, <<"x", "[">>}, e \in {"BEL", "ST"}}
TerminalInputs ==
  {[pieces |-> p, files |-> <<>>, sgr |-> <<>>] : p \in SeqsUpTo(Pieces, 3)}
  \cup {[pieces |-> <<>>, files |-> <<Modified(s, 1, FALSE), Modified(t, 1, FALSE)>>, sgr |-> g] :
          s \in Scripts(3) \ {<<>>}, t \in {<<"-">>, <<"+", "=">>}, g \in [1 .. 3 -> {{31}, {1, 35}, {2, 36}, {36, 35, 2}}]}
CleansText(i) == Terminal!EscapesVanish(i.pieces) /\ Terminal!MovedMarksLand(i.files, i.sgr)

-----------------------------------------------------------------------------
(* The review on the screen: two files, notes, and a trailer; wrapped text *)
(* of up to four characters, wide and combining ones among them.           *)

ScreenRow(f, i, w, note) ==
  [key |-> <<f, i>>, hunk |-> 1, kind |-> IF i = note THEN "Note" ELSE "Stack",
   left |-> IF i = note THEN 3 ELSE w, right |-> IF i = note THEN 0 ELSE w]
ScreenFile(f, n, w, compacted, note) ==
  [id |-> f, compacted |-> compacted, digits |-> 1, anchors |-> <<<<f, 1>>>>, rows |-> [i \in 1 .. n |-> ScreenRow(f, i, w[i], note)]]
Screen(wrap, height) == [wrap |-> wrap, width |-> 5, numbers |-> FALSE, height |-> height]
Marked(text) == \A i \in DOMAIN text : text[i] = "'" => i > 1 /\ text[i - 1] \in {"a", "W"}
Views ==
  {[files |-> <<ScreenFile("f", n, w, c, note), ScreenFile("g", m, w, FALSE, 0)>>,
    trailer |-> IF t THEN <<ScreenFile("t", 1, w, FALSE, 1)>> ELSE <<>>, before |-> Screen(wrap, 2), after |-> Screen(~wrap, h)] :
     n \in 1 .. 3, m \in 0 .. 1, w \in [1 .. 3 -> {0, 5}], c \in BOOLEAN, note \in 0 .. 2, t \in BOOLEAN, wrap \in BOOLEAN, h \in {2, 4}}
ViewInputs ==
  {[t |-> "view", view |-> v] : v \in Views}
  \cup {[t |-> "text", text |-> s, width |-> w] : s \in {s \in SeqsUpTo({"a", "W", "'", " ", "nl"}, 4) : Marked(s)}, w \in {2, 3, 6}}
KeepsTheView(i) ==
  CASE i.t = "view" -> Geometry!ViewKeepsItsPlace(i.view.files, i.view.trailer, i.view.before, i.view.after)
    [] i.t = "text" -> /\ Geometry!CaretIsOnItsCharacter(i.text, i.width)
                       /\ (\A k \in DOMAIN i.text : i.text[k] # "nl") =>
                            \A s \in {<<"Stack", "Stack">>, <<"Split", "Left">>, <<"Split", "Right">>} :
                              Geometry!SelectionIsWhatIsShown(i.text, <<"a", "a">>, s[1], s[2])

-----------------------------------------------------------------------------
(* The Review Map: pull requests of up to two files under every budget,    *)
(* and one of three files under answers that are almost right.             *)

MapFile(path, marks, patch) ==
  [path |-> path, dirs |-> <<"d">>, marks |-> marks, add |-> 1, del |-> 2, binary |-> FALSE, patch |-> patch, cut |-> FALSE]
MapFiles == {MapFile(p, m, n) : p \in {"a", "b"}, m \in {{}, {"Generated"}, {"Test", "Migration"}}, n \in {None, 0, 1, 5}}
ThreeFiles == <<MapFile("a", {}, 1), MapFile("b", {"Migration"}, 1), MapFile("t", {"Test"}, 1)>>
Insight(p) == [path |-> p, summary |-> "good", risk |-> None]
Together(paths) == [paths |-> paths, summary |-> "good", risk |-> None]
OfBatch(p) == [groups |-> <<Together(<<p>>)>>, files |-> <<Insight(p)>>, order |-> <<p>>]
Nothing == [groups |-> <<>>, files |-> <<>>, order |-> <<>>]
\* The answers for one file per batch, some only on the second attempt.
BatchAnswers == <<<<OfBatch("b"), Malformed>>, <<Malformed, OfBatch("a")>>, <<Nothing, Nothing>>>>
Answers ==
  [groups : SeqsUpTo({Together(s) : s \in {<<"a">>, <<"b">>, <<"a", "b">>, <<"b", "t">>, <<>>}}, 2),
   files : {<<Insight("a"), Insight("b")>>, <<Insight("a")>>, <<Insight("b"), Insight("a"), Insight("t")>>,
            <<[Insight("a") EXCEPT !.summary = "generic"], Insight("b")>>},
   order : {<<>>, <<"a">>, <<"a", "b">>, <<"b", "a">>, <<"b", "b">>, <<"b", "t">>}]
PlanInputs ==
  {[t |-> "batches", files |-> f, budget |-> [files |-> n, tokens |-> k]] : f \in SeqsUpTo(MapFiles, 2), n \in 1 .. 2, k \in {0, 1, 4, 6}}
  \cup {[t |-> "guide", answers |-> a, backend |-> b, budget |-> [files |-> n, tokens |-> 10]] :
          a \in {<<x, Malformed>> : x \in Answers} \cup {<<Malformed, x>> : x \in Answers}, b \in {"ollama", "pi"}, n \in {1, 3}}
GuidesExactly(i) ==
  CASE i.t = "batches" -> Plan!BatchesFit(i.files, i.budget)
    [] i.t = "guide" -> Plan!GuideIsExact(ThreeFiles, i.backend, i.budget, BatchAnswers, i.answers)

-----------------------------------------------------------------------------
(* Configuration: one setting spelled in several places at once, in either *)
(* file, per command and on the command line, sound or refused.            *)

Spelling(field, spelled, who, bad, inline, theme) ==
  LET value(place) == IF bad = place /\ field # "theme" THEN Bad
                      ELSE IF field = "test_file_patterns" THEN <<who \o place>> ELSE who \o place
      at(place, key) == IF place \in spelled /\ key \in Config!PREFERENCE_KEYS THEN key :> value(place) ELSE <<>>
      home == Config!SectionOf(field)
      camel == IF field = "transparent_background" THEN at("camel", "transparentBackground") ELSE <<>>
  IN  [Config!Blank EXCEPT
         !.flat = camel @@ at("flat", field),
         !.sections[home[1]] = IF "section" \in spelled /\ ~(field = "theme" /\ "flat" \in spelled)
                               THEN home[2] :> value("section") ELSE <<>>,
         !.commands["diff"] = at("diff", field), !.commands["pager"] = at("pager", field),
         !.inline = IF inline /\ field # "theme" THEN {home[1]} ELSE {}, !.custom = theme]
CustomTheme == [base |-> "dark", label |-> None, colors |-> <<>>, scopes |-> ("keyword" :> "red"),
                syntax |-> [keyword |-> "blue", type |-> "green"]]
Command(command, flags, values) ==
  [command |-> command, targets |-> "none", staged |-> FALSE, pathspecs |-> FALSE, path |-> FALSE, flags |-> flags, values |-> values]
Unchanged == <<>>
Restyled == [mode |-> "new", theme |-> "new"]
\* [bad, inline, command, preferences changed in the review]
Circumstances ==
  {<<None, FALSE, Command("diff", {}, <<>>), Restyled>>, <<None, FALSE, Command("pager", {}, <<>>), Restyled>>,
   <<None, FALSE, Command("pr", {"no_wrap"}, [theme |-> "cli"]), Restyled>>, <<None, TRUE, Command("diff", {"pager"}, <<>>), Restyled>>,
   <<"section", FALSE, Command("diff", {"transparent_bg"}, <<>>), Unchanged>>, <<"pager", FALSE, Command("diff", {}, <<>>), Unchanged>>}
ConfigInputs ==
  {[user |-> Spelling(f, su, "u", c[1], c[2], None), repo |-> Spelling(f, sr, "r", None, FALSE, None), args |-> c[3], changed |-> c[4]] :
     f \in {"mode", "theme", "transparent_background", "ask_model", "test_file_patterns", "map_model"},
     su \in {{}, {"flat"}, {"section"}, {"flat", "section"}, {"camel", "flat"}, {"section", "diff"}, {"flat", "pager"}},
     sr \in {{}, {"flat"}, {"section", "pager"}, {"diff"}}, c \in Circumstances}
  \cup {[user |-> [Spelling("mode", {"flat"}, "u", None, FALSE, a) EXCEPT !.nested = b], repo |-> Spelling("mode", {}, "r", None, FALSE, c),
          args |-> Command("show", {}, <<>>), changed |-> d] :
           a \in {None, CustomTheme}, b \in {None, [CustomTheme EXCEPT !.label = "mine"]},
           c \in {None, [CustomTheme EXCEPT !.scopes = ("variable" :> "grey")]}, d \in {Unchanged, Restyled}}
HonoursConfig(i) == Config!ConfigIsHonoured(i.user, i.repo, i.args, i.changed)

-----------------------------------------------------------------------------
(* Repositories of three commits and two paths: renames, large, binary and *)
(* untracked files, with and without a HEAD.                               *)

Content(id, lines, binary) == [id |-> id, lines |-> lines, binary |-> binary]
A == Content("a", 1, FALSE)
B == Content("b", 1, FALSE)
Large == Content("g", 9, FALSE)
Image == Content("n", 1, TRUE)
Tree(p, q) == (IF p = None THEN <<>> ELSE "p" :> p) @@ (IF q = None THEN <<>> ELSE "q" :> q)
Repository(second, third, refs, index, work) ==
  [commits |-> [c1 |-> [parent |-> None, tree |-> Tree(A, None)], c2 |-> [parent |-> "c1", tree |-> second],
                c3 |-> [parent |-> "c1", tree |-> third]],
   refs |-> refs, index |-> index, work |-> work, directories |-> {"d"}, markers |-> <<{}, {"Git"}>>]
Refs == ("HEAD" :> "c2") @@ ("B" :> "c3") @@ ("stash@{0}" :> "c3")
Repositories ==
  {Repository(t, u, r, i, w) :
     t \in {Tree(A, B), Tree(None, A)}, u \in {Tree(B, None), Tree(Image, Large)}, r \in {Refs, "B" :> "c3"},
     i \in {Tree(A, B), Tree(B, None)}, w \in {Tree(None, A), Tree(A, Large), Tree(B, B) @@ ("d" :> A)}}
OneRepository == Repository(Tree(A, B), Tree(B, None), Refs, Tree(A, B), Tree(None, A))
Comparison(kind, range, staged, specs, exclude) ==
  [kind |-> kind, range |-> range, staged |-> staged, specs |-> specs, exclude |-> exclude, pager |-> FALSE]
Comparisons ==
  {Comparison("Diff", r, s, p, e) :
     r \in {None} \cup [form : {"rev", "two", "three"}, a : {"HEAD", "B"}, b : {"B"}], s \in BOOLEAN, p \in {{}, {"q"}}, e \in BOOLEAN}
  \cup {Comparison(k, r, FALSE, {}, FALSE) : k \in {"Show", "StashShow"}, r \in {None, [form |-> "rev", a |-> "B", b |-> "B"]}}
PatchFiles ==
  {<<>>, <<Vcs!DiffFile("p", None, "Modified", {})>>,
   <<Vcs!DiffFile("q", "p", "Renamed", {}), Vcs!DiffFile("p", None, "Added", {"binary"})>>}
OtherInputs ==
  [kind : {"FilePair"}, left : {None, A, Image}, right : {None, A, B}, display : {"q"}, pager : BOOLEAN]
  \cup [kind : {"Patch"}, stdin : BOOLEAN, text : [diff : {TRUE}, files : PatchFiles], pager : BOOLEAN]
  \cup [kind : {"Pager"}, text : [diff : BOOLEAN, files : PatchFiles], pager : BOOLEAN]
  \cup [kind : {"PullRequest"}, pr : [files : PatchFiles, base : {"b"}, head : {"h"}], pager : BOOLEAN]
Note(old, new) == [summary |-> "s", old |-> old, new |-> new]
NoAgent == [from |-> "none", files |-> <<>>]
Agents ==
  {NoAgent,
   [from |-> "file", files |-> <<[path |-> "q", notes |-> <<Note(None, <<1, 2>>), Note(<<1>>, <<2, 2>>)>>],
                                 [path |-> "z", notes |-> <<>>], [path |-> "q", notes |-> <<>>], [path |-> "p", notes |-> <<>>]>>],
   [from |-> "stdin", files |-> <<[path |-> "q", notes |-> <<Note(None, <<1, 2>>), Note(<<2, 1>>, <<2, 2>>)>>]>>],
   [from |-> "stdin", files |-> <<[path |-> "q", notes |-> <<Note(<<0, 1>>, None)>>]>>]}
StartConfig(watch, summaries, token, output, comments) ==
  [watch |-> watch, ai_summaries |-> summaries, start_on_map |-> TRUE, token |-> token, vcs |-> None, theme |-> "auto",
   appearance |-> None, output |-> output, comments |-> comments, answer |-> IF watch THEN "no" ELSE Err]
StartConfigs ==
  {StartConfig(TRUE, TRUE, "t", None, 1), StartConfig(FALSE, TRUE, None, None, 1), StartConfig(FALSE, FALSE, "t", "out", 1),
   StartConfig(TRUE, FALSE, None, None, 0)}
VcsInputs ==
  {[world |-> w, input |-> i] : w \in Repositories, i \in Comparisons} \cup {[world |-> OneRepository, input |-> i] : i \in OtherInputs}
LoadsTheReview(i) ==
  /\ Vcs!Vcs(i.input) => Vcs!ShowsTheComparison(i.world, i.input)
  /\ \A vcs \in {"Git"} \cup (IF "HEAD" \in DOMAIN i.world.refs THEN {"Jj", "Sl"} ELSE {}) :
       \A agent \in (IF vcs = "Git" THEN Agents ELSE {NoAgent}) : Vcs!ReloadShowsTheSame(i.world, i.input, vcs, agent)
  /\ i.world = OneRepository => \A agent \in Agents, config \in StartConfigs : Vcs!StartIsSound(i.world, i.input, agent, config)

-----------------------------------------------------------------------------
(* Requests and answers that arrive in up to three reads, cut anywhere.    *)

Bodies == SeqsUpTo({"x", "r", "n"}, 1) \cup {<<"r", "n">>, Http!Blank, <<"x">> \o Http!Blank, Http!Blank \o <<"x">>}
Cuts(n) == IF n = 0 THEN {{}} ELSE {{i, j, n} : i \in 1 .. n, j \in 1 .. n}
NoEnv == [k \in {"RAMO_SESSION_HOST", "HUNK_MCP_HOST", "RAMO_SESSION_PORT", "HUNK_MCP_PORT"} |-> None]
Envs == {NoEnv} \cup {[NoEnv EXCEPT !["RAMO_SESSION_HOST"] = h, !["HUNK_MCP_PORT"] = p] :
                        h \in {"::1", "localhost", "10.0.0.1"}, p \in {None, 1, 65535, 65536, 0}}
Served == [schema |-> 1, mapSchema |-> 1, status |-> 200, failure |-> "x", head |-> "b"]
HttpInputs ==
  {[t |-> "request", command |-> c, selector |-> s, env |-> e, head |-> 2, body |-> <<"x">>, after |-> <<>>, cuts |-> {7}] :
     c \in DOMAIN Http!Commands, s \in {"session_id", "repo_root", "session_path"}, e \in Envs}
  \cup UNION {{[t |-> "request", command |-> "CommentApply", selector |-> "repo_root", env |-> NoEnv, head |-> h, body |-> b, after |-> a, cuts |-> c] :
                 c \in Cuts(h + 4 + Len(b) + Len(a))} : h \in {0, 2, 5, 6}, b \in Bodies, a \in {<<>>, <<"x">>}}
  \cup UNION {{[t |-> "response", head |-> h, body |-> b, cut |-> n, cuts |-> c, length |-> l] :
                 c \in Cuts(n), l \in {None, 0, 1, 5, 6}} : h \in {0, 2}, b \in Bodies, n \in 0 .. 7}
SpeaksHttp(i) ==
  CASE i.t = "request" -> Http!RequestArrives(i.command, i.selector, i.env, i.head, i.body, i.after, i.cuts)
    [] i.t = "response" ->
         i.cut <= i.head + 4 + Len(i.body) =>
           Http!ResponseIsWhole(i.head, i.body, i.cut, i.cuts, [length |-> i.length, duplicate |-> FALSE, chunked |-> FALSE], Served, "a")
=============================================================================
