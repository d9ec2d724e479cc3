------------------------------ MODULE VcsInput ------------------------------
(***************************************************************************)
(* Loading a review: which version control system, which commands, which   *)
(* files, and from where the text around a hunk is read later.             *)
(*                                                                         *)
(* The world w is what git sees: commits (id -> [parent, tree]), refs      *)
(* (name -> id), index and work (trees), other (files outside).  A tree is *)
(* a function from paths to contents [id, lines, binary].  What the        *)
(* commands print is described by the git operators, which are external.   *)
(* An input is [kind, range, staged, specs, exclude, ...]; a range is None *)
(* or [form, a, b], form "rev" (a), "two" (a..b) or "three" (a...b).       *)
(***************************************************************************)
EXTENDS DiffParser

CONSTANTS None, Err, PlainText, MaxLines, MaxBytes, MaxAgentFiles, MaxAgentNotes

Paths(tree, specs) == IF specs = {} THEN DOMAIN tree ELSE DOMAIN tree \cap specs
Only(tree, specs) == [p \in Paths(tree, specs) |-> tree[p]]
At(tree, path) == IF path \in DOMAIN tree THEN tree[path] ELSE None

(***************************************************************************)
(* Git, as the commands see it                                             *)
(***************************************************************************)
Commit(w, name) == IF name \in DOMAIN w.refs THEN w.refs[name] ELSE Err
TreeOf(w, commit) == IF commit = None THEN <<>> ELSE w.commits[commit].tree
Line(w, c) == {d \in DOMAIN w.commits :
                 \/ d = c
                 \/ w.commits[c].parent = d
                 \/ w.commits[c].parent # None /\ w.commits[w.commits[c].parent].parent = d}
merge_base(w, a, b) ==
  LET common == Line(w, a) \cap Line(w, b)
  IN  IF common = {} THEN Err ELSE CHOOSE c \in common : common \subseteq Line(w, c)

\* rev-parse --revs-only: the positive and the negative revisions of a range.
rev_parse(w, range) ==
  LET a == Commit(w, range.a)
      b == Commit(w, range.b)
  IN  CASE range.form = "rev" /\ a # Err -> [positive |-> <<a>>, negative |-> <<>>]
        [] range.form = "two" /\ Err \notin {a, b} -> [positive |-> <<b>>, negative |-> <<a>>]
        [] range.form = "three" /\ Err \notin {a, b} /\ merge_base(w, a, b) # Err ->
             [positive |-> <<a, b>>, negative |-> <<merge_base(w, a, b)>>]
        [] OTHER -> Err

\* The two texts git diff, show and stash show compare.  Only tracked paths of the work
\* tree take part.
Tracked(w) == Only(w.work, DOMAIN w.index)
Sides(w, input) ==
  LET revs == IF input.range = None THEN None ELSE rev_parse(w, input.range)
      one(name) == LET c == Commit(w, name)
                   IN  IF c = Err THEN Err ELSE <<TreeOf(w, w.commits[c].parent), TreeOf(w, c)>>
  IN  CASE input.kind = "Show" -> one(IF input.range = None THEN "HEAD" ELSE input.range.a)
        [] input.kind = "StashShow" -> one(IF input.range = None THEN "stash@{0}" ELSE input.range.a)
        [] input.kind = "Diff" /\ input.range = None ->
             IF input.staged THEN <<TreeOf(w, IF Commit(w, "HEAD") = Err THEN None ELSE Commit(w, "HEAD")), w.index>>
             ELSE <<w.index, Tracked(w)>>
        [] input.kind = "Diff" /\ input.range # None /\ revs = Err -> Err
        [] input.kind = "Diff" /\ input.range # None /\ revs # Err /\ input.staged ->
             IF input.range.form = "rev" THEN <<TreeOf(w, revs.positive[1]), w.index>> ELSE Err
        [] OTHER -> CASE input.range.form = "rev" -> <<TreeOf(w, revs.positive[1]), Tracked(w)>>
                      [] input.range.form = "two" -> <<TreeOf(w, revs.negative[1]), TreeOf(w, revs.positive[1])>>
                      [] input.range.form = "three" -> <<TreeOf(w, revs.negative[1]), TreeOf(w, revs.positive[2])>>

\* The changes between two trees, exact renames found.
Changes(old, new) ==
  LET gone == DOMAIN old \ DOMAIN new
      from(q) == {p \in gone : old[p] = new[q]}
      added == DOMAIN new \ DOMAIN old
      previous(q) == IF from(q) = {} THEN None ELSE CHOOSE p \in from(q) : TRUE
      renamed == {q \in added : previous(q) # None /\ \A r \in added : previous(r) = previous(q) => q = r}
  IN  {[path |-> p, previous |-> None, change_kind |-> "Modified"] : p \in {p \in DOMAIN old \cap DOMAIN new : old[p] # new[p]}}
      \cup {[path |-> q, previous |-> previous(q), change_kind |-> "Renamed"] : q \in renamed}
      \cup {[path |-> q, previous |-> None, change_kind |-> "Added"] : q \in added \ renamed}
      \cup {[path |-> p, previous |-> None, change_kind |-> "Deleted"] : p \in gone \ {previous(q) : q \in renamed}}

(***************************************************************************)
(* The git adapter                                                         *)
(***************************************************************************)
should_skip_large(lines, bytes) == lines > MaxLines \/ bytes > MaxBytes
Lines(content) == IF content = None THEN 0 ELSE content.lines
Binary(content) == content # None /\ content.binary

\* numstat, then the size of the path in the work tree, whatever is compared.  A rename has
\* no path of its own in the -z output, a binary file no numbers.
large_tracked_files(w, input, old, new) ==
  IF input.kind # "Diff" THEN {}
  ELSE {c.path : c \in {c \in Changes(old, new) :
          /\ c.change_kind # "Renamed"
          /\ ~Binary(At(old, c.path)) /\ ~Binary(At(new, c.path))
          /\ should_skip_large(Lines(At(old, c.path)) + Lines(At(new, c.path)), Lines(At(w.work, c.path)))}}

DiffFile(path, previous, kind, flags) ==
  [path |-> path, previous |-> previous, change_kind |-> kind, is_untracked |-> "untracked" \in flags,
   is_too_large |-> "large" \in flags, is_binary |-> "binary" \in flags,
   old_source |-> None, new_source |-> None, agent |-> None]
large_tracked_placeholder(path) == DiffFile(path, None, "Modified", {"large"})

\* An unreadable path is reviewable here and fails when it is read.
is_reviewable_path(w, path) == path \notin w.directories
build_filesystem_untracked_file(w, path) ==
  LET content == w.work[path]
      flags == IF should_skip_large(content.lines, content.lines) THEN {"large"}
               ELSE IF content.binary THEN {"binary"} ELSE {}
  IN  [DiffFile(path, None, "Added", {"untracked"} \cup flags) EXCEPT !.new_source = [kind |-> "File", path |-> path]]

range_includes_worktree(w, range) ==
  range = None \/ LET revs == rev_parse(w, range)
                  IN  Len(revs.positive) = 1 /\ Len(revs.negative) = 0
Status(w, specs) == Paths(w.work, specs) \ DOMAIN w.index
load_untracked_files(w, input) ==
  IF input.kind # "Diff" \/ input.staged \/ input.exclude \/ ~range_includes_worktree(w, input.range) THEN {}
  ELSE {p \in Status(w, input.specs) : is_reviewable_path(w, p)}

Blob(ref) == [kind |-> "GitBlob", ref |-> ref]
GitIndex == [kind |-> "GitIndex"]
Worktree == [kind |-> "Worktree"]

symmetric_range(range) == range.form = "three"
resolve_source_endpoints(w, input) ==
  LET revs == IF input.range = None THEN None ELSE rev_parse(w, input.range)
      single == revs.negative = <<>> /\ Len(revs.positive) = 1
      commit == Commit(w, CASE input.range # None -> input.range.a
                            [] input.range = None /\ input.kind = "Show" -> "HEAD"
                            [] OTHER -> "stash@{0}")
  IN  CASE input.kind \in {"Show", "StashShow"} -> [old |-> Blob(w.commits[commit].parent), new |-> Blob(commit)]
        [] input.kind = "Diff" /\ input.staged ->
             CASE input.range # None /\ ~single -> None
               [] input.range # None /\ single -> [old |-> Blob(revs.positive[1]), new |-> GitIndex]
               [] OTHER -> [old |-> IF Commit(w, "HEAD") = Err THEN None ELSE Blob(Commit(w, "HEAD")), new |-> GitIndex]
        [] input.kind = "Diff" /\ ~input.staged /\ input.range = None -> [old |-> GitIndex, new |-> Worktree]
        [] OTHER ->
             CASE symmetric_range(input.range) ->
                    [old |-> Blob(merge_base(w, Commit(w, input.range.a), Commit(w, input.range.b))),
                     new |-> Blob(Commit(w, input.range.b))]
               [] ~symmetric_range(input.range) /\ single -> [old |-> Blob(revs.positive[1]), new |-> Worktree]
               [] ~symmetric_range(input.range) /\ Len(revs.positive) = 1 /\ Len(revs.negative) = 1 ->
                    [old |-> Blob(revs.negative[1]), new |-> Blob(revs.positive[1])]
               [] OTHER -> None

\* translate_error: a revision or a stash git does not know, or no HEAD to show.
GitFails(w, input) == Sides(w, input) = Err

\* Files of the patch without the large ones, then the placeholders of these.
GitPatch(old, new, large) ==
  LET binary(c) == Binary(At(old, IF c.previous = None THEN c.path ELSE c.previous)) \/ Binary(At(new, c.path))
      shown == {c \in Changes(old, new) : c.path \notin large}
  IN  SetToSeq({DiffFile(c.path, c.previous, c.change_kind, IF binary(c) THEN {"binary"} ELSE {}) : c \in shown})
      \o SetToSeq({large_tracked_placeholder(p) : p \in large})
TrackedFiles(w, input, old, new) == GitPatch(old, new, large_tracked_files(w, input, old, new))

\* The tracked files, then the untracked ones.
git_load(w, input) ==
  LET sides == Sides(w, input)
  IN  IF GitFails(w, input) THEN Err
      ELSE [files |-> TrackedFiles(w, input, Only(sides[1], input.specs), Only(sides[2], input.specs))
                        \o SetToSeq({build_filesystem_untracked_file(w, p) : p \in load_untracked_files(w, input)}),
            endpoints |-> resolve_source_endpoints(w, input)]

(***************************************************************************)
(* Jujutsu and Sapling: no staging area, no stash, no sources              *)
(***************************************************************************)
PatchOf(old, new, specs) ==
  SetToSeq({DiffFile(c.path, c.previous, c.change_kind, {}) : c \in Changes(Only(old, specs), Only(new, specs))})
Parent(w, c) == TreeOf(w, w.commits[c].parent)

\* jj snapshots the work tree: nothing is untracked, and a revset shows its own change.
JjRefuses(input) == input.kind = "StashShow" \/ (input.kind = "Diff" /\ input.staged)
JjFails(w, input) == input.range # None /\ Commit(w, input.range.a) = Err
JjPatch(w, input) ==
  IF input.range = None THEN PatchOf(TreeOf(w, Commit(w, "HEAD")), w.work, input.specs)
  ELSE LET c == Commit(w, input.range.a) IN PatchOf(Parent(w, c), TreeOf(w, c), input.specs)
jj_load(w, input) ==
  IF JjRefuses(input) \/ JjFails(w, input) THEN Err ELSE [files |-> JjPatch(w, input), endpoints |-> None]

SlRefuses(input) == input.kind = "StashShow" \/ (input.kind = "Diff" /\ input.staged)
SlCommit(w, input) == Commit(w, IF input.range = None THEN "HEAD" ELSE input.range.a)
SlFails(w, input) == SlCommit(w, input) = Err
SlPatch(w, input) ==
  LET c == SlCommit(w, input)
  IN  IF input.kind = "Diff" THEN PatchOf(TreeOf(w, c), Tracked(w), input.specs)
      ELSE PatchOf(Parent(w, c), TreeOf(w, c), input.specs)
load_unknown_files(w, input) ==
  IF input.kind # "Diff" \/ input.staged \/ input.exclude THEN {}
  ELSE {p \in Status(w, input.specs) : is_reviewable_path(w, p)}
sl_load(w, input) ==
  IF SlRefuses(input) \/ SlFails(w, input) THEN Err
  ELSE [files |-> SlPatch(w, input) \o SetToSeq({build_filesystem_untracked_file(w, p) : p \in load_unknown_files(w, input)}),
        endpoints |-> None]

\* select_vcs: markers[i] is what the i-th directory from the current one upwards holds.
has_marker(markers, id) == id \in markers
detect_root(markers, id) ==
  LET hits == {i \in DOMAIN markers : has_marker(markers[i], id)} IN IF hits = {} THEN 1 ELSE Min(hits)
select_vcs(markers, configured) ==
  LET hits == {i \in DOMAIN markers : markers[i] # {}}
      at == markers[Min(hits)]
  IN  CASE configured # None -> [id |-> configured, root |-> detect_root(markers, configured)]
        [] configured = None /\ hits = {} -> [id |-> "Git", root |-> 1]
        [] OTHER -> [root |-> Min(hits),
                     id |-> CASE has_marker(at, "Jj") -> "Jj" [] ~has_marker(at, "Jj") /\ has_marker(at, "Sl") -> "Sl" [] OTHER -> "Git"]

source_spec(endpoint, path) ==
  CASE endpoint = None -> None
    [] endpoint # None /\ endpoint.kind = "Worktree" -> [kind |-> "File", path |-> path]
    [] endpoint # None /\ endpoint.kind = "GitBlob" -> [kind |-> "GitBlob", ref |-> endpoint.ref, path |-> path]
    [] OTHER -> [kind |-> "GitIndex", path |-> path]
OldPath(f) == IF f.previous = None THEN f.path ELSE f.previous
\* Mutant: the old text of a renamed file is looked up under its new path.
EndpointsByPath(files, endpoints) ==
  [i \in DOMAIN files |->
     IF files[i].is_untracked THEN files[i]
     ELSE [files[i] EXCEPT !.old_source = IF files[i].change_kind = "Added" THEN None ELSE source_spec(endpoints.old, files[i].path),
                           !.new_source = IF files[i].change_kind = "Deleted" THEN None ELSE source_spec(endpoints.new, files[i].path)]]
apply_source_endpoints(files, endpoints) ==
  [i \in DOMAIN files |->
     IF files[i].is_untracked THEN files[i]
     ELSE [files[i] EXCEPT !.old_source = IF files[i].change_kind = "Added" THEN None ELSE source_spec(endpoints.old, OldPath(files[i])),
                           !.new_source = IF files[i].change_kind = "Deleted" THEN None ELSE source_spec(endpoints.new, files[i].path)]]

WithSources(patch) ==
  IF patch = Err \/ patch.endpoints = None THEN patch
  ELSE [patch EXCEPT !.files = apply_source_endpoints(@, patch.endpoints)]
vcs_load(w, input, vcs) ==
  WithSources(CASE vcs = "Git" -> git_load(w, input) [] vcs = "Jj" -> jj_load(w, input) [] vcs = "Sl" -> sl_load(w, input))

\* SourceReader: what a source reads as; a path its commit does not hold reads as nothing.
read_file(w, path) == IF path \in DOMAIN w.work THEN w.work[path] ELSE Err
read_git(w, spec) ==
  CASE spec.kind = "GitIndex" -> At(w.index, spec.path)
    [] spec.kind = "GitBlob" -> IF spec.ref = None THEN None ELSE At(w.commits[spec.ref].tree, spec.path)
read(w, spec) ==
  CASE spec = None -> None
    [] spec # None /\ spec.kind = "File" -> read_file(w, spec.path)
    [] OTHER -> read_git(w, spec)

(***************************************************************************)
(* The loader                                                              *)
(***************************************************************************)
\* file_pair::load: left and right are contents, None for /dev/null.
file_pair_load(input) ==
  LET kind == CASE input.left = None -> "Added" [] input.left # None /\ input.right = None -> "Deleted" [] OTHER -> "Modified"
      flags == IF Binary(input.left) \/ Binary(input.right) THEN {"binary"} ELSE {}
      file == [DiffFile(input.display, None, kind, flags) EXCEPT
                 !.old_source = IF input.left = None THEN None ELSE [kind |-> "Text", text |-> input.left],
                 !.new_source = IF input.right = None THEN None ELSE [kind |-> "Text", text |-> input.right]]
  IN  IF input.left = input.right /\ flags = {} THEN <<>> ELSE <<file>>

\* patch::load and pager::load: text is [diff, files], diff whether it looks like a patch.
patch_load(text) == IF text.files = <<>> THEN Err ELSE text.files
pager_load(text) == IF text.diff THEN patch_load(text) ELSE PlainText

\* pull_request::load: the diff and the revisions are asked for separately.
pull_request_load(pr) ==
  IF pr.files = <<>> THEN Err
  ELSE [i \in DOMAIN pr.files |->
          IF pr.files[i].is_binary THEN pr.files[i]
          ELSE [pr.files[i] EXCEPT
                  !.old_source = IF pr.files[i].change_kind = "Added" THEN None
                                 ELSE [kind |-> "RemoteBlob", revision |-> pr.base, path |-> OldPath(pr.files[i])],
                  !.new_source = IF pr.files[i].change_kind = "Deleted" THEN None
                                 ELSE [kind |-> "RemoteBlob", revision |-> pr.head, path |-> pr.files[i].path]]]

\* An agent's context is [from, files], from "none", "file" or "stdin", a file [path, notes]
\* and a note [summary, old, new]: one bad entry refuses the whole context.
parse_range(range) ==
  CASE range = None \/ Len(range) # 2 -> None
    [] range # None /\ Len(range) = 2 /\ (range[1] = 0 \/ range[2] < range[1]) -> Err
    [] OTHER -> range
parse_note(note) ==
  IF note.summary = "" \/ Err \in {parse_range(note.old), parse_range(note.new)} THEN Err
  ELSE [old |-> parse_range(note.old), new |-> parse_range(note.new)]
parse_agent_context(files) ==
  LET parsed == [i \in DOMAIN files |->
                   [path |-> files[i].path, notes |-> [n \in DOMAIN files[i].notes |-> parse_note(files[i].notes[n])]]]
  IN  IF \/ Len(files) > MaxAgentFiles
         \/ Len(Concat([i \in DOMAIN files |-> files[i].notes])) > MaxAgentNotes
         \/ \E i \in DOMAIN parsed : parsed[i].path = "" \/ Err \in Range(parsed[i].notes)
      THEN Err ELSE parsed
UsesStdin(input) == input.kind = "Pager" \/ (input.kind = "Patch" /\ input.stdin)
resolve_agent_context(input, agent) ==
  CASE agent.from = "none" -> [agent EXCEPT !.files = <<>>]
    [] agent.from = "stdin" /\ UsesStdin(input) -> Err
    [] OTHER -> LET files == parse_agent_context(agent.files)
                IN  IF files = Err THEN Err ELSE [agent EXCEPT !.files = files]

\* The files an agent names come first, in its order.
apply_agent_context(files, agent) ==
  LET Take(acc, entry) ==
        LET hits == {i \in DOMAIN acc.rest : entry.path \in {acc.rest[i].path, acc.rest[i].previous}}
        IN  IF hits = {} THEN acc
            ELSE [done |-> Append(acc.done, [acc.rest[Min(hits)] EXCEPT !.agent = entry]),
                  rest |-> RemoveAt(acc.rest, Min(hits))]
      all == FoldLeft(Take, [done |-> <<>>, rest |-> files], agent.files)
  IN  all.done \o all.rest

\* load_outcome_with_context and load_pull_request: [files, plan, agent], PlainText or Err.
FilesOf(patch) == IF patch = Err THEN Err ELSE patch.files
Source(w, input, vcs) ==
  CASE input.kind = "FilePair" -> file_pair_load(input)
    [] input.kind = "Patch" -> patch_load(input.text)
    [] input.kind = "Pager" -> pager_load(input.text)
    [] input.kind = "PullRequest" -> pull_request_load(input.pr)
    [] OTHER -> FilesOf(vcs_load(w, input, vcs))
Plan(input) ==
  IF input.kind \in {"Pager", "PullRequest"} \/ UsesStdin(input) THEN None ELSE input
InContext(files, plan, context) ==
  CASE context = Err \/ files = Err -> Err
    [] files = PlainText -> PlainText
    [] OTHER -> [files |-> apply_agent_context(files, context), plan |-> plan, agent |-> context]
load(w, input, vcs, agent) == InContext(Source(w, input, vcs), Plan(input), resolve_agent_context(input, agent))
reload_with_agent(w, loaded, vcs) == InContext(Source(w, loaded.plan, vcs), loaded.plan, loaded.agent)

(***************************************************************************)
(* The start of a review                                                   *)
(***************************************************************************)
initial_screen(kind, pager, startOnMap) ==
  IF kind = "PullRequest" /\ ~pager /\ startOnMap THEN "ReviewMap" ELSE "Review"

\* prepare_review_map: only a pull request outside the pager is analysed, and only on request;
\* token is what the token file reads as, None without one and Err when it cannot be used.
prepare_review_map(input, config) ==
  CASE input.kind # "PullRequest" \/ input.pager \/ ~config.ai_summaries -> "Local"
    [] input.kind = "PullRequest" /\ ~input.pager /\ config.ai_summaries /\ config.token \in {None, Err} -> "Unavailable"
    [] OTHER -> "Analyzing"

\* "auto" follows the terminal, dark when it does not say; appearance is None then.
ThemeOf(config) ==
  CASE config.theme # "auto" -> config.theme
    [] config.theme = "auto" /\ config.appearance = "light" -> "light default"
    [] OTHER -> "dark default"

\* What the application starts with.
Opens(input, loaded, vcs, pager, config) ==
  [review |-> loaded, watch |-> loaded.plan # None, vcs |-> vcs, theme |-> ThemeOf(config),
   screen |-> initial_screen(input.kind, pager, config.start_on_map),
   map |-> prepare_review_map([input EXCEPT !.pager = pager], config), notices |-> ~pager]

\* run_review up to the terminal: what the command ends with, or the review that opens.
Outcome(input, loaded, vcs, config) ==
  CASE loaded \in {Err, PlainText} -> loaded
    [] loaded \notin {Err, PlainText} /\ loaded.files = <<>> -> None
    [] loaded \notin {Err, PlainText} /\ loaded.files # <<>> /\ config.watch /\ loaded.plan = None -> Err
    [] OTHER -> Opens(input, loaded, vcs, input.kind = "Pager" \/ input.pager, config)
run_review(w, input, agent, config) ==
  LET vcs == select_vcs(w.markers, config.vcs).id IN Outcome(input, load(w, input, vcs, agent), vcs, config)

\* finish_annotations: where the comments of a review go when it ends; output is what the
\* command line asked for, answer what the prompt got, Err when there is no terminal.
should_finish_local_annotations(input) == input.kind # "PullRequest"
finish_annotations(input, output, count, answer) ==
  CASE ~should_finish_local_annotations(input) -> None
    [] should_finish_local_annotations(input) /\ output # None -> output
    [] should_finish_local_annotations(input) /\ output = None /\ count = 0 -> None
    [] OTHER -> IF answer = "no" THEN "stderr" ELSE "ramo-review.md"

(***************************************************************************)
(* Properties                                                              *)
(***************************************************************************)
Vcs(input) == input.kind \in {"Diff", "Show", "StashShow"}
NewIsWork(input) == input.kind = "Diff" /\ ~input.staged /\ (input.range = None \/ input.range.form = "rev")

\* With git, a review holds every path the command compares exactly once, large files
\* included, and the untracked files exactly when the new side is the work tree; and the text
\* read for either side of a file is the text that was compared (git_load, vcs::load).
AreCompared(w, input, files, old, new) ==
  LET tracked == {i \in DOMAIN files : ~files[i].is_untracked}
  IN  /\ \A c \in Changes(old, new) : Cardinality({i \in tracked : files[i].path = c.path}) = 1
      /\ Cardinality(tracked) = Cardinality(Changes(old, new))
      /\ {files[i].path : i \in DOMAIN files \ tracked}
           = IF NewIsWork(input) /\ ~input.exclude
             THEN {p \in DOMAIN w.work \ DOMAIN w.index :
                     p \notin w.directories /\ (input.specs = {} \/ p \in input.specs)} ELSE {}
      /\ \A i \in tracked :
           LET f == files[i]
           IN  ~f.is_too_large => /\ read(w, f.old_source) = At(old, OldPath(f))
                                  /\ read(w, f.new_source) = At(new, f.path)
ShowsTheComparison(w, input) ==
  \A loaded \in {vcs_load(w, input, "Git")}, sides \in {Sides(w, input)} :
    IF sides = Err THEN loaded = Err
    ELSE AreCompared(w, input, loaded.files, Only(sides[1], input.specs), Only(sides[2], input.specs))

\* Whatever the source of a review, an agent's context loses and adds no file, and a reload of
\* an unchanged world shows what the first load showed (ReviewLoader).
ReloadShowsTheSame(w, input, vcs, agent) ==
  LET plain(files) == [i \in DOMAIN files |-> [files[i] EXCEPT !.agent = None]]
  IN  \A bare \in {Source(w, input, vcs)}, loaded \in {load(w, input, vcs, agent)} \ {Err, PlainText} :
        /\ Len(loaded.files) = Len(bare)
        /\ Range(plain(loaded.files)) = Range(bare)
        /\ \A i \in DOMAIN loaded.files : loaded.files[i].agent # None =>
             \A n \in DOMAIN loaded.files[i].agent.notes :
               \A r \in Range(loaded.files[i].agent.notes[n]) \ {None} : 1 <= r[1] /\ r[1] <= r[2]
        /\ loaded.plan # None => reload_with_agent(w, loaded, vcs) = loaded

\* A review that opens has files; one that is watched can be loaded again, a pull request never
\* is; and no patch leaves the machine unless a pull request is read outside the pager with
\* summaries asked for; and the comments of a local review always end up somewhere (run_review).
StartIsSound(w, input, agent, config) ==
  \A started \in {run_review(w, input, agent, config)} \ {Err, PlainText, None} :
    /\ started.review.files # <<>>
    /\ config.watch => started.watch
    /\ started.watch => reload_with_agent(w, started.review, started.vcs) = started.review
    /\ started.map # "Local" => input.kind = "PullRequest" /\ ~input.pager /\ config.ai_summaries
    /\ started.theme # "auto"
    /\ finish_annotations(input, config.output, config.comments, config.answer) = None =>
         config.comments = 0 \/ input.kind = "PullRequest"
=============================================================================
