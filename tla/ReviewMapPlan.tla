---------------------------- MODULE ReviewMapPlan ----------------------------
(***************************************************************************)
(* The Review Map: the exact map built from a diff (core review_map), the  *)
(* batches a model is asked about (server analysis/budget), and what is    *)
(* accepted of its answer (enrichment, quality, the ollama and pi          *)
(* analyzers) and merged into the map.                                     *)
(*                                                                         *)
(* A changed file is [path, dirs, marks, add, del, binary, patch]: marks   *)
(* are the kinds its path, the configured patterns or its patch give       *)
(* evidence for, patch its length or None.  An identifier of a file is its *)
(* path.  A text is what the checks tell apart about it.  The model is     *)
(* external: its answer is any proposal, Malformed or Unreachable.         *)
(***************************************************************************)
EXTENDS Integers, Sequences, FiniteSets, SequencesExt

CONSTANTS None, Malformed, Unreachable

Kinds == {"Authored", "Test", "Generated", "Migration", "Documentation", "Other"}
Distinct(seq) == \A i, j \in DOMAIN seq : i # j => seq[i] # seq[j]
Total(seq, f(_)) == FoldLeft(LAMBDA a, x : a + f(x), 0, seq)
-----------------------------------------------------------------------------
(* The exact map.                                                          *)

\* The first kind there is evidence for.
classify_path(file) ==
  LET order == <<"Generated", "Test", "Migration", "Documentation">>
      hits == {i \in DOMAIN order : order[i] \in file.marks}
  IN  IF hits = {} THEN "Authored" ELSE order[Min(hits)]

\* Authored files are grouped by their first two directories.
group_for(file, kind) ==
  IF kind \in {"Authored", "Other"} THEN <<"authored">> \o SubSeq(file.dirs, 1, Min({2, Len(file.dirs)})) ELSE <<kind>>

coverage(file) ==
  CASE file.binary -> "Binary"
    [] ~file.binary /\ file.patch = None -> "MetadataOnly"
    [] OTHER -> IF file.cut THEN "Truncated" ELSE "Full"

\* CODEOWNERS: the last rule that matches; a rule is [paths, owner].
owner_for(rules, path) ==
  LET hits == {i \in DOMAIN rules : path \in rules[i].paths}
  IN  IF hits = {} THEN None ELSE rules[Max(hits)].owner

totals(files) ==
  [files |-> Len(files), add |-> Total(files, LAMBDA f : f.add), del |-> Total(files, LAMBDA f : f.del),
   kinds |-> [k \in Kinds \ {"Other"} |->
               Cardinality({i \in DOMAIN files : files[i].kind = k \/ (k = "Authored" /\ files[i].kind = "Other")})]]

is_fixed(kind) == kind \in {"Test", "Generated"}

Group(label, kind, members, insight) ==
  [label |-> label, kind |-> kind, files |-> [i \in DOMAIN members |-> members[i].path], insight |-> insight,
   add |-> Total(members, LAMBDA f : f.add), del |-> Total(members, LAMBDA f : f.del), folded |-> insight = None /\ is_fixed(kind)]

\* validate_exact_map: every file in one group, and the counts add up.
validate_exact_map(map) ==
  LET byPath(p) == CHOOSE f \in ToSet(map.files) : f.path = p
      members == FoldLeft(LAMBDA a, g : a \o g.files, <<>>, map.groups)
  IN  /\ Distinct(members)
      /\ ToSet(members) = {f.path : f \in ToSet(map.files)}
      /\ \A g \in ToSet(map.groups) : /\ g.add = Total(g.files, LAMBDA p : byPath(p).add)
                                      /\ g.del = Total(g.files, LAMBDA p : byPath(p).del)
      /\ map.totals = totals(map.files)

\* build_review_map: None for a path that is not relative or there twice, or a rule without owner.
IfExact(map) == IF validate_exact_map(map) THEN map ELSE None
build_review_map(input, rules) ==
  LET file(i) == LET s == input[i]
                 IN  [path |-> s.path, kind |-> classify_path(s), add |-> s.add, del |-> s.del,
                      owner |-> owner_for(rules, s.path), coverage |-> coverage(s), insight |-> None, order |-> 0]
      files == [i \in DOMAIN input |-> file(i)]
      key(i) == group_for(input[i], files[i].kind)
      keys == SetToSeq({key(i) : i \in DOMAIN input})
      of(k) == SetToSortSeq({i \in DOMAIN input : key(i) = k}, <)
      groups == [n \in DOMAIN keys |-> LET is == of(keys[n])
                                       IN  Group(keys[n], files[is[1]].kind, [m \in DOMAIN is |-> files[is[m]]], None)]
  IN  IF \/ ~Distinct([i \in DOMAIN input |-> input[i].path]) \/ \E f \in ToSet(input) : f.path = "/"
         \/ \E r \in ToSet(rules) : r.owner = None
      THEN None ELSE IfExact([files |-> files, groups |-> groups, totals |-> totals(files), status |-> "Ready"])
-----------------------------------------------------------------------------
(* Batches.                                                                *)

\* enrichment_request: the map's facts and the patches of the input.
enrichment_request(input, map) ==
  [groups |-> [n \in DOMAIN map.groups |-> [label |-> map.groups[n].label, files |-> map.groups[n].files]],
   files |-> [i \in DOMAIN map.files |-> [path |-> map.files[i].path, kind |-> map.files[i].kind,
                                          coverage |-> map.files[i].coverage, patch |-> input[i].patch]]]

file_priority(kind) ==
  CASE kind = "Migration" -> 0 [] kind = "Authored" -> 1 [] kind = "Documentation" -> 2
    [] kind = "Other" -> 3 [] kind = "Test" -> 4 [] OTHER -> 5

\* The length of a prompt: something for every file, and the patches.
estimate_prompt(files) == Total(files, LAMBDA f : 1 + (IF f.patch = None THEN 0 ELSE f.patch))

\* Generated files are described by their counts only.
prepare_patch(file) ==
  IF file.kind = "Generated" THEN [file EXCEPT !.patch = None, !.coverage = "MetadataOnly"]
  ELSE IF file.coverage = "Binary" THEN [file EXCEPT !.patch = None] ELSE file

\* truncate_to_prompt_budget: the binary search finds the longest prefix that fits.
truncate_to_prompt_budget(file, limit) ==
  LET fits(n) == estimate_prompt(<<[file EXCEPT !.patch = n]>>) <= limit
      lengths == {n \in 0..file.patch : n = 0 \/ fits(n)}
  IN  IF file.patch = None THEN file
      ELSE IF fits(file.patch) THEN file
      ELSE [file EXCEPT !.patch = Max(lengths), !.coverage = "Truncated"]

\* One file of budget_batches: it joins the batch, or closes it and starts the next one.
PutFile(state, source, budget) ==
  LET file == prepare_patch(source)
      full == /\ state.current # <<>>
              /\ \/ Len(state.current) >= Max({budget.files, 1})
                 \/ estimate_prompt(Append(state.current, file)) > budget.tokens
      done == IF full THEN Append(state.done, state.current) ELSE state.done
      current == IF full THEN <<>> ELSE state.current
  IN  [done |-> done,
       current |-> Append(current, IF current = <<>> THEN truncate_to_prompt_budget(file, budget.tokens) ELSE file)]

\* build_batch: the groups of a request restricted to some of its files.
build_batch(request, files) ==
  LET paths == {f.path : f \in ToSet(files)}
      some == [n \in DOMAIN request.groups |-> [request.groups[n] EXCEPT !.files = SelectSeq(@, LAMBDA p : p \in paths)]]
  IN  [groups |-> SelectSeq(some, LAMBDA g : g.files # <<>>), files |-> files]

budget_batches(request, budget) ==
  LET sorted == SortSeq(request.files, LAMBDA f, g : file_priority(f.kind) < file_priority(g.kind))
      all(end) == Append(end.done, end.current)
      batches(cut) == [n \in DOMAIN cut |-> build_batch(request, cut[n])]
  IN  batches(all(FoldLeft(LAMBDA s, f : PutFile(s, f, budget), [done |-> <<>>, current |-> <<>>], sorted)))
-----------------------------------------------------------------------------
(* Answers.  A proposal is [groups, files, order]: groups [paths, summary, *)
(* risk], insights [path, summary, risk], and paths in the order to read.  *)

BadText == {"empty", "too long"}
validate_text(text) == text \notin BadText
GroupPaths(proposal) == FoldLeft(LAMBDA a, g : a \o g.paths, <<>>, proposal.groups)
Flexible(files) == {f.path : f \in {f \in ToSet(files) : ~is_fixed(f.kind)}}

\* validate_enrichment: groups and order hold every file that is not fixed, once, and
\* no other; an insight is about a known file; texts have their bounds.
\* Mutant: a file may be in two groups.
GroupsOverlap(files, proposal) ==
  /\ \A g \in ToSet(proposal.groups) : validate_text(g.summary) /\ (g.risk = None \/ validate_text(g.risk))
  /\ ToSet(GroupPaths(proposal)) = Flexible(files)
  /\ Distinct([i \in DOMAIN proposal.files |-> proposal.files[i].path])
  /\ \A i \in ToSet(proposal.files) : /\ i.path \in {f.path : f \in ToSet(files)}
                                      /\ validate_text(i.summary) /\ (i.risk = None \/ validate_text(i.risk))
  /\ Distinct(proposal.order) /\ ToSet(proposal.order) = Flexible(files)
validate_enrichment(files, proposal) ==
  /\ \A g \in ToSet(proposal.groups) : validate_text(g.summary) /\ (g.risk = None \/ validate_text(g.risk))
  /\ Distinct(GroupPaths(proposal)) /\ ToSet(GroupPaths(proposal)) = Flexible(files)
  /\ Distinct([i \in DOMAIN proposal.files |-> proposal.files[i].path])
  /\ \A i \in ToSet(proposal.files) : /\ i.path \in {f.path : f \in ToSet(files)}
                                      /\ validate_text(i.summary) /\ (i.risk = None \/ validate_text(i.risk))
  /\ Distinct(proposal.order) /\ ToSet(proposal.order) = Flexible(files)

\* validate_enrichment_quality: every file that is not fixed has an insight, once; no
\* text is generic, repeats the path, rates the risk in a word or claims what no patch shows.
Poor == {"generic", "path only", "unsupported", "control characters"}
validate_enrichment_quality(files, proposal) ==
  /\ \A p \in Flexible(files) : Cardinality({i \in DOMAIN proposal.files : proposal.files[i].path = p}) = 1
  /\ \A t \in ToSet(proposal.files) \cup ToSet(proposal.groups) :
       t.summary \notin Poor /\ t.risk \notin {"bare", "unsupported", "control characters"}

\* parse_and_validate, and validate of the pi analyzer: against the request itself.
parse_and_validate(request, answer) ==
  /\ answer # Malformed
  /\ validate_enrichment(request.files, answer)
  /\ validate_enrichment_quality(request.files, answer)

\* analyze_request, and attempt of the pi analyzer: one answer, and one repair of what
\* was rejected; None is a failure.
analyze_request(request, answers) ==
  IF answers[1] = Unreachable THEN None
  ELSE IF parse_and_validate(request, answers[1]) THEN answers[1]
  ELSE IF answers[2] = Unreachable \/ ~parse_and_validate(request, answers[2]) THEN None
  ELSE answers[2]

\* analyze_with_digest, and analyze_blocking of the pi analyzer: one batch is the answer;
\* several are put together by one more request about all files without their patches,
\* which only ollama refuses when it is too long.
AnalyzeBatches(batches, request, backend, budget, batchAnswers, answers) ==
  LET synthesis == [request EXCEPT !.files = [i \in DOMAIN @ |-> [@[i] EXCEPT !.patch = None]]]
  IN  IF Len(batches) = 1 THEN analyze_request(batches[1], answers)
      ELSE IF \E n \in DOMAIN batches : analyze_request(batches[n], batchAnswers[n]) = None THEN None
      ELSE IF backend = "ollama" /\ estimate_prompt(synthesis.files) > budget.tokens THEN None
      ELSE analyze_request(synthesis, answers)
analyze(request, backend, budget, batchAnswers, answers) ==
  AnalyzeBatches(budget_batches(request, budget), request, backend, budget, batchAnswers, answers)

\* merge_enrichment: the groups of the proposal, then the fixed ones as they were.
merge_enrichment(map, proposal) ==
  LET byPath(p) == CHOOSE f \in ToSet(map.files) : f.path = p
      members(g) == [i \in DOMAIN g.paths |-> byPath(g.paths[i])]
      proposed == [n \in DOMAIN proposal.groups |->
                     LET g == proposal.groups[n]
                         kinds == {f.kind : f \in ToSet(members(g))}
                     IN  Group(<<"ai", n>>, IF Cardinality(kinds) = 1 THEN members(g)[1].kind ELSE "Other", members(g), g.summary)]
      place(p) == LET at == {i \in DOMAIN proposal.order : proposal.order[i] = p} IN IF at = {} THEN 0 ELSE Min(at)
      insight(p) == LET at == {i \in DOMAIN proposal.files : proposal.files[i].path = p}
                    IN  IF at = {} THEN None ELSE proposal.files[Min(at)].summary
      merged == [map EXCEPT !.status = "Enriched",
                   !.groups = proposed \o SelectSeq(map.groups, LAMBDA g : is_fixed(g.kind)),
                   !.files = [i \in DOMAIN @ |-> LET p == map.files[i].path IN [@[i] EXCEPT !.insight = insight(p), !.order = place(p)]]]
  IN  IF ~validate_enrichment(map.files, proposal) \/ ~validate_exact_map(merged) THEN None ELSE merged

\* project_map: what the phone shows, with the files viewed on GitHub.
project_map(map, viewed) ==
  [status |-> map.status, groups |-> map.groups, totals |-> map.totals,
   files |-> [i \in DOMAIN map.files |-> [path |-> map.files[i].path, order |-> map.files[i].order,
                                          summary |-> map.files[i].insight, viewed |-> map.files[i].path \in viewed]]]
-----------------------------------------------------------------------------
(* Properties.                                                             *)

\* Every changed file is in exactly one batch, metadata at least; a batch keeps to the
\* limits on files and length unless one file alone exceeds the length even without its
\* patch; and only a file that was cut or generated says so (budget_batches,
\* truncate_to_prompt_budget).
BatchesFit(input, budget) ==
  \A map \in {build_review_map(input, <<>>)} \ {None} :
  \A batches \in {budget_batches(enrichment_request(input, map), budget)} :
    LET all == FoldLeft(LAMBDA a, b : a \o b.files, <<>>, batches)
    IN  /\ Distinct([i \in DOMAIN all |-> all[i].path]) /\ {f.path : f \in ToSet(all)} = {f.path : f \in ToSet(input)}
        /\ \A b \in ToSet(batches) : /\ Len(b.files) <= budget.files
                                     /\ estimate_prompt(b.files) <= budget.tokens \/ (Len(b.files) = 1 /\ b.files[1].patch \in {None, 0})
        /\ \A f \in ToSet(all) : \E i \in ToSet(input) :
             /\ i.path = f.path
             /\ f.coverage = "Full" => f.patch = i.patch
             /\ f.patch # None => i.patch # None /\ f.patch <= i.patch /\ f.kind # "Generated"

\* Whatever the model answers, what is accepted becomes a map: merging never refuses it,
\* the counts are those of the diff, tests and generated files stay in their folded
\* groups, and every other file is in one group, has an insight and a place of its own in
\* the order to read (analyze, validate_enrichment, merge_enrichment).
GuideIsExact(input, backend, budget, batchAnswers, answers) ==
  \A map \in {build_review_map(input, <<>>)} \ {None} :
  \A result \in {analyze(enrichment_request(input, map), backend, budget, batchAnswers, answers)} \ {None} :
  \A merged \in {merge_enrichment(map, result)} :
    LET phone == project_map(merged, {})
        free == {f \in ToSet(merged.files) : ~is_fixed(f.kind)}
    IN  /\ merged # None /\ merged.totals = map.totals
        /\ \A g \in ToSet(map.groups) : is_fixed(g.kind) => g \in ToSet(merged.groups) /\ g.folded
        /\ \A g \in ToSet(merged.groups) : g.folded => \A p \in ToSet(g.files) : p \notin {f.path : f \in free}
        /\ {f.order : f \in free} = 1..Cardinality(free)
        /\ \A f \in ToSet(phone.files) : f.path \in {x.path : x \in free} => f.summary \notin {None} \cup Poor \cup BadText
=============================================================================
