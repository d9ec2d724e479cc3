----------------------------- MODULE DiffParser -----------------------------
(***************************************************************************)
(* parse_unified_diff.  A line of the input is a record [t, ...] whose t   *)
(* is what the line starts with; what follows is a path p, the numbers of  *)
(* a hunk header, or the content c.  "---" and "+++" start a file header   *)
(* and, inside a hunk, a changed line whose content begins with dashes or  *)
(* pluses.  ANSI stripping and the quoting of paths are left out.          *)
(***************************************************************************)
EXTENDS Integers, Sequences, FiniteSets, SequencesExt

DevNull == "/dev/null"
LineKinds == {"Context", "Addition", "Deletion"}

resolve_change_kind(meta) ==
  CASE meta.isNew -> "Added"
    [] ~meta.isNew /\ meta.isDeleted -> "Deleted"
    [] ~meta.isNew /\ ~meta.isDeleted /\ meta.isCopied -> "Copied"
    [] ~meta.isNew /\ ~meta.isDeleted /\ ~meta.isCopied /\ meta.isRenamed -> "Renamed"
    [] OTHER -> "Modified"

\* The kind of a line inside a hunk; None ends the hunk.
HunkLineKind(line) ==
  CASE line.t \in {"+", "+++"} -> "Addition"
    [] line.t \in {"-", "---"} -> "Deletion"
    [] line.t \in {" ", "empty"} -> "Context"
    [] line.t = "\\" -> "NoNewline"
    [] OTHER -> "End"

\* How many of the first n lines are of a kind other than the given one.
Before(lines, n, kind) == Cardinality({j \in 1..n : lines[j].kind # kind})

\* Numbers are counted from the header's starts; its counts are ignored.
Numbered(header, typed) ==
  [old_start |-> header.old, new_start |-> header.new,
   lines |-> [i \in DOMAIN typed |->
     [kind |-> typed[i].kind, content |-> typed[i].content,
      old_lineno |-> IF typed[i].kind = "Addition" THEN 0 ELSE header.old + Before(typed, i - 1, "Addition"),
      new_lineno |-> IF typed[i].kind = "Deletion" THEN 0 ELSE header.new + Before(typed, i - 1, "Deletion")]]]
Typed(body) == [i \in DOMAIN body |-> [kind |-> HunkLineKind(body[i]), content |-> body[i].c]]
parse_hunk(lines) ==
  LET ends == {i \in 2..Len(lines) : HunkLineKind(lines[i]) = "End"}
      last == IF ends = {} THEN Len(lines) ELSE Min(ends) - 1
  IN  Numbered(Head(lines), Typed(SelectSeq(SubSeq(lines, 2, last), LAMBDA l : HunkLineKind(l) # "NoNewline")))

\* The lines between "diff --git" and the header of the texts.
ReadMeta(meta, line) ==
  CASE line.t = "new file" -> [meta EXCEPT !.isNew = TRUE]
    [] line.t = "deleted file" -> [meta EXCEPT !.isDeleted = TRUE]
    [] line.t = "Binary files" -> [meta EXCEPT !.isBinary = TRUE]
    [] line.t = "rename from" -> [meta EXCEPT !.isRenamed = TRUE, !.old = line.p]
    [] line.t = "rename to" -> [meta EXCEPT !.isRenamed = TRUE, !.new = line.p]
    [] line.t = "copy from" -> [meta EXCEPT !.isCopied = TRUE, !.old = line.p]
    [] line.t = "copy to" -> [meta EXCEPT !.isCopied = TRUE, !.new = line.p]
    [] OTHER -> meta

\* The texts' header is authoritative for paths, except for /dev/null.
PatchPath(lines, i, t, path) ==
  IF i <= Len(lines) /\ lines[i].t = t /\ lines[i].p # DevNull THEN lines[i].p ELSE path

Stats(hunks) ==
  LET count(kind) == Cardinality({<<h, i>> \in UNION {{h} \X DOMAIN hunks[h].lines : h \in DOMAIN hunks} :
                                   hunks[h].lines[i].kind = kind})
  IN  [additions |-> count("Addition"), deletions |-> count("Deletion")]

\* parse_diff_git_line on the unquoted bytes after "diff --git ": two equal paths are found
\* by their length, others at the last " b/".
Sep == <<" ", "b", "/">>
\* Mutant: the two paths are always split at the last separator.
SplitAtLast(rest) ==
  LET k == Max({k \in 0..(Len(rest) - 3) : SubSeq(rest, k + 1, k + 3) = Sep})
  IN  [old |-> SubSeq(rest, 3, k), new |-> SubSeq(rest, k + 4, Len(rest))]
parse_diff_git_line(rest) ==
  LET half == (Len(rest) - 5) \div 2
      sep(k) == k + 3 <= Len(rest) /\ SubSeq(rest, k + 1, k + 3) = Sep
      split(k) == [old |-> SubSeq(rest, 3, k), new |-> SubSeq(rest, k + 4, Len(rest))]
      seps == {k \in 0..(Len(rest) - 3) : sep(k)}
  IN  IF Len(rest) >= 5 /\ SubSeq(rest, 1, 2) = <<"a", "/">> /\ sep(2 + half) THEN split(2 + half)
      ELSE split(Max(seps))

\* The lines cut where those from the i-th on begin with t; what comes before is skipped.
Cut(lines, starts) ==
  [n \in DOMAIN starts |-> SubSeq(lines, starts[n], IF n = Len(starts) THEN Len(lines) ELSE starts[n + 1] - 1)]
CutAt(lines, i, t) == Cut(lines, SelectSeq([k \in 1..Len(lines) |-> k], LAMBDA k : k >= i /\ lines[k].t = t))

\* parse_file on the lines of one file: its head, what the head and the texts' header (from
\* the i-th line on) say, and the hunks, which a binary file has not.
Meta(first, lines) ==
  FoldLeft(ReadMeta, [old |-> first.old, new |-> first.new, isNew |-> FALSE, isDeleted |-> FALSE,
                      isRenamed |-> FALSE, isCopied |-> FALSE, isBinary |-> FALSE], lines)
ParsedFile(meta, path, previous, hunks) ==
  [path |-> path, previous_path |-> IF previous = path THEN "" ELSE previous,
   change_kind |-> resolve_change_kind(meta), is_binary |-> meta.isBinary, hunks |-> hunks, stats |-> Stats(hunks)]
ParsedFrom(lines, i, meta) ==
  LET j == IF i <= Len(lines) /\ lines[i].t = "---" THEN i + 1 ELSE i
      pieces == CutAt(lines, i, "@@")
  IN  IF meta.isBinary THEN ParsedFile(meta, meta.new, meta.old, <<>>)
      ELSE ParsedFile(meta, PatchPath(lines, j, "+++", meta.new), PatchPath(lines, i, "---", meta.old),
                  [n \in DOMAIN pieces |-> parse_hunk(pieces[n])])
parse_file(lines) ==
  LET stops == {i \in 2..Len(lines) : lines[i].t \in {"---", "@@"}}
      i == IF stops = {} THEN Len(lines) + 1 ELSE Min(stops)
  IN  ParsedFrom(lines, i, Meta(Head(lines), SubSeq(lines, 2, i - 1)))

parse_unified_diff(lines) ==
  LET pieces == CutAt(lines, 1, "diff --git") IN [n \in DOMAIN pieces |-> parse_file(pieces[n])]
-----------------------------------------------------------------------------
(* The reference: what git writes for a change.  A script is the two       *)
(* texts side by side, one element per line: "=" in both, "-" old only,    *)
(* "+" new only.  The content of a line is its place in the script.        *)

OldNo(script, k) == Cardinality({j \in 1..k : script[j] # "+"})
NewNo(script, k) == Cardinality({j \in 1..k : script[j] # "-"})

\* The places shown with a context of n lines, and the hunks they form.
Near(script, n) == {k \in DOMAIN script : \E j \in DOMAIN script :
                     script[j] # "=" /\ (k = j \/ (script[k] = "=" /\ k - j \in -n..n))}
HunkStarts(script, n) == LET near == Near(script, n) IN {k \in near : k - 1 \notin near}
HunkEnd(script, n, k) == LET near == Near(script, n)
                         IN  Max({j \in near : j >= k /\ \A m \in k..j : m \in near})

\* A side without lines in the hunk is numbered by the line before it.
Start(script, k, last, no(_, _), absent) ==
  IF \E j \in k..last : script[j] # absent THEN no(script, k - 1) + 1 ELSE no(script, k - 1)

RenderLine(script, k, dashed) ==
  [t |-> CASE script[k] = "=" -> " "
           [] script[k] = "-" -> IF dashed THEN "---" ELSE "-"
           [] OTHER -> IF dashed THEN "+++" ELSE "+", c |-> k]

RenderHunk(script, n, k, dashed) ==
  LET last == HunkEnd(script, n, k)
  IN  <<[t |-> "@@", old |-> Start(script, k, last, OldNo, "+"), new |-> Start(script, k, last, NewNo, "-")]>>
      \o [i \in 1..(last - k + 1) |-> RenderLine(script, k + i - 1, dashed)]
      \o (IF last = Len(script) THEN <<[t |-> "\\"]>> ELSE <<>>)

Concat(seqs) == FoldLeft(LAMBDA a, b : a \o b, <<>>, seqs)

\* The diff of a file: [kind, old, new, binary, script, context, dashed].
Render(f) ==
  <<[t |-> "diff --git", old |-> f.old, new |-> f.new]>>
  \o (CASE f.kind = "Added" -> <<[t |-> "new file"]>>
        [] f.kind = "Deleted" -> <<[t |-> "deleted file"]>>
        [] f.kind = "Renamed" -> <<[t |-> "rename from", p |-> f.old], [t |-> "rename to", p |-> f.new]>>
        [] f.kind = "Copied" -> <<[t |-> "copy from", p |-> f.old], [t |-> "copy to", p |-> f.new]>>
        [] OTHER -> <<>>)
  \o (IF f.binary THEN <<[t |-> "Binary files"]>>
      ELSE IF HunkStarts(f.script, f.context) = {} THEN <<>>
      ELSE <<[t |-> "---", p |-> IF f.kind = "Added" THEN DevNull ELSE f.old],
             [t |-> "+++", p |-> IF f.kind = "Deleted" THEN DevNull ELSE f.new]>>
           \o Concat(LET ks == SetToSortSeq(HunkStarts(f.script, f.context), <)
                     IN  [i \in DOMAIN ks |-> RenderHunk(f.script, f.context, ks[i], f.dashed)]))

\* The header of a file that was not renamed names its path, also where the path holds
\* what separates the two (parse_diff_git_line).
HeaderNamesThePath(path) ==
  parse_diff_git_line(<<"a", "/">> \o path \o Sep \o path) = [old |-> path, new |-> path]

\* Every line of the diff is read with the number it has in its text, no changed
\* line is missed or counted twice, and kind, paths and counts are the file's
\* (parse_unified_diff), whatever the content of a line looks like.
ReadsTheFile(p, f, s, lines) ==
  /\ p.change_kind = f.kind /\ p.path = f.new /\ p.is_binary = f.binary
  /\ p.previous_path = (IF f.old = f.new THEN "" ELSE f.old)
  /\ f.binary \/ [j \in DOMAIN lines |-> lines[j].content] = SetToSortSeq(Near(s, f.context), <)
  /\ \A j \in DOMAIN lines :
       LET k == lines[j].content
       IN  /\ lines[j].old_lineno = (IF s[k] = "+" THEN 0 ELSE OldNo(s, k))
           /\ lines[j].new_lineno = (IF s[k] = "-" THEN 0 ELSE NewNo(s, k))
  /\ f.binary \/ p.stats = [additions |-> Cardinality({k \in DOMAIN s : s[k] = "+"}),
                            deletions |-> Cardinality({k \in DOMAIN s : s[k] = "-"})]
AllLines(hunks) == Concat([h \in DOMAIN hunks |-> hunks[h].lines])
AreRead(files, parsed) ==
  /\ DOMAIN parsed = DOMAIN files
  /\ \A i \in DOMAIN files : ReadsTheFile(parsed[i], files[i], files[i].script, AllLines(parsed[i].hunks))
ReadsWhatGitWrote(files) ==
  AreRead(files, parse_unified_diff(<<[t |-> "other"]>> \o Concat([i \in DOMAIN files |-> Render(files[i])])))
=============================================================================
