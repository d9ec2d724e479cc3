------------------------------ MODULE DiffRows ------------------------------
(***************************************************************************)
(* The rows a file of the diff is shown as (review/row.rs), its collapsed  *)
(* gaps (review/context.rs), the lines a comment is written for            *)
(* (begin_remote_human_note, notes/target.rs) and the place of a thread    *)
(* that comes back from GitHub (review/github_threads.rs).                 *)
(*                                                                         *)
(* A file is what DiffParser returns; a missing line number is 0.  Text is *)
(* the content of a line; emphasis, wrapping and markup are left out.      *)
(***************************************************************************)
EXTENDS DiffParser

CONSTANT None

-----------------------------------------------------------------------------
(* Gaps between hunks.                                                     *)

SatSub(a, b) == IF a > b THEN a - b ELSE 0
MaxOf(a, b) == IF a > b THEN a ELSE b
MinOf(a, b) == IF a < b THEN a ELSE b
CountNot(hunk, kind) == Before(hunk.lines, Len(hunk.lines), kind)

\* One hunk of derive_collapsed_gaps: the cursors behind it, and the gap before it.
GapBefore(state, hunk) ==
  LET index == state.index + 1
      count == MinOf(SatSub(hunk.old_start, state.old), SatSub(hunk.new_start, state.new))
  IN  [index |-> index,
       gaps |-> IF count = 0 THEN state.gaps
                ELSE Append(state.gaps, [position |-> "Before", hunk |-> index, count |-> count,
                                         old |-> state.old, new |-> state.new]),
       old |-> MaxOf(state.old, hunk.old_start + CountNot(hunk, "Addition")),
       new |-> MaxOf(state.new, hunk.new_start + CountNot(hunk, "Deletion"))]

\* derive_collapsed_gaps: the trailing gap is known once the source was read.
derive_collapsed_gaps(file, side, length) ==
  LET all == FoldLeft(GapBefore, [index |-> 0, gaps |-> <<>>, old |-> 1, new |-> 1], file.hunks)
      cursor == IF side = "Old" THEN all.old ELSE all.new
  IN  IF file.hunks = <<>> \/ length = None \/ cursor > length THEN all.gaps
      ELSE Append(all.gaps, [position |-> "Trailing", hunk |-> Len(file.hunks), count |-> length - cursor + 1,
                             old |-> all.old, new |-> all.new])

\* select_gap_for_toggle: the first gap at or below the selected hunk, else the trailing one.
select_gap_for_toggle(gaps, hunk) ==
  LET below == SelectSeq(gaps, LAMBDA g : g.position = "Before" /\ g.hunk >= hunk)
      trailing == SelectSeq(gaps, LAMBDA g : g.position = "Trailing")
  IN  IF below # <<>> THEN Head(below) ELSE IF trailing # <<>> THEN Head(trailing) ELSE None

source_for_context(file) == IF file.change_kind = "Deleted" THEN "Old" ELSE "New"

\* expand_gap_lines: the lines of the gap, or None when the source is too short.
expand_gap_lines(gap, source, side) ==
  LET start == IF side = "Old" THEN gap.old ELSE gap.new
  IN  IF start - 1 + gap.count > Len(source) THEN None
      ELSE [i \in 1..gap.count |-> [old |-> gap.old + i - 1, new |-> gap.new + i - 1, text |-> source[start + i - 1]]]
-----------------------------------------------------------------------------
(* Rows.                                                                   *)

Cell(kind, old, new, text) == [kind |-> kind, old |-> old, new |-> new, text |-> text]
cell_from_line(line) == Cell(line.kind, line.old_lineno, line.new_lineno, line.content)
empty_cell == Cell("Empty", 0, 0, 0)

Row(kind, hunk, old, new, left, right) ==
  [kind |-> kind, hunk |-> hunk, old |-> old, new |-> new, left |-> left, right |-> right]
Plain(kind, hunk, old, new) == Row(kind, hunk, old, new, empty_cell, empty_cell)

\* A line as a row of one column, or of two equal ones for context.
push_stack_row(hunk, line) ==
  Row("Line", hunk, line.old_lineno, line.new_lineno, cell_from_line(line), cell_from_line(line))

\* The runs of changed lines and the single context lines of a hunk.
BlockOf(lines, i) == {j \in DOMAIN lines : \A m \in MinOf(i, j)..MaxOf(i, j) : lines[m].kind # "Context"}
OfKind(lines, block, kind) == SetToSortSeq({j \in block : lines[j].kind = kind}, <)

\* A run of changes: deletions and additions side by side, in order.
PairedRows(lines, block, hunk) ==
  LET dels == OfKind(lines, block, "Deletion")
      adds == OfKind(lines, block, "Addition")
      left(n) == IF n <= Len(dels) THEN cell_from_line(lines[dels[n]]) ELSE empty_cell
      right(n) == IF n <= Len(adds) THEN cell_from_line(lines[adds[n]]) ELSE empty_cell
  IN  [n \in 1..MaxOf(Len(dels), Len(adds)) |-> Row("Line", hunk, left(n).old, right(n).new, left(n), right(n))]

\* Each run is laid out at its first line.
build_split_rows(lines, hunk) ==
  Concat([i \in DOMAIN lines |->
    IF lines[i].kind = "Context" THEN <<push_stack_row(hunk, lines[i])>>
    ELSE IF i = 1 \/ lines[i - 1].kind = "Context" THEN PairedRows(lines, BlockOf(lines, i), hunk)
    ELSE <<>>])

build_stack_rows(lines, hunk) == [i \in DOMAIN lines |-> push_stack_row(hunk, lines[i])]

\* append_gap_rows: the folded gap, and its lines when it is open and readable.
append_gap_rows(gap, open, source, side) ==
  LET lines == IF open /\ source # None THEN expand_gap_lines(gap, source, side) ELSE None
  IN  <<Plain("Collapsed", gap.hunk, gap.old, gap.new)>>
      \o (IF lines = None THEN <<>>
          ELSE [i \in DOMAIN lines |->
                 LET cell == Cell("Context", lines[i].old, lines[i].new, lines[i].text)
                 IN  Row("Expanded", gap.hunk, lines[i].old, lines[i].new, cell, cell)])

GapRows(gaps, position, hunk, open, source, side) ==
  LET here == SelectSeq(gaps, LAMBDA g : g.position = position /\ (position = "Trailing" \/ g.hunk = hunk))
  IN  IF here = <<>> THEN <<>> ELSE append_gap_rows(Head(here), open, source, side)

\* build_row_plan_with_context; placeholder_plan for a file without hunks.
build_row_plan(file, layout, headers, open, source) ==
  LET side == source_for_context(file)
      gaps == derive_collapsed_gaps(file, side, IF source = None THEN None ELSE Len(source))
      body(h) == IF layout = "Split" THEN build_split_rows(file.hunks[h].lines, h)
                 ELSE build_stack_rows(file.hunks[h].lines, h)
  IN  IF file.hunks = <<>> THEN <<Plain("Placeholder", 0, 0, 0)>>
      ELSE Concat([h \in DOMAIN file.hunks |->
             GapRows(gaps, "Before", h, open, source, side)
             \o (IF headers THEN <<Plain("HunkHeader", h, 0, 0)>> ELSE <<>>)
             \o body(h)])
           \o GapRows(gaps, "Trailing", 0, open, source, side)
-----------------------------------------------------------------------------
(* Comments.                                                               *)

\* The side and line a row offers: the focused column, or the only one.
LineOffered(row, layout, focus) ==
  IF layout = "Split"
  THEN [side |-> focus, line |-> IF focus = "Left" THEN row.left.old ELSE row.right.new]
  ELSE IF row.left.kind = "Deletion" THEN [side |-> "Left", line |-> row.left.old]
  ELSE [side |-> "Right", line |-> row.left.new]

\* begin_remote_human_note on the selected rows: one file, one side, lines without a hole.
begin_remote_human_note(rows, layout, focus) ==
  LET offered == [i \in DOMAIN rows |-> LineOffered(rows[i], layout, focus)]
      last == Len(rows)
  IN  IF \/ \E i \in DOMAIN rows : rows[i].kind \notin {"Line", "Expanded"}
         \/ \E i \in DOMAIN rows : offered[i].side # offered[1].side \/ offered[i].line = 0
         \/ \E i \in 1..(last - 1) : offered[i + 1].line - offered[i].line \notin {0, 1}
      THEN None
      ELSE [side |-> offered[1].side, start |-> offered[1].line, end |-> offered[last].line]

Numbers(hunk, side) == {IF side = "Left" THEN l.old_lineno ELSE l.new_lineno : l \in ToSet(hunk.lines)} \ {0}

\* resolve_ranges_target: the first hunk whose span of lines meets the range.
resolve_ranges_target(file, t) ==
  LET meets(h) == LET n == Numbers(file.hunks[h], t.side)
                  IN  n # {} /\ t.start <= Max(n) /\ Min(n) <= t.end
      hits == {h \in DOMAIN file.hunks : meets(h)}
  IN  [side |-> t.side, start |-> t.start, end |-> t.end, line |-> t.start,
       hunk |-> IF hits = {} THEN 0 ELSE Min(hits)]

\* place_thread: a thread is shown in the one hunk that has all its lines, at its last line.
\* Mutant: the card of a thread stands at its first line.
AtFirstLine(file, t) ==
  LET hits == {h \in DOMAIN file.hunks : t.start..t.end \subseteq Numbers(file.hunks[h], t.side)}
  IN  IF t.start > t.end \/ hits = {} THEN None
      ELSE [side |-> t.side, start |-> t.start, end |-> t.end, line |-> t.start, hunk |-> Min(hits)]
place_thread(file, t) ==
  LET hits == {h \in DOMAIN file.hunks : t.start..t.end \subseteq Numbers(file.hunks[h], t.side)}
  IN  IF t.start > t.end \/ hits = {} THEN None
      ELSE [side |-> t.side, start |-> t.start, end |-> t.end, line |-> t.end, hunk |-> Min(hits)]

\* note_anchor_index: the row a card is shown below.
note_anchor_index(rows, target) ==
  LET exact == {i \in DOMAIN rows : /\ rows[i].hunk = target.hunk
                                    /\ (IF target.side = "Left" THEN rows[i].old ELSE rows[i].new) = target.line}
      near == {i \in DOMAIN rows : rows[i].hunk = target.hunk}
  IN  IF exact # {} THEN Min(exact) ELSE IF near # {} THEN Min(near) ELSE 1
\* place_github_threads: by the path of the thread, the new one first; a thread about the
\* file stands above it, one that has no place goes to the trailer with its reason.
FileOf(files, path) ==
  LET now == {i \in DOMAIN files : files[i].path = path}
      before == {i \in DOMAIN files : files[i].previous_path = path}
  IN  IF now # {} THEN Min(now) ELSE IF before # {} THEN Min(before) ELSE 0
Placement(files, thread) ==
  LET i == FileOf(files, thread.path)
      target == IF i = 0 \/ thread.subject # "Line" THEN None ELSE place_thread(files[i], thread)
  IN  [file |-> IF thread.subject = "File" \/ target # None THEN i ELSE 0,
       file_level |-> thread.subject = "File", target |-> target, id |-> thread.id]
place_github_threads(files, threads) ==
  LET placed == [n \in DOMAIN threads |-> Placement(files, threads[n])]
  IN  [by_file |-> [i \in DOMAIN files |-> SelectSeq(placed, LAMBDA p : p.file = i)],
       unplaced |-> SelectSeq(placed, LAMBDA p : p.file = 0)]

\* build_row_plan_with_notes: cards below their row, in the order GitHub, agent, live,
\* human, draft, asks, ask draft; agents' cards only when they are shown.
NoteRow(card) == [Plain("Note", IF card.target = None THEN 0 ELSE card.target.hunk, 0, 0) EXCEPT !.left.text = card.id]
NoteRows(cards) == [i \in DOMAIN cards |-> NoteRow(cards[i])]
build_row_plan_with_notes(rows, github, agent, live, mine, show) ==
  LET lined == SelectSeq(github, LAMBDA c : ~c.file_level)
      shown == SelectSeq(agent, LAMBDA c : show \/ c.user) \o (IF show THEN live ELSE <<>>)
      cards == lined \o shown \o mine
      below(i) == SelectSeq(cards, LAMBDA c : note_anchor_index(rows, c.target) = i)
  IN  NoteRows(SelectSeq(github, LAMBDA c : c.file_level))
      \o Concat([i \in DOMAIN rows |-> <<rows[i]>> \o NoteRows(below(i))])
github_trailer_plan(unplaced) == NoteRows(unplaced)
-----------------------------------------------------------------------------
(* Properties, for a file f as in DiffParser.                              *)

Texts(f) == LET s == f.script
            IN  [old |-> SetToSortSeq({k \in DOMAIN s : s[k] # "+"}, <),
                 new |-> SetToSortSeq({k \in DOMAIN s : s[k] # "-"}, <)]
Parsed(f) == parse_unified_diff(Render(f))[1]
Source(f) == IF f.kind = "Deleted" THEN Texts(f).old ELSE Texts(f).new

\* With every gap open a file with changes is shown whole, in either layout: each
\* line of each text once, in order, next to its own number; unopened gaps hide
\* only lines that did not change (build_row_plan, derive_collapsed_gaps,
\* expand_gap_lines).
ShowsTheFile(f) ==
  \A p \in {Parsed(f)} : \A layout \in {"Split", "Stack"} : \A open \in BOOLEAN :
    \A rows \in {SelectSeq(build_row_plan(p, layout, TRUE, open, Source(f)), LAMBDA r : r.kind \in {"Line", "Expanded"})} :
      LET cells(side) == SelectSeq([i \in DOMAIN rows |-> IF side = "Left" THEN rows[i].left ELSE rows[i].right],
                           LAMBDA c : c.kind \notin {"Empty", IF side = "Left" THEN "Addition" ELSE "Deletion"})
          left == cells("Left")  right == cells("Right")
          all == p.hunks # <<>> /\ open
      IN  /\ \A i \in DOMAIN left : left[i].text = Texts(f).old[left[i].old]
          /\ \A i \in DOMAIN right : right[i].text = Texts(f).new[right[i].new]
          /\ \A i \in 1..(Len(left) - 1) : left[i].old < left[i + 1].old
          /\ \A i \in 1..(Len(right) - 1) : right[i].new < right[i + 1].new
          /\ all => Len(left) = Len(Texts(f).old) /\ Len(right) = Len(Texts(f).new)
          /\ \A k \in DOMAIN f.script : f.script[k] # "=" =>
               \/ \E i \in DOMAIN left : left[i].text = k
               \/ \E i \in DOMAIN right : right[i].text = k

\* A comment written on a selection of rows is about exactly the lines of the
\* selection; the thread it becomes on GitHub is found again in the same diff, also
\* under the path the file had before, and shown below the last of them; the note
\* before publication is shown in the hunk it was written in
\* (begin_remote_human_note, place_github_threads, build_row_plan_with_notes).
LandsBelow(p, rows, b, path, t) ==
  LET thread == [id |-> "t", path |-> path, subject |-> "Line", side |-> t.side, start |-> t.start, end |-> t.end]
      note == [id |-> "n", target |-> resolve_ranges_target(p, t)]
      card(all, id) == {i \in DOMAIN all : all[i].kind = "Note" /\ all[i].left.text = id}
  IN  \A placed \in {place_github_threads(<<p>>, <<thread>>)} :
      \A all \in {build_row_plan_with_notes(rows, placed.by_file[1], <<>>, <<>>, <<note>>, FALSE)} :
        /\ placed.unplaced = <<>> /\ Cardinality(card(all, "n")) = 1
        /\ \E i \in card(all, "t") : all[i - 1] = rows[b] \/ (all[i - 1].kind = "Note" /\ all[i - 2] = rows[b])
CommentsLand(f) ==
  \A p \in {Parsed(f)}, layout \in {"Split", "Stack"}, focus \in {"Left", "Right"}, headers \in BOOLEAN :
    \A rows \in {build_row_plan(p, layout, headers, FALSE, None)} :
      \A a \in DOMAIN rows : \A b \in a..Len(rows) :
        \A t \in {begin_remote_human_note(SubSeq(rows, a, b), layout, focus)} \ {None} :
          LET text == IF t.side = "Left" THEN Texts(f).old ELSE Texts(f).new
              shown(i) == IF t.side = "Left" THEN rows[i].left.text ELSE rows[i].right.text
          IN  /\ {text[n] : n \in t.start..t.end} = {shown(i) : i \in a..b}
              /\ \A path \in {f.old, f.new} : LandsBelow(p, rows, b, path, t)
              /\ resolve_ranges_target(p, t).hunk = rows[a].hunk
=============================================================================
