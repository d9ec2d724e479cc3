--------------------------- MODULE ReviewGeometry ---------------------------
(***************************************************************************)
(* Where rows and text are on the screen: heights and offsets of the       *)
(* planned rows (review/geometry.rs), the place kept across a rebuild      *)
(* (review/anchor.rs), wrapped note text with its caret (review/row.rs)    *)
(* and the text under a selection (review/selection.rs).                   *)
(*                                                                         *)
(* A file is [id, compacted, digits, rows, anchors]; a row [key, hunk,     *)
(* kind, left, right] with the display widths of its cells, or the height  *)
(* of its card.  A text is a sequence of characters: "a", the wide "W", a  *)
(* combining "'", a space or a newline.                                    *)
(***************************************************************************)
EXTENDS Integers, Sequences, FiniteSets, SequencesExt

CONSTANT None

SPLIT_MIN_WIDTH == 160
FULL_MIN_WIDTH == 220

SatSub(a, b) == IF a > b THEN a - b ELSE 0
MaxOf(a, b) == IF a > b THEN a ELSE b
MinOf(a, b) == IF a < b THEN a ELSE b

resolve_responsive_layout(requested, width, sidebar) ==
  LET viewport == IF width >= FULL_MIN_WIDTH THEN "Full" ELSE IF width >= SPLIT_MIN_WIDTH THEN "Medium" ELSE "Tight"
  IN  [layout |-> IF requested # "Auto" THEN requested ELSE IF viewport = "Tight" THEN "Stack" ELSE "Split",
       show_sidebar |-> sidebar /\ viewport = "Full"]

stack_columns(width, digits, numbers) ==
  LET gutter == IF numbers THEN 2 * digits + 5 ELSE 2
  IN  [code_width |-> SatSub(SatSub(width, 1), gutter), text_cell |-> 1 + gutter]

split_columns(width, digits, numbers) ==
  LET left == SatSub(width, 2) \div 2
      gutter == IF numbers THEN digits + 3 ELSE 2
  IN  [left_code_width |-> SatSub(left, gutter), right_code_width |-> SatSub(SatSub(width, 2) - left, gutter),
       divider_cell |-> 1 + left, left_text_cell |-> 1 + gutter, right_text_cell |-> 2 + left + gutter]
-----------------------------------------------------------------------------
(* Geometry.                                                               *)

wrapped_height(width, room) == IF room = 0 THEN 1 ELSE (MaxOf(width, 1) + room - 1) \div room

measure_row_height(row, digits, options) ==
  CASE row.kind = "Note" -> row.left
    [] row.kind # "Note" /\ (~options.wrap \/ row.kind \notin {"Stack", "Split"}) -> 1
    [] row.kind = "Stack" /\ options.wrap -> wrapped_height(row.left, stack_columns(options.width, digits, options.numbers).code_width)
    [] OTHER -> LET c == split_columns(options.width, digits, options.numbers)
                IN  MaxOf(wrapped_height(row.left, c.left_code_width), wrapped_height(row.right, c.right_code_width))

\* Rows one below the other from the given offset.
Stacked(plan, top, owner, options) ==
  LET height(i) == measure_row_height(plan.rows[i], plan.digits, options)
      above == [n \in 0..Len(plan.rows) |-> FoldLeft(LAMBDA a, i : a + height(i), 0, [i \in 1..n |-> i])]
  IN  [i \in DOMAIN plan.rows |-> [key |-> plan.rows[i].key, top |-> top + above[i - 1], height |-> height(i),
                                   owner |-> owner, hunk |-> plan.rows[i].hunk]]
Bottom(rows, top) == IF rows = <<>> THEN top ELSE rows[Len(rows)].top + rows[Len(rows)].height

\* A file below those placed so far: a separator, a header unless it is compacted, its rows.
PlaceFile(g, file, options) ==
  LET body == g.total + (IF g.sections = <<>> THEN 0 ELSE 1) + (IF file.compacted THEN 0 ELSE 1)
      rows == Stacked(file, body, file.id, options)
  IN  [sections |-> Append(g.sections, [id |-> file.id, section_top |-> g.total, body_top |-> body, anchors |-> file.anchors]),
       rows |-> g.rows \o rows, total |-> Bottom(rows, body)]

\* build_review_geometry; the trailer of unplaced threads is <<>> or one plan.
WithTrailer(g, trailer, options) ==
  LET rows == IF trailer = <<>> THEN <<>> ELSE Stacked(trailer[1], g.total + 2, None, options)
  IN  [sections |-> g.sections, rows |-> g.rows \o rows, viewport |-> options.height,
       total |-> IF rows = <<>> THEN g.total ELSE Bottom(rows, g.total + 2)]
build_review_geometry(files, trailer, options) ==
  WithTrailer(FoldLeft(LAMBDA acc, f : PlaceFile(acc, f, options), [sections |-> <<>>, rows |-> <<>>, total |-> 0], files),
              trailer, options)

\* partition_point: how many rows from the first one on satisfy the test.
Leading(rows, Test(_)) == LET bad == {i \in DOMAIN rows : ~Test(rows[i])}
                          IN  IF bad = {} THEN Len(rows) ELSE Min(bad) - 1

\* The row at the offset, the next one when a header is there, the last one past the end.
row_at_offset(g, offset) ==
  LET i == Leading(g.rows, LAMBDA r : r.top + r.height <= offset)
  IN  IF g.rows = <<>> THEN None ELSE g.rows[MinOf(i + 1, Len(g.rows))]

\* The indexes are 0-based and half open, as the range of the code.
visible_window(g, top, height, overscan) ==
  LET from == Leading(g.rows, LAMBDA r : r.top + r.height <= SatSub(top, overscan))
      to == MaxOf(from, Leading(g.rows, LAMBDA r : r.top < top + height + overscan))
      above == IF from < Len(g.rows) THEN g.rows[from + 1].top ELSE g.total
      below == IF to = 0 THEN above ELSE Bottom(SubSeq(g.rows, 1, to), 0)
  IN  IF g.rows = <<>> THEN [from |-> 0, to |-> 0, top_spacer |-> 0, bottom_spacer |-> g.total]
      ELSE [from |-> from, to |-> to, top_spacer |-> above, bottom_spacer |-> SatSub(g.total, below)]

max_scroll_top(g) == SatSub(g.total, g.viewport)

\* The last row with a key, as the index built by insertion finds it.
RowByKey(g, key) == LET hits == {i \in DOMAIN g.rows : g.rows[i].key = key}
                    IN  IF hits = {} THEN None ELSE g.rows[Max(hits)]

capture_viewport_anchor(g, top, file, hunk) ==
  LET row == row_at_offset(g, top)
  IN  IF row = None THEN [key |-> None, intra |-> 0, file |-> file, hunk |-> hunk, offset |-> top]
      ELSE [key |-> row.key, intra |-> SatSub(top, row.top), file |-> IF row.owner = None THEN file ELSE row.owner,
            hunk |-> IF row.hunk = 0 THEN hunk ELSE row.hunk, offset |-> top]

\* The row itself, else the first row of its hunk, else its file, else the old offset.
\* Mutant: a row that is still there is not looked for.
RestoreAtHunk(g, anchor) ==
  LET sections == SelectSeq(g.sections, LAMBDA s : s.id = anchor.file)
      hunk == IF sections = <<>> \/ anchor.hunk \notin DOMAIN sections[1].anchors THEN None
              ELSE RowByKey(g, sections[1].anchors[anchor.hunk])
      top == CASE hunk # None -> hunk.top
               [] hunk = None /\ sections # <<>> -> sections[1].body_top
               [] OTHER -> anchor.offset
  IN  MinOf(top, max_scroll_top(g))
restore_viewport_anchor(g, anchor) ==
  LET row == IF anchor.key = None THEN None ELSE RowByKey(g, anchor.key)
      sections == SelectSeq(g.sections, LAMBDA s : s.id = anchor.file)
      hunk == IF sections = <<>> \/ anchor.hunk \notin DOMAIN sections[1].anchors THEN None
              ELSE RowByKey(g, sections[1].anchors[anchor.hunk])
      top == CASE row # None -> row.top + MinOf(anchor.intra, SatSub(row.height, 1))
               [] row = None /\ hunk # None -> hunk.top
               [] row = None /\ hunk = None /\ sections # <<>> -> sections[1].body_top
               [] OTHER -> anchor.offset
  IN  MinOf(top, max_scroll_top(g))
-----------------------------------------------------------------------------
(* Wrapped text.  Indexes of characters are 0-based over the whole text.   *)

CharWidth(c) == CASE c = "W" -> 2 [] c = "'" -> 0 [] OTHER -> 1
TextWidth(text) == FoldLeft(LAMBDA a, c : a + CharWidth(c), 0, text)

\* str::lines with the index of each line's first character; a final newline starts no line.
SourceLines(text) ==
  LET starts == {i \in DOMAIN text : i = 1 \/ text[i - 1] = "nl"}
      end(i) == LET nls == {j \in i..Len(text) : text[j] = "nl"} IN IF nls = {} THEN Len(text) ELSE Min(nls) - 1
      ss == SetToSortSeq(starts, <)
  IN  [n \in DOMAIN ss |-> [origin |-> ss[n] - 1, chars |-> SubSeq(text, ss[n], end(ss[n]))]]

\* The line being filled is [out, cells, width]; a cell is [c, src].
Break(s, indent) == IF s.width > Len(indent) THEN [out |-> Append(s.out, s.cells), cells |-> indent, width |-> Len(indent)] ELSE s
PutChar(s, c, src, indent, room) ==
  LET t == IF s.width + CharWidth(c) > room THEN Break(s, indent) ELSE s
  IN  [t EXCEPT !.cells = Append(@, [c |-> c, src |-> src]), !.width = @ + CharWidth(c)]

\* A word follows one space, or starts a line when it does not fit; one longer
\* than a line is broken.  The space stands for the run of spaces before the word.
PutWord(s, word, indent, room) ==
  LET space == [c |-> " ", src |-> word.gap]
      fits == s.width + 1 + TextWidth(word.chars) <= room
      t == IF s.width > Len(indent) /\ fits THEN [s EXCEPT !.cells = Append(@, space), !.width = @ + 1]
           ELSE Break(s, indent)
  IN  FoldLeft(LAMBDA u, k : PutChar(u, word.chars[k], word.src + k - 1, indent, room),
               t, [k \in DOMAIN word.chars |-> k])

\* The words of a line: their characters, first index, and index of the spaces before.
Words(line) ==
  LET chars == line.chars
      starts == SetToSortSeq({i \in DOMAIN chars : chars[i] # " " /\ (i = 1 \/ chars[i - 1] = " ")}, <)
      end(i) == LET sp == {j \in i..Len(chars) : chars[j] = " "} IN IF sp = {} THEN Len(chars) ELSE Min(sp) - 1
  IN  [n \in DOMAIN starts |-> [chars |-> SubSeq(chars, starts[n], end(starts[n])), src |-> line.origin + starts[n] - 1,
                                gap |-> IF n = 1 THEN line.origin + starts[1] - 1 ELSE line.origin + end(starts[n - 1])]]

WrapLine(line, room) ==
  LET lead == LET w == {i \in DOMAIN line.chars : line.chars[i] # " "} IN IF w = {} THEN Len(line.chars) ELSE Min(w) - 1
      put(indent) == FoldLeft(LAMBDA u, w : PutWord(u, w, indent, room),
                              [out |-> <<>>, cells |-> indent, width |-> Len(indent)], Words(line))
      lines(s, indent) == IF s.width > Len(indent) THEN Append(s.out, s.cells)
                          ELSE IF line.chars = <<>> THEN Append(s.out, <<>>) ELSE s.out
      indented(indent) == lines(put(indent), indent)
  IN  indented(IF lead + 4 <= room THEN [i \in 1..lead |-> [c |-> " ", src |-> line.origin]] ELSE <<>>)

\* There is a line even where nothing is left of the text.
OrOneLine(lines) == IF lines = <<>> THEN <<<<>>>> ELSE lines
wrap_note_text_indexed(text, width) ==
  OrOneLine(FoldLeft(LAMBDA a, l : a \o WrapLine(l, MaxOf(width, 1)), <<>>, SourceLines(text)))

\* Row and column, 1- and 0-based, of the caret before the character with this index.
caret_cell(lines, caret) ==
  LET at(r) == {p \in DOMAIN lines[r] : lines[r][p].src >= caret}
      rows == {r \in DOMAIN lines : at(r) # {}}
      width(cells) == TextWidth([i \in DOMAIN cells |-> cells[i].c])
  IN  IF rows = {} THEN [row |-> Len(lines), col |-> width(lines[Len(lines)])]
      ELSE [row |-> Min(rows), col |-> width(SubSeq(lines[Min(rows)], 1, Min(at(Min(rows))) - 1))]
-----------------------------------------------------------------------------
(* Selection.  A row is [layout, left, right, cols].                       *)

\* A combining character goes with the one before it.
cell_slice(text, from, to) ==
  LET start(i) == TextWidth(SubSeq(text, 1, i - 1))
      wide(i) == CharWidth(text[i]) > 0
      hit(i) == wide(i) /\ start(i) < to /\ start(i) + CharWidth(text[i]) > from
      base(i) == LET b == {j \in 1..i : wide(j)} IN IF b = {} THEN 0 ELSE Max(b)
      keep == {i \in DOMAIN text : base(i) # 0 /\ hit(base(i))}
  IN  IF from >= to THEN <<>> ELSE LET ks == SetToSortSeq(keep, <) IN [n \in DOMAIN ks |-> text[ks[n]]]

side_at(row, cell) == IF row.layout = "Stack" THEN "Stack" ELSE IF cell > row.cols.divider_cell THEN "Right" ELSE "Left"
text_for_side(row, side) == IF row.layout = "Split" /\ side = "Right" THEN row.right ELSE row.left
local_cell(row, side, cell) ==
  SatSub(cell, IF row.layout = "Stack" THEN row.cols.text_cell
               ELSE IF side = "Right" THEN row.cols.right_text_cell ELSE row.cols.left_text_cell)

Ordered(a, b) == a.row < b.row \/ (a.row = b.row /\ a.cell <= b.cell)

\* The selected text of each row, on the side where the selection began.
project_selection(rows, anchor, focus) ==
  LET side == side_at(rows[anchor.row], anchor.cell)
      start == IF Ordered(anchor, focus) THEN anchor ELSE focus
      end == IF Ordered(anchor, focus) THEN focus ELSE anchor
      last == MinOf(end.row, Len(rows))
      slice(r) == LET text == text_for_side(rows[r], side)
                      w == TextWidth(text)
                      from == IF r = start.row THEN MinOf(local_cell(rows[r], side, start.cell), w) ELSE 0
                      to == IF r = last THEN MinOf(local_cell(rows[r], side, end.cell), w) ELSE w
                  IN  cell_slice(text, MinOf(from, to), MaxOf(from, to))
  IN  IF anchor.row \notin DOMAIN rows \/ start.row > Len(rows) THEN <<>>
      ELSE [n \in 1..(last - start.row + 1) |-> slice(start.row + n - 1)]

word_cell_range(text, target) ==
  LET start(i) == TextWidth(SubSeq(text, 1, i - 1))
      hits == {i \in DOMAIN text : start(i) <= target /\ target < start(i + 1)}
      i == Min(hits)
      word(j) == text[j] \in {"a", "W"}
      from == LET b == {j \in 1..(i - 1) : ~word(j)} IN IF b = {} THEN 1 ELSE Max(b) + 1
      to == LET b == {j \in (i + 1)..Len(text) : ~word(j)} IN IF b = {} THEN Len(text) ELSE Min(b) - 1
  IN  IF hits = {} THEN [from |-> target, to |-> target]
      ELSE IF ~word(i) THEN [from |-> start(i), to |-> start(i + 1)]
      ELSE [from |-> start(from), to |-> start(to + 1)]
-----------------------------------------------------------------------------
(* Properties.                                                             *)

\* A rebuild (a resize, wrapping switched on or off) keeps the row that was at the
\* top of the screen there, as long as the review is tall enough below it; a second
\* rebuild does not move the view again; and whatever the offset, the window that is
\* drawn holds every row of the screen and accounts for the whole height
\* (capture_viewport_anchor, restore_viewport_anchor, visible_window).
ViewKeepsItsPlace(files, trailer, before, after) ==
  \A g \in {build_review_geometry(files, trailer, before)}, h \in {build_review_geometry(files, trailer, after)} :
  \A top \in 0..max_scroll_top(g) :
  \A new \in {restore_viewport_anchor(h, capture_viewport_anchor(g, top, None, 0))} :
  \A w \in {visible_window(h, new, after.height, 1)} :
    /\ row_at_offset(g, top) # None /\ new < max_scroll_top(h) => row_at_offset(h, new).key = row_at_offset(g, top).key
    /\ new # max_scroll_top(h) => restore_viewport_anchor(h, capture_viewport_anchor(h, new, None, 0)) = new
    /\ \A i \in DOMAIN h.rows : h.rows[i].top < new + after.height /\ h.rows[i].top + h.rows[i].height > new
                                  => i \in (w.from + 1)..w.to
    /\ w.from < w.to => w.top_spacer + (Bottom(SubSeq(h.rows, 1, w.to), 0) - h.rows[w.from + 1].top) + w.bottom_spacer = h.total

\* Wrapped text shows every character but spaces once, in order and within the width;
\* the caret is drawn before the character it stands before, and never moves back when
\* the text cursor moves forward (wrap_note_text_indexed, caret_cell).
CaretIsOnItsCharacter(text, width) ==
  \A lines \in {wrap_note_text_indexed(text, width)} :
  LET shown == FoldLeft(LAMBDA a, l : a \o SelectSeq(l, LAMBDA x : x.c # " "), <<>>, lines)
      inked == SetToSortSeq({i \in DOMAIN text : text[i] \notin {" ", "nl"}}, <)
      at(c) == caret_cell(lines, c)
      cells(r) == [i \in DOMAIN lines[r] |-> lines[r][i].c]
      After(p, q) == q.row > p.row \/ (q.row = p.row /\ q.col >= p.col)
  IN  /\ [n \in DOMAIN shown |-> shown[n].src + 1] = inked
      /\ \A r \in DOMAIN lines : width >= 2 => TextWidth(cells(r)) <= width
      /\ \A i \in 1..Len(text) : After(at(i - 1), at(i))
      /\ \A n \in DOMAIN inked : LET p == at(inked[n] - 1)
                                 IN  \E k \in DOMAIN lines[p.row] :
                                       lines[p.row][k].src = inked[n] - 1 /\ TextWidth(SubSeq(cells(p.row), 1, k - 1)) = p.col

\* A selection copies the text of the side it began on and nothing else, in either
\* direction: the two halves of a line add up to the line wherever no wide character
\* is cut, one that is cut is copied whole, and a double click copies one whole word
\* (project_selection, cell_slice, word_cell_range).
SelectionIsWhatIsShown(text, other, layout, side) ==
  LET cols == IF layout = "Stack" THEN stack_columns(20, 1, TRUE) ELSE split_columns(30, 1, TRUE)
      base == CASE layout = "Stack" -> cols.text_cell [] side = "Left" -> cols.left_text_cell [] OTHER -> cols.right_text_cell
      row == [layout |-> layout, cols |-> cols, left |-> IF side = "Right" THEN other ELSE text, right |-> IF side = "Right" THEN text ELSE other]
      w == TextWidth(text)
      Copy(a, b) == project_selection(<<row, row>>, [row |-> a[1], cell |-> base + a[2]], [row |-> b[1], cell |-> base + b[2]])
      edges == {TextWidth(SubSeq(text, 1, n)) : n \in 0..Len(text)}
  IN  /\ \A k \in 0..w : Copy(<<1, 0>>, <<1, k>>) = Copy(<<1, k>>, <<1, 0>>)
      /\ \A k \in 0..w : k \in edges <=> Copy(<<1, 0>>, <<1, k>>)[1] \o Copy(<<1, k>>, <<1, w>>)[1] = text
      /\ \A k \in edges : /\ Copy(<<1, k>>, <<2, k>>)[1] = Copy(<<1, k>>, <<1, w>>)[1]
                          /\ Copy(<<1, k>>, <<2, k>>)[2] = Copy(<<2, 0>>, <<2, k>>)[1]
      /\ \A k \in 0..(w - 1) : \A r \in {word_cell_range(text, k)} :
           LET word == Copy(<<1, r.from>>, <<1, r.to>>)[1]
           IN  /\ r.from <= k /\ k < r.to
               /\ {r.from, r.to} \subseteq edges
               /\ " " \notin ToSet(word) \/ Len(word) = 1
=============================================================================
