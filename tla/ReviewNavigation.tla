------------------------- MODULE ReviewNavigation -------------------------
(***************************************************************************)
(* The navigation half of the terminal's ReviewController                  *)
(* (src/review/state.rs, row.rs, progress.rs): which rows the review has,  *)
(* where the cursor is, which files are viewed or compacted, how much has  *)
(* been reviewed, and the marks the Review Map keeps of it (src/app.rs).   *)
(*                                                                         *)
(* A diff is a sequence of files with a number of hunks, each of one       *)
(* changed line; a file without hunks (binary, too large) only has a       *)
(* placeholder row.  Wrapping, context lines, side, layout and widths do   *)
(* not change which rows exist, and are left out.  A filter is the set of  *)
(* the files it matches.  File ids are numbers, in the order of the ids.   *)
(***************************************************************************)
EXTENDS Integers, Sequences, FiniteSets

CONSTANTS Diffs,       \* the diffs a reload may find, a sequence
          Filters,     \* what the user may type in the filter
          TestFiles,   \* ids of the files the test patterns match
          NoteTargets, \* lines a note may be attached to, <<file, line>>
          MaxLines,    \* bound on the lines of a file
          NoRow        \* no row is selected

FileIds == UNION {{d[i].id : i \in DOMAIN d} : d \in {Diffs[v] : v \in DOMAIN Diffs}}

ASSUME NavigationAssumption ==
    /\ Diffs # << >> /\ Diffs \in Seq(Seq([id : Nat \ {0}, lines : 0..MaxLines]))
    /\ MaxLines \in Nat /\ TestFiles \subseteq FileIds
    /\ FileIds \in Filters /\ Filters \subseteq SUBSET FileIds
    /\ NoteTargets \subseteq FileIds \X (1..MaxLines)

VARIABLES view,        \* what the row plan is built from
          cursor,      \* selected_row_key
          reviewed,    \* ReviewProgress.reviewed
          mapReviewed  \* reviewed_paths of the Review Map
vars == <<view, cursor, reviewed, mapReviewed>>

Rows == [kind : {"line", "note", "compact"}, file : FileIds, line : 0..MaxLines]

(* A row is never taken for the absence of one.                             *)
ASSUME NoRowIsApart == NoRow \notin Rows

TypeOK ==
    /\ view \in [ver : DOMAIN Diffs, filter : Filters, viewed : SUBSET FileIds,
                 expanded : SUBSET FileIds, tests : BOOLEAN, notes : SUBSET NoteTargets]
    /\ cursor \in Rows \cup {NoRow}
    /\ reviewed \subseteq FileIds \X (1..MaxLines)
    /\ mapReviewed \subseteq FileIds
---------------------------------------------------------------------------
(* The row plan. *)

IdsOf == [v \in DOMAIN Diffs |-> {Diffs[v][i].id : i \in DOMAIN Diffs[v]}]
Position(v, f) == CHOOSE i \in DOMAIN Diffs[v] : Diffs[v][i].id = f

(* A stable sort: the test files come after the others, and both keep the   *)
(* order of the diff.  A file's place counts only in comparisons.           *)
order_tests_last(v) ==
    [f \in IdsOf[v] |-> Position(v, f) + IF f \in TestFiles THEN Len(Diffs[v]) ELSE 0]

IndexOf == [v \in DOMAIN Diffs |-> order_tests_last(v)]
LinesOf == [v \in DOMAIN Diffs |-> [f \in IdsOf[v] |-> 1..Diffs[v][Position(v, f)].lines]]

Ids(w) == IdsOf[w.ver]
Index(w, f) == IndexOf[w.ver][f]
Lines(w, f) == LinesOf[w.ver][f]
Visible(w) == Ids(w) \cap w.filter

is_file_compacted(w, f) == f \in w.viewed \/ (w.tests /\ f \in TestFiles /\ f \notin w.expanded)

LineRow(f, l) == [kind |-> "line", file |-> f, line |-> l]
NoteRow(n) == [kind |-> "note", file |-> n[1], line |-> n[2]]
CompactRow(f) == [kind |-> "compact", file |-> f, line |-> 0]

PlanRows(w, f) ==
    IF is_file_compacted(w, f) THEN {CompactRow(f)}
    ELSE {LineRow(f, l) : l \in Lines(w, f)} \cup {NoteRow(n) : n \in {m \in w.notes : m[1] = f}}

Plan(w) == UNION {PlanRows(w, f) : f \in Visible(w)}
is_selectable(r) == r.kind \in {"line", "compact"}
Selectable(w) == {r \in Plan(w) : is_selectable(r)}
hunk_index(r) == r.line

(* A card follows the row of its line, or the header above the first line   *)
(* when a reload took its line away.  Cards at one place keep their order.  *)
AnchorLine(w, r) == IF r.kind = "note" /\ r.line \notin Lines(w, r.file) THEN 0 ELSE r.line
Rank(w, r) == (MaxLines + 2) * ((MaxLines + 1) * Index(w, r.file) + AnchorLine(w, r))
              + (IF r.kind = "note" THEN r.line + 1 ELSE 0)

MinBy(S, Key(_)) == CHOOSE r \in S : \A q \in S : Key(r) <= Key(q)
MaxBy(S, Key(_)) == CHOOSE r \in S : \A q \in S : Key(r) >= Key(q)
First(w, S) == MinBy(S, LAMBDA r : Rank(w, r))
Last(w, S) == MaxBy(S, LAMBDA r : Rank(w, r))

(* The one after r, or before it, in the order of key, around the end.      *)
wrapping_index(key, r, d) ==
    LET later == {q \in DOMAIN key : key[q] > key[r]}
        earlier == {q \in DOMAIN key : key[q] < key[r]}
        place(q) == key[q]
    IN  IF d = 1 THEN MinBy(IF later # {} THEN later ELSE DOMAIN key, place)
        ELSE MaxBy(IF earlier # {} THEN earlier ELSE DOMAIN key, place)
---------------------------------------------------------------------------
(* The cursor. *)

(* A summary row has no line number and is as far from every row as any.    *)
semantic_line_distance(r, q) ==
    IF 0 \in {r.line, q.line} THEN MaxLines
    ELSE IF r.line > q.line THEN r.line - q.line ELSE q.line - r.line

nearest_selectable_index(w, ref, S) ==
    LET closest == {r \in S : \A q \in S : semantic_line_distance(ref, r) <= semantic_line_distance(ref, q)}
    IN  First(w, closest)

(* Mutant: a row that is gone keeps the cursor. *)
RebuildKeepsRow(w, prev, selected_file_id) ==
    IF prev # NoRow \/ Selectable(w) = {} THEN prev ELSE First(w, Selectable(w))

(* Mutant: the nearest row is taken from the file the sidebar last selected. *)
RebuildForgetsFile(w, prev, selected_file_id) ==
    LET ofFile == {r \in Selectable(w) : r.file = selected_file_id}
    IN  IF prev \in Plan(w) THEN prev
        ELSE IF Selectable(w) = {} THEN NoRow
        ELSE First(w, IF ofFile # {} THEN ofFile ELSE Selectable(w))

(* Where rebuild puts the cursor: the same row, the nearest one of its      *)
(* hunk, of its file, or the first of the review.  Without a previous row   *)
(* the file just selected comes first.                                      *)
rebuild(w, prev, selected_file_id) ==
    LET sel == Selectable(w)
        ofHunk == {r \in sel : prev # NoRow /\ r.file = prev.file /\ hunk_index(r) = hunk_index(prev)}
        ofFile == {r \in sel : r.file = (IF prev # NoRow THEN prev.file ELSE selected_file_id)}
    IN  CASE prev \in Plan(w) -> prev
          [] prev \notin Plan(w) /\ ofHunk # {} -> nearest_selectable_index(w, prev, ofHunk)
          [] prev \notin Plan(w) /\ ofHunk = {} /\ ofFile # {} ->
                IF prev # NoRow THEN nearest_selectable_index(w, prev, ofFile) ELSE First(w, ofFile)
          [] OTHER -> IF sel # {} THEN First(w, sel) ELSE NoRow

Rebuilt(w) == rebuild(w, cursor, 0)

(* After the rebuild the hunk is looked up in the file that is selected     *)
(* then, which need not be the one asked for.                               *)
select_target(w, f, hunk) ==
    LET landed == rebuild(w, NoRow, f)
        target == {r \in Selectable(w) : landed # NoRow /\ r.file = landed.file
                                         /\ r.kind = "line" /\ hunk_index(r) = hunk}
    IN  IF target # {} THEN First(w, target) ELSE landed
---------------------------------------------------------------------------
(* Review progress. *)

Changed(w) == UNION {{f} \X Lines(w, f) : f \in Ids(w)}
Ordinal(w, k) == (MaxLines + 1) * Index(w, k[1]) + k[2]
Key(r) == <<r.file, r.line>>

(* Every changed line before the last one on screen counts, whether or not  *)
(* its own row was shown.                                                   *)
observe_through(w, keys, done) ==
    done \cup {k \in Changed(w) : \E m \in keys : Ordinal(w, k) <= Ordinal(w, m)}

FileKeys(w, f) == {k \in Changed(w) : k[1] = f}
is_file_reviewed(w, f) == FileKeys(w, f) \subseteq reviewed

(* Every operation is followed by a snapshot or a frame before the next     *)
(* one; the lowest row on screen may be any.                                *)
observe_viewport_progress(w, done) ==
    \/ Plan(w) = {} /\ reviewed' = done
    \/ \E bottom \in Plan(w) :
          LET shown == {r \in Plan(w) : r.kind = "line" /\ Rank(w, r) <= Rank(w, bottom)}
          IN  reviewed' = observe_through(w, {Key(r) : r \in shown}, done)
---------------------------------------------------------------------------
(* Moving: the plan stays as it is. *)

GoTo(r) ==
    /\ cursor' = r
    /\ observe_viewport_progress(view, reviewed)
    /\ UNCHANGED <<view, mapReviewed>>

(* The position of a card among the selectable rows is taken to be 0.       *)
move_cursor(d) ==
    LET sel == Selectable(view)
        here == IF cursor \in sel THEN cursor ELSE First(view, sel)
        next == {r \in sel : IF d = 1 THEN Rank(view, r) > Rank(view, here) ELSE Rank(view, r) < Rank(view, here)}
    IN  /\ sel # {}
        /\ GoTo(IF next = {} THEN here ELSE IF d = 1 THEN First(view, next) ELSE Last(view, next))

JumpTop == Selectable(view) # {} /\ GoTo(First(view, Selectable(view)))
JumpBottom == Selectable(view) # {} /\ GoTo(Last(view, Selectable(view)))

(* Scroll, the wheel and the scroll bar: the row nearest to the middle.     *)
select_from_viewport ==
    \/ \E r \in Selectable(view) : GoTo(r)
    \/ Selectable(view) = {} /\ GoTo(NoRow)

move_file(d) ==
    LET ids == {CompactRow(f) : f \in Visible(view)}
        key(r) == Index(view, r.file)
        here == {r \in ids : cursor # NoRow /\ r.file = cursor.file}
    IN  /\ ids # {}
        /\ LET next == wrapping_index([r \in ids |-> key(r)], IF here # {} THEN MinBy(here, key) ELSE MinBy(ids, key), d)
           IN  GoTo(select_target(view, next.file, 1))

move_hunk(d) ==
    LET targets == {LineRow(k[1], k[2]) : k \in {m \in Changed(view) : m[1] \in Visible(view)}}
        key(r) == Rank(view, r)
        here == {r \in targets : cursor # NoRow /\ r.file = cursor.file /\ r.line = hunk_index(cursor)}
    IN  /\ targets # {}
        /\ LET next == wrapping_index([r \in targets |-> key(r)], IF here # {} THEN MinBy(here, key) ELSE MinBy(targets, key), d)
           IN  GoTo(select_target(view, next.file, next.line))

move_annotated_hunk(d) ==
    LET cards == {r \in Plan(view) : r.kind = "note"}
        key(r) == Rank(view, r)
        start == IF cursor \in cards THEN cursor ELSE IF d = 1 THEN MaxBy(cards, key) ELSE MinBy(cards, key)
    IN  cards # {} /\ GoTo(wrapping_index([r \in cards |-> key(r)], start, d))

SelectFile(f) == f \in Visible(view) /\ GoTo(select_target(view, f, 1))

SelectNote(n) == NoteRow(n) \in Plan(view) /\ GoTo(NoteRow(n))

(* `ramo session navigate`: any file of the review, also one the filter     *)
(* hides; comment targets are ordered by file id and must be visible.       *)
navigate_session_target(f, hunk) == <<f, hunk>> \in Changed(view) /\ GoTo(select_target(view, f, hunk))

navigate_session_comment(d) ==
    LET targets == {NoteRow(n) : n \in {m \in view.notes \cap Changed(view) : m[1] \in Visible(view)}}
        key(r) == (MaxLines + 1) * r.file + r.line
        here == {r \in targets : cursor # NoRow /\ r.file = cursor.file /\ r.line = hunk_index(cursor)}
        start == IF here # {} THEN MinBy(here, key) ELSE IF d = 1 THEN MaxBy(targets, key) ELSE MinBy(targets, key)
    IN  /\ targets # {}
        /\ LET next == wrapping_index([r \in targets |-> key(r)], start, d)
           IN  GoTo(select_target(view, next.file, next.line))
---------------------------------------------------------------------------
(* Changing the plan: every change ends in a rebuild. *)

Change(w, c, done, marks) ==
    /\ view' = w
    /\ cursor' = c
    /\ mapReviewed' = marks
    /\ observe_viewport_progress(w, done)

SetFilter(match) ==
    LET w == [view EXCEPT !.filter = match]
    IN  match # view.filter /\ Change(w, Rebuilt(w), reviewed, mapReviewed)

ToggleTestFiles ==
    LET w == [view EXCEPT !.tests = ~@, !.expanded = {}]
        compacted == IF w.tests THEN UNION {FileKeys(w, f) : f \in TestFiles} ELSE {}
    IN  Change(w, Rebuilt(w), reviewed \cup compacted, mapReviewed)

(* The map is of the diff the review was opened with, whatever is reloaded. *)
MapFiles == IdsOf[1]

sync_map_reviewed(f, seen) ==
    IF ~seen THEN mapReviewed \ {f}
    ELSE mapReviewed \cup ({f} \cap MapFiles)

toggle_file_viewed ==
    /\ cursor # NoRow
    /\ LET f == cursor.file
           seen == f \notin view.viewed
           w == IF seen THEN [view EXCEPT !.viewed = @ \cup {f}]
                ELSE [view EXCEPT !.viewed = @ \ {f}, !.expanded = @ \cup {f}]
           next == wrapping_index([r \in {CompactRow(g) : g \in Visible(w)} |-> Index(w, r.file)],
                                  CompactRow(f), 1)
       IN  Change(w, IF seen THEN select_target(w, next.file, 1) ELSE Rebuilt(w),
                  IF seen THEN reviewed \cup FileKeys(w, f) ELSE reviewed,
                  sync_map_reviewed(f, seen))

Expanded(f) == [view EXCEPT !.viewed = @ \ {f}, !.expanded = @ \cup {f}]

(* Enter hands the effect to the app, which clears the mark on the map.     *)
ExpandSelectedFile ==
    /\ cursor # NoRow /\ cursor.kind = "compact"
    /\ LET f == cursor.file
       IN  Change(Expanded(f), Rebuilt(Expanded(f)), reviewed,
                  IF f \in view.viewed THEN sync_map_reviewed(f, FALSE) ELSE mapReviewed)

(* A click drops the effect: the mark on the map stays (app.rs:1533).       *)
ClickCompactedFile(f) ==
    /\ CompactRow(f) \in Plan(view)
    /\ Change(Expanded(f), Rebuilt(Expanded(f)), reviewed, mapReviewed)

AddNote(n) ==
    LET w == [view EXCEPT !.notes = @ \cup {n}]
    IN  n \in Changed(view) \ view.notes /\ Change(w, Rebuilt(w), reviewed, mapReviewed)

RemoveNote(n) ==
    LET w == [view EXCEPT !.notes = @ \ {n}]
    IN  n \in view.notes /\ Change(w, Rebuilt(w), reviewed, mapReviewed)

replace_files(v) ==
    LET ids == Ids([view EXCEPT !.ver = v])
        w == [view EXCEPT !.ver = v, !.viewed = @ \cap ids, !.expanded = @ \cap ids,
                          !.notes = {n \in @ : n[1] \in ids}]
    IN  v # view.ver /\ Change(w, Rebuilt(w), reviewed \cap Changed(w), mapReviewed)

(* M opens the map, and carries over that the selected file is reviewed.    *)
toggle_review_map ==
    /\ cursor # NoRow
    /\ is_file_reviewed(view, cursor.file)
    /\ mapReviewed' = sync_map_reviewed(cursor.file, TRUE)
    /\ observe_viewport_progress(view, reviewed)
    /\ UNCHANGED <<view, cursor>>
---------------------------------------------------------------------------
FirstView == [ver |-> 1, filter |-> FileIds, viewed |-> {}, expanded |-> {}, tests |-> FALSE, notes |-> {}]

Init ==
    /\ view = FirstView
    /\ cursor = rebuild(view, NoRow, MinBy(Ids(view), LAMBDA f : Index(view, f)))
    /\ reviewed = {}
    /\ mapReviewed = {}

Next ==
    \/ \E d \in {1, -1} :
          \/ move_cursor(d) \/ move_file(d) \/ move_hunk(d)
          \/ move_annotated_hunk(d) \/ navigate_session_comment(d)
    \/ JumpTop \/ JumpBottom \/ select_from_viewport
    \/ \E f \in FileIds : SelectFile(f) \/ ClickCompactedFile(f)
    \/ \E k \in FileIds \X (1..MaxLines) : navigate_session_target(k[1], k[2])
    \/ \E n \in NoteTargets : AddNote(n) \/ RemoveNote(n) \/ SelectNote(n)
    \/ \E match \in Filters : SetFilter(match)
    \/ ToggleTestFiles \/ toggle_file_viewed \/ ExpandSelectedFile \/ toggle_review_map
    \/ \E v \in DOMAIN Diffs : replace_files(v)

Spec == Init /\ [][Next]_vars
---------------------------------------------------------------------------
(* Properties. *)

(* The cursor is on a row that exists, and on one whenever there is a row   *)
(* it may be on: no reload, filter, mark or removed card leaves it behind.  *)
CursorOnRow ==
    /\ cursor # NoRow => cursor \in Plan(view)
    /\ cursor = NoRow => Selectable(view) = {}

(* What the reviewer has done survives what changes around it.  A reload, a *)
(* filter or a card that comes or goes leaves the cursor in its file while  *)
(* the file is on display, and on its row while the row is; and progress    *)
(* only moves forward (README.md:383): a line stays reviewed for as long as *)
(* it is in the diff, and a line a reload takes away no longer counts.      *)
PlaceAndProgressKept ==
    [][/\ view' # view /\ view'.viewed \subseteq view.viewed /\ cursor # NoRow =>
            /\ cursor \in Plan(view') => cursor' = cursor
            /\ (\E r \in Selectable(view') : r.file = cursor.file) => cursor'.file = cursor.file
       /\ reviewed \cap Changed(view') \subseteq reviewed'
       /\ reviewed' \subseteq Changed(view')]_vars
===========================================================================
