------------------------- MODULE ReviewNavigationProofs -------------------------
(***************************************************************************)
(* Proofs about moving through a review: the cursor is always on a row, it *)
(* keeps its place through what changes around it, and progress only moves *)
(* forward, for any diffs, filters, test files and notes.                  *)
(***************************************************************************)
EXTENDS ReviewNavigation, FiniteSetTheorems, SequenceTheorems, WellFoundedInduction, TLAPS

Views == [ver : DOMAIN Diffs, filter : Filters, viewed : SUBSET FileIds,
          expanded : SUBSET FileIds, tests : BOOLEAN, notes : SUBSET NoteTargets]

-----------------------------------------------------------------------------
(* Least and greatest elements *)

\* A set of subsets of a finite set has a minimal one.
LEMMA MinimalSubset ==
  ASSUME NEW S, IsFiniteSet(S), NEW T, T \subseteq SUBSET S, T # {}
  PROVE  \E t \in T : \A u \in T : u \subseteq t => u = t
<1>1. IsWellFoundedOn(StrictSubsetOrdering(S), SUBSET S)
  BY FS_StrictSubsetOrderingWellFounded, FS_FiniteSubsetsOfFinite
<1>2. PICK t \in T : \A u \in T : ~(<<u, t>> \in StrictSubsetOrdering(S))
  BY <1>1, WFMin
<1> QED
  BY <1>2 DEF StrictSubsetOrdering

\* A finite set whose elements have numbers has one with the greatest number.
LEMMA HasMax ==
  ASSUME NEW S, IsFiniteSet(S), S # {}, NEW f, \A x \in S : f[x] \in Int
  PROVE  \E r \in S : \A q \in S : f[r] >= f[q]
<1> DEFINE Top(u) == \E r \in u : \A q \in u : f[r] >= f[q]
           T == {u \in SUBSET S : u # {} /\ ~Top(u)}
<1>1. SUFFICES ASSUME T # {} PROVE FALSE
  OBVIOUS
<1>2. PICK t \in T : \A u \in T : u \subseteq t => u = t
  <2>1. T \subseteq SUBSET S
    OBVIOUS
  <2> HIDE DEF T
  <2> QED
    BY <1>1, <2>1, MinimalSubset
<1>3. PICK x \in t : TRUE
  OBVIOUS
<1>4. t \subseteq S
  OBVIOUS
<1>5. CASE t \ {x} = {}
  <2>1. \A q \in t : q = x
    BY <1>5
  <2>2. f[x] >= f[x]
    BY <1>3, <1>4
  <2> QED
    BY <1>3, <2>1, <2>2
<1>6. CASE t \ {x} # {}
  <2>1. t \ {x} \notin T
    BY <1>2, <1>3
  <2>2. PICK r \in t \ {x} : \A q \in t \ {x} : f[r] >= f[q]
    BY <1>4, <1>6, <2>1
  <2>3. f[r] \in Int /\ f[x] \in Int /\ \A q \in t : f[q] \in Int
    BY <1>3, <1>4, <2>2
  <2>4. CASE f[r] >= f[x]
    BY <2>2, <2>4
  <2>5. CASE ~(f[r] >= f[x])
    <3>1. \A q \in t : f[x] >= f[q]
      BY <2>2, <2>3, <2>5
    <3> QED
      BY <1>3, <3>1
  <2> QED
    BY <2>4, <2>5
<1> QED
  BY <1>5, <1>6

\* And one with the least.
LEMMA HasMin ==
  ASSUME NEW S, IsFiniteSet(S), S # {}, NEW f, \A x \in S : f[x] \in Int
  PROVE  \E r \in S : \A q \in S : f[r] <= f[q]
<1> DEFINE g == [x \in S |-> 0 - f[x]]
<1>1. \A x \in S : g[x] = 0 - f[x] /\ g[x] \in Int
  OBVIOUS
<1> HIDE DEF g
<1>2. PICK r \in S : \A q \in S : g[r] >= g[q]
  BY <1>1, HasMax
<1>3. \A q \in S : f[r] <= f[q]
  BY <1>1, <1>2
<1> QED
  BY <1>3

\* The elements of a sequence are finitely many.
LEMMA ImageFinite ==
  ASSUME NEW f, IsFiniteSet(DOMAIN f)
  PROVE  IsFiniteSet({f[x] : x \in DOMAIN f})
<1> DEFINE T == {f[x] : x \in DOMAIN f}
           g == [x \in DOMAIN f |-> f[x]]
<1>1. g \in Surjection(DOMAIN f, T)
  BY DEF Surjection
<1> QED
  BY <1>1, FS_Surjection

-----------------------------------------------------------------------------
(* Diffs and their rows *)

DiffFiles == [id : Nat \ {0}, lines : 0 .. MaxLines]
DiffSeq == Seq(DiffFiles)

\* Each diff has finitely many files, with ids, places and lines.
LEMMA DiffTyped ==
  ASSUME NEW v \in DOMAIN Diffs
  PROVE  /\ IdsOf[v] \subseteq FileIds /\ IdsOf[v] \subseteq Nat \ {0} /\ IsFiniteSet(IdsOf[v])
         /\ \A f \in IdsOf[v] : IndexOf[v][f] \in Nat /\ LinesOf[v][f] \subseteq 1 .. MaxLines
<1>1. Diffs \in Seq(DiffSeq) /\ MaxLines \in Nat
  BY NavigationAssumption DEF DiffSeq, DiffFiles
<1>2. v \in 1 .. Len(Diffs)
  BY <1>1
<1>3. Diffs[v] \in DiffSeq
  BY <1>1, <1>2, ElementOfSeq
<1> DEFINE d == Diffs[v]
<1>4. /\ Len(d) \in Nat /\ DOMAIN d = 1 .. Len(d)
      /\ \A i \in DOMAIN d : d[i] \in DiffFiles
  <2>1. d \in Seq(DiffFiles)
    BY <1>3 DEF DiffSeq
  <2> HIDE DEF d
  <2>2. Len(d) \in Nat /\ DOMAIN d = 1 .. Len(d)
    BY <2>1
  <2> QED
    BY <2>1, <2>2, ElementOfSeq
<1>5. IdsOf[v] = {d[i].id : i \in DOMAIN d}
  BY DEF IdsOf
<1>6. IdsOf[v] \subseteq FileIds
  BY <1>5 DEF FileIds
<1>7. IdsOf[v] \subseteq Nat \ {0}
  BY <1>4, <1>5 DEF DiffFiles
<1>8. IsFiniteSet(IdsOf[v])
  <2> DEFINE g == [i \in DOMAIN d |-> d[i].id]
  <2>1. IsFiniteSet(DOMAIN d)
    BY <1>4, FS_Interval
  <2>2. IdsOf[v] = {g[i] : i \in DOMAIN g} /\ DOMAIN g = DOMAIN d
    BY <1>5
  <2> HIDE DEF g
  <2> QED
    BY <2>1, <2>2, ImageFinite
<1>9. ASSUME NEW f \in IdsOf[v]
      PROVE  IndexOf[v][f] \in Nat /\ LinesOf[v][f] \subseteq 1 .. MaxLines
  <2>1. \E i \in DOMAIN d : d[i].id = f
    BY <1>5
  <2>2. Position(v, f) \in DOMAIN d
    BY <2>1 DEF Position
  <2>3. Position(v, f) \in Nat /\ d[Position(v, f)].lines \in 0 .. MaxLines
    BY <1>4, <2>2 DEF DiffFiles
  <2>4. IndexOf[v][f] = Position(v, f) + IF f \in TestFiles THEN Len(d) ELSE 0
    BY DEF IndexOf, order_tests_last
  <2>5. LinesOf[v][f] = 1 .. d[Position(v, f)].lines
    BY DEF LinesOf
  <2> QED
    BY <1>1, <1>4, <2>3, <2>4, <2>5
<1> QED
  BY <1>6, <1>7, <1>8, <1>9

\* There are finitely many rows.
LEMMA RowsFinite == IsFiniteSet(Rows)
<1>1. Diffs \in Seq(DiffSeq) /\ MaxLines \in Nat
  BY NavigationAssumption DEF DiffSeq, DiffFiles
<1>2. DOMAIN IdsOf = DOMAIN Diffs /\ IsFiniteSet(DOMAIN Diffs)
  <2>1. Len(Diffs) \in Nat /\ DOMAIN Diffs = 1 .. Len(Diffs)
    BY <1>1
  <2> QED
    BY <2>1, FS_Interval DEF IdsOf
<1>3. IsFiniteSet(FileIds)
  <2> DEFINE T == {IdsOf[v] : v \in DOMAIN IdsOf}
  <2>1. IsFiniteSet(T)
    BY <1>2, ImageFinite
  <2>2. \A s \in T : IsFiniteSet(s)
    BY <1>2, DiffTyped
  <2>3. FileIds = UNION T
    BY DEF FileIds, IdsOf
  <2> QED
    BY <2>1, <2>2, <2>3, FS_UNION
<1> DEFINE K == {"line", "note", "compact"}
           P == (K \X FileIds) \X (0 .. MaxLines)
           g == [p \in P |-> [kind |-> p[1][1], file |-> p[1][2], line |-> p[2]]]
<1>4. IsFiniteSet(K)
  <2>1. IsFiniteSet({"line"}) /\ IsFiniteSet({"note"}) /\ IsFiniteSet({"compact"})
    BY FS_Singleton
  <2>2. K = ({"line"} \cup {"note"}) \cup {"compact"}
    OBVIOUS
  <2> QED
    BY <2>1, <2>2, FS_Union
<1>5. IsFiniteSet(0 .. MaxLines)
  BY <1>1, FS_Interval
<1>6. IsFiniteSet(P)
  <2>1. IsFiniteSet(K \X FileIds)
    BY <1>3, <1>4, FS_Product
  <2> QED
    BY <1>5, <2>1, FS_Product
<1>7. g \in Surjection(P, Rows)
  <2>1. g \in [P -> Rows]
    BY DEF Rows
  <2>2. ASSUME NEW r \in Rows PROVE \E p \in P : g[p] = r
    <3>1. r.kind \in K /\ r.file \in FileIds /\ r.line \in 0 .. MaxLines
          /\ r = [kind |-> r.kind, file |-> r.file, line |-> r.line]
      BY DEF Rows
    <3>2. <<<<r.kind, r.file>>, r.line>> \in P
      BY <3>1
    <3>3. g[<<<<r.kind, r.file>>, r.line>>] = r
      BY <3>1, <3>2
    <3> QED
      BY <3>2, <3>3
  <2> QED
    BY <2>1, <2>2 DEF Surjection
<1> QED
  BY <1>6, <1>7, FS_Surjection

\* Rows of the files of a view, as its plan has them.
RowsOf(w) == {r \in Rows : r.file \in Ids(w)}

\* What a view shows of its diff.
LEMMA ViewTyped ==
  ASSUME NEW w \in Views
  PROVE  /\ w.ver \in DOMAIN Diffs /\ Ids(w) \subseteq FileIds /\ Ids(w) \subseteq Nat /\ Visible(w) \subseteq Ids(w)
         /\ \A f \in Ids(w) : Index(w, f) \in Nat /\ Lines(w, f) \subseteq 1 .. MaxLines
         /\ \A n \in w.notes : n[1] \in FileIds /\ n[2] \in 1 .. MaxLines
         /\ MaxLines \in Nat
<1>1. w.ver \in DOMAIN Diffs /\ w.notes \subseteq NoteTargets
  BY DEF Views
<1>2. /\ Ids(w) \subseteq FileIds /\ Ids(w) \subseteq Nat /\ Visible(w) \subseteq Ids(w)
      /\ \A f \in Ids(w) : Index(w, f) \in Nat /\ Lines(w, f) \subseteq 1 .. MaxLines
  BY <1>1, DiffTyped DEF Ids, Visible, Index, Lines
<1> QED
  BY <1>1, <1>2, NavigationAssumption

\* The rows of the plan are rows of its files.
LEMMA PlanTyped ==
  ASSUME NEW w \in Views
  PROVE  /\ Plan(w) \subseteq RowsOf(w) /\ Selectable(w) \subseteq Plan(w)
         /\ NoRow \notin Plan(w)
<1>1. \A f \in Ids(w) : CompactRow(f) \in RowsOf(w)
  BY ViewTyped DEF CompactRow, RowsOf, Rows
<1>2. \A f \in Ids(w) : \A l \in Lines(w, f) : LineRow(f, l) \in RowsOf(w)
  BY ViewTyped DEF LineRow, RowsOf, Rows
<1>3. \A n \in w.notes : n[1] \in Ids(w) => NoteRow(n) \in RowsOf(w)
  BY ViewTyped DEF NoteRow, RowsOf, Rows
<1>4. \A f \in Ids(w) : PlanRows(w, f) \subseteq RowsOf(w)
  BY <1>1, <1>2, <1>3 DEF PlanRows
<1>5. Plan(w) \subseteq RowsOf(w)
  BY <1>4, ViewTyped DEF Plan
<1> QED
  BY <1>5, NoRowIsApart DEF Selectable, RowsOf

\* Rows of a view have a rank.
LEMMA RankTyped ==
  ASSUME NEW w \in Views, NEW r \in RowsOf(w)
  PROVE  Rank(w, r) \in Int
<1>1. r.file \in Ids(w) /\ r.line \in 0 .. MaxLines
  BY DEF RowsOf, Rows
<1>2. Index(w, r.file) \in Int /\ MaxLines \in Int /\ r.line \in Int
  BY <1>1, ViewTyped
<1>3. AnchorLine(w, r) \in Int
  BY <1>2 DEF AnchorLine
<1>4. \A a, b \in Int : a * b \in Int
  OBVIOUS
<1>5. (MaxLines + 1) * Index(w, r.file) \in Int
  BY <1>2, <1>4
<1>6. (MaxLines + 2) * ((MaxLines + 1) * Index(w, r.file) + AnchorLine(w, r)) \in Int
  BY <1>2, <1>3, <1>4, <1>5
<1> QED
  BY <1>2, <1>6 DEF Rank

\* The first and the last of some rows are among them.
LEMMA EndsIn ==
  ASSUME NEW w \in Views, NEW S, S \subseteq RowsOf(w), S # {}
  PROVE  First(w, S) \in S /\ Last(w, S) \in S
<1> DEFINE f == [r \in S |-> Rank(w, r)]
<1>1. IsFiniteSet(S)
  BY RowsFinite, FS_Subset DEF RowsOf
<1>2. \A r \in S : f[r] = Rank(w, r) /\ f[r] \in Int
  BY RankTyped
<1> HIDE DEF f
<1>3. \E r \in S : \A q \in S : f[r] <= f[q]
  BY <1>1, <1>2, HasMin
<1>4. \E r \in S : \A q \in S : f[r] >= f[q]
  BY <1>1, <1>2, HasMax
<1>5. \E r \in S : \A q \in S : Rank(w, r) <= Rank(w, q)
  BY <1>2, <1>3
<1>6. \E r \in S : \A q \in S : Rank(w, r) >= Rank(w, q)
  BY <1>2, <1>4
<1>7. First(w, S) \in S
  BY Zenon, <1>5 DEF First, MinBy
<1>8. Last(w, S) \in S
  BY Zenon, <1>6 DEF Last, MaxBy
<1> QED
  BY <1>7, <1>8

\* Going around the end stays among the keys.
LEMMA WrapIn ==
  ASSUME NEW key, IsFiniteSet(DOMAIN key), DOMAIN key # {}, \A q \in DOMAIN key : key[q] \in Int,
         NEW r, NEW d
  PROVE  wrapping_index(key, r, d) \in DOMAIN key
<1> DEFINE later == {q \in DOMAIN key : key[q] > key[r]}
           earlier == {q \in DOMAIN key : key[q] < key[r]}
           L == IF later # {} THEN later ELSE DOMAIN key
           E == IF earlier # {} THEN earlier ELSE DOMAIN key
           low == CHOOSE p \in L : \A q \in L : key[p] <= key[q]
           high == CHOOSE p \in E : \A q \in E : key[p] >= key[q]
<1>1. wrapping_index(key, r, d) = IF d = 1 THEN low ELSE high
  BY Zenon DEF wrapping_index, MinBy, MaxBy
<1>2. L \subseteq DOMAIN key /\ L # {} /\ E \subseteq DOMAIN key /\ E # {}
  OBVIOUS
<1> HIDE DEF L, E
<1>3. IsFiniteSet(L) /\ IsFiniteSet(E)
  BY <1>2, FS_Subset
<1>4. \E p \in L : \A q \in L : key[p] <= key[q]
  BY <1>2, <1>3, HasMin
<1>5. \E p \in E : \A q \in E : key[p] >= key[q]
  BY <1>2, <1>3, HasMax
<1>6. low \in L
  BY Zenon, <1>4
<1>7. high \in E
  BY Zenon, <1>5
<1> QED
  BY <1>1, <1>2, <1>6, <1>7

-----------------------------------------------------------------------------
(* Where the cursor is put *)

\* A row of the plan, or none when none may be selected.
OnRow(w, c) == c \in Plan(w) \/ (c = NoRow /\ Selectable(w) = {})

\* The nearest of some rows is one of them.
LEMMA NearestIn ==
  ASSUME NEW w \in Views, NEW ref \in Rows, NEW S, S \subseteq RowsOf(w), S # {}
  PROVE  nearest_selectable_index(w, ref, S) \in S
<1> DEFINE f == [r \in S |-> semantic_line_distance(ref, r)]
           closest == {r \in S : \A q \in S : semantic_line_distance(ref, r) <= semantic_line_distance(ref, q)}
<1>1. \A r \in S : f[r] = semantic_line_distance(ref, r) /\ f[r] \in Int
  <2>1. ref.line \in Int /\ MaxLines \in Int /\ \A r \in S : r.line \in Int
    BY NavigationAssumption DEF Rows, RowsOf
  <2> QED
    BY <2>1 DEF semantic_line_distance
<1>2. IsFiniteSet(S)
  BY RowsFinite, FS_Subset DEF RowsOf
<1> HIDE DEF f
<1>3. PICK r \in S : \A q \in S : f[r] <= f[q]
  BY <1>1, <1>2, HasMin
<1>4. r \in closest
  BY <1>1, <1>3
<1>5. closest \subseteq S
  OBVIOUS
<1>6. nearest_selectable_index(w, ref, S) = First(w, closest)
  BY DEF nearest_selectable_index
<1> HIDE DEF closest
<1>7. First(w, closest) \in closest
  BY <1>4, <1>5, EndsIn
<1> QED
  BY <1>5, <1>6, <1>7

\* A rebuild puts the cursor on a row, on its own while that is there, and in
\* its own file while that has a row.
LEMMA RebuildIs ==
  ASSUME NEW w \in Views, NEW prev \in Rows \cup {NoRow}, NEW file
  PROVE  /\ OnRow(w, rebuild(w, prev, file))
         /\ prev \in Plan(w) => rebuild(w, prev, file) = prev
         /\ prev # NoRow /\ (\E r \in Selectable(w) : r.file = prev.file) =>
              rebuild(w, prev, file).file = prev.file
<1> DEFINE sel == Selectable(w)
           ofHunk == {r \in sel : prev # NoRow /\ r.file = prev.file /\ hunk_index(r) = hunk_index(prev)}
           ofFile == {r \in sel : r.file = (IF prev # NoRow THEN prev.file ELSE file)}
           c == rebuild(w, prev, file)
<1>1. sel \subseteq Plan(w) /\ sel \subseteq RowsOf(w)
  BY PlanTyped
<1>2. c = CASE prev \in Plan(w) -> prev
            [] prev \notin Plan(w) /\ ofHunk # {} -> nearest_selectable_index(w, prev, ofHunk)
            [] prev \notin Plan(w) /\ ofHunk = {} /\ ofFile # {} ->
                  IF prev # NoRow THEN nearest_selectable_index(w, prev, ofFile) ELSE First(w, ofFile)
            [] OTHER -> IF sel # {} THEN First(w, sel) ELSE NoRow
  BY Zenon DEF rebuild
<1>3. /\ ofHunk \subseteq sel /\ (ofHunk # {} => prev # NoRow)
      /\ \A r \in ofHunk : r.file = prev.file
  OBVIOUS
<1>4. /\ ofFile \subseteq sel /\ (prev # NoRow => \A r \in ofFile : r.file = prev.file)
      /\ prev # NoRow /\ (\E r \in sel : r.file = prev.file) => ofFile # {}
  OBVIOUS
<1> HIDE DEF sel, ofHunk, ofFile, c
<1>5. CASE prev \in Plan(w)
  <2>1. c = prev
    BY <1>2, <1>5
  <2> QED
    BY <1>5, <2>1 DEF c, OnRow
<1>6. CASE prev \notin Plan(w) /\ ofHunk # {}
  <2>1. c = nearest_selectable_index(w, prev, ofHunk)
    BY <1>2, <1>6
  <2>2. c \in ofHunk
    BY <1>1, <1>3, <1>6, <2>1, NearestIn
  <2> QED
    BY <1>1, <1>3, <1>6, <2>2 DEF c, OnRow
<1>7. CASE prev \notin Plan(w) /\ ofHunk = {} /\ ofFile # {}
  <2>1. c = IF prev # NoRow THEN nearest_selectable_index(w, prev, ofFile) ELSE First(w, ofFile)
    BY <1>2, <1>7
  <2>2. c \in ofFile
    BY <1>1, <1>4, <1>7, <2>1, NearestIn, EndsIn
  <2> QED
    BY <1>1, <1>4, <1>7, <2>2 DEF c, OnRow
<1>8. CASE prev \notin Plan(w) /\ ofHunk = {} /\ ofFile = {}
  <2>1. c = IF sel # {} THEN First(w, sel) ELSE NoRow
    BY <1>2, <1>8
  <2>2. OnRow(w, c)
    BY <1>1, <2>1, EndsIn DEF OnRow, sel
  <2> QED
    BY <1>4, <1>8, <2>2 DEF c, sel
<1> QED
  BY <1>5, <1>6, <1>7, <1>8

\* Selecting a hunk of a file puts the cursor on a row.
LEMMA SelectIs ==
  ASSUME NEW w \in Views, NEW file, NEW hunk
  PROVE  OnRow(w, select_target(w, file, hunk))
<1> DEFINE landed == rebuild(w, NoRow, file)
           target == {r \in Selectable(w) : landed # NoRow /\ r.file = landed.file
                                            /\ r.kind = "line" /\ hunk_index(r) = hunk}
<1>1. select_target(w, file, hunk) = IF target # {} THEN First(w, target) ELSE landed
  BY Zenon DEF select_target
<1>2. OnRow(w, landed)
  BY RebuildIs
<1>3. target \subseteq Selectable(w)
  OBVIOUS
<1> HIDE DEF target, landed
<1>4. target # {} => First(w, target) \in target
  BY <1>3, PlanTyped, EndsIn
<1> QED
  BY <1>1, <1>2, <1>3, <1>4, PlanTyped DEF OnRow

-----------------------------------------------------------------------------
(* Views and what is reviewed of them *)

\* The changes of a view.
LEMMA ViewsChanged ==
  ASSUME NEW w \in Views
  PROVE  /\ \A match \in Filters :
              [w EXCEPT !.filter = match] \in Views /\ [w EXCEPT !.filter = match].ver = w.ver
         /\ \A s \in SUBSET NoteTargets :
              [w EXCEPT !.notes = s] \in Views /\ [w EXCEPT !.notes = s].ver = w.ver
         /\ \A s \in SUBSET FileIds :
              /\ [w EXCEPT !.viewed = s] \in Views /\ [w EXCEPT !.viewed = s].ver = w.ver
              /\ [w EXCEPT !.viewed = s].viewed = s
         /\ [w EXCEPT !.tests = ~w.tests, !.expanded = {}] \in Views
         /\ [w EXCEPT !.tests = ~w.tests, !.expanded = {}].ver = w.ver
         /\ \A v \in DOMAIN Diffs, s, e \in SUBSET FileIds, n \in SUBSET NoteTargets :
              [w EXCEPT !.ver = v, !.viewed = s, !.expanded = e, !.notes = n] \in Views
<1>1. \A match \in Filters :
         [w EXCEPT !.filter = match] \in Views /\ [w EXCEPT !.filter = match].ver = w.ver
  BY DEF Views
<1>2. \A s \in SUBSET NoteTargets :
         [w EXCEPT !.notes = s] \in Views /\ [w EXCEPT !.notes = s].ver = w.ver
  BY DEF Views
<1>3. \A s \in SUBSET FileIds :
         /\ [w EXCEPT !.viewed = s] \in Views /\ [w EXCEPT !.viewed = s].ver = w.ver
         /\ [w EXCEPT !.viewed = s].viewed = s
  BY DEF Views
<1>5. [w EXCEPT !.tests = ~w.tests, !.expanded = {}] \in Views
  BY Zenon DEF Views
<1>6. [w EXCEPT !.tests = ~w.tests, !.expanded = {}].ver = w.ver
  BY Zenon DEF Views
<1>7. \A v \in DOMAIN Diffs, s, e \in SUBSET FileIds, n \in SUBSET NoteTargets :
         [w EXCEPT !.ver = v, !.viewed = s, !.expanded = e, !.notes = n] \in Views
  BY DEF Views
<1> QED
  BY <1>1, <1>2, <1>3, <1>5, <1>6, <1>7

\* The lines of a review are those of its diff, and are lines of files.
LEMMA ChangedIs ==
  ASSUME NEW w \in Views
  PROVE  /\ Changed(w) \subseteq FileIds \X (1 .. MaxLines)
         /\ \A u \in Views : u.ver = w.ver => Changed(u) = Changed(w)
         /\ \A f : FileKeys(w, f) \subseteq Changed(w)
<1>1. Changed(w) \subseteq FileIds \X (1 .. MaxLines)
  BY ViewTyped DEF Changed
<1>2. \A u \in Views : u.ver = w.ver => Changed(u) = Changed(w)
  BY DEF Changed, Ids, Lines
<1> QED
  BY <1>1, <1>2 DEF FileKeys

\* What is on screen is added to what is reviewed.
LEMMA ObserveIs ==
  ASSUME NEW w, NEW done, done \subseteq Changed(w), observe_viewport_progress(w, done)
  PROVE  done \subseteq reviewed' /\ reviewed' \subseteq Changed(w)
BY DEF observe_viewport_progress, observe_through

NavInv ==
  /\ view \in Views /\ OnRow(view, cursor)
  /\ reviewed \subseteq Changed(view) /\ mapReviewed \subseteq FileIds

\* The steps: the cursor moves, or the view changes and the cursor is put where
\* the rebuild puts it, or a file is marked and the cursor leaves it.
Moving ==
  /\ OnRow(view, cursor') /\ observe_viewport_progress(view, reviewed)
  /\ view' = view /\ mapReviewed' \subseteq FileIds

Changing(w, c, done) ==
  /\ w \in Views /\ view' = w /\ cursor' = c /\ OnRow(w, c)
  /\ done \subseteq Changed(w) /\ reviewed \cap Changed(w) \subseteq done
  /\ observe_viewport_progress(w, done) /\ mapReviewed' \subseteq FileIds
  /\ c = Rebuilt(w) \/ ~(w.viewed \subseteq view.viewed)

\* The cursor's moves.
LEMMA MovesOn ==
  ASSUME NavInv, NEW r, OnRow(view, r), GoTo(r)
  PROVE  Moving
BY DEF GoTo, Moving, NavInv

\* Every operation that leaves the view alone moves the cursor to a row.
LEMMA MovesAre ==
  ASSUME NavInv,
         \/ \E d \in {1, -1} : \/ move_cursor(d) \/ move_file(d) \/ move_hunk(d)
                               \/ move_annotated_hunk(d) \/ navigate_session_comment(d)
         \/ JumpTop \/ JumpBottom \/ select_from_viewport
         \/ \E f \in FileIds : SelectFile(f)
         \/ \E k \in FileIds \X (1 .. MaxLines) : navigate_session_target(k[1], k[2])
         \/ \E n \in NoteTargets : SelectNote(n)
         \/ toggle_review_map
  PROVE  Moving
<1>0. view \in Views /\ OnRow(view, cursor)
  BY DEF NavInv
<1>1. Selectable(view) \subseteq Plan(view) /\ Plan(view) \subseteq RowsOf(view)
  BY <1>0, PlanTyped
<1>2. \A r \in Plan(view) : OnRow(view, r)
  BY DEF OnRow
<1>3. ASSUME NEW f, NEW h, GoTo(select_target(view, f, h)) PROVE Moving
  BY <1>0, <1>3, SelectIs, MovesOn
<1>4. ASSUME NEW d \in {1, -1}, move_cursor(d) PROVE Moving
  <2> DEFINE sel == Selectable(view)
             here == IF cursor \in sel THEN cursor ELSE First(view, sel)
             next == {r \in sel : IF d = 1 THEN Rank(view, r) > Rank(view, here) ELSE Rank(view, r) < Rank(view, here)}
             r == IF next = {} THEN here ELSE IF d = 1 THEN First(view, next) ELSE Last(view, next)
  <2>1. sel # {} /\ GoTo(r)
    BY Zenon, <1>4 DEF move_cursor
  <2>2. next \subseteq sel
    OBVIOUS
  <2>3. here \in sel
    BY <1>0, <1>1, <2>1, EndsIn
  <2> HIDE DEF here, next, sel
  <2>4. r \in sel
    BY <1>0, <1>1, <2>2, <2>3, EndsIn DEF sel
  <2> HIDE DEF r
  <2> QED
    BY <1>1, <1>2, <2>1, <2>4, MovesOn DEF sel
<1>5. ASSUME NEW d \in {1, -1}, move_file(d) \/ move_hunk(d) \/ navigate_session_comment(d) PROVE Moving
  <2>1. \E f, h : GoTo(select_target(view, f, h))
    <3>1. CASE move_file(d)
      BY Zenon, <3>1 DEF move_file
    <3>2. CASE move_hunk(d)
      BY Zenon, <3>2 DEF move_hunk
    <3>3. CASE navigate_session_comment(d)
      BY Zenon, <3>3 DEF navigate_session_comment
    <3> QED
      BY <1>5, <3>1, <3>2, <3>3
  <2> QED
    BY <1>3, <2>1
<1>6. ASSUME NEW d \in {1, -1}, move_annotated_hunk(d) PROVE Moving
  <2> DEFINE cards == {r \in Plan(view) : r.kind = "note"}
             key == [r \in cards |-> Rank(view, r)]
  <2>1. cards # {} /\ \E s : GoTo(wrapping_index(key, s, d))
    BY Zenon, <1>6 DEF move_annotated_hunk
  <2>2. cards \subseteq RowsOf(view) /\ cards \subseteq Plan(view)
    BY <1>1
  <2> HIDE DEF cards
  <2>3. IsFiniteSet(cards)
    BY <2>2, RowsFinite, FS_Subset DEF RowsOf
  <2>4. DOMAIN key = cards /\ \A r \in cards : key[r] \in Int
    BY <1>0, <2>2, RankTyped
  <2> HIDE DEF key
  <2>5. PICK s : GoTo(wrapping_index(key, s, d))
    BY <2>1
  <2>6. wrapping_index(key, s, d) \in cards
    BY <2>1, <2>3, <2>4, WrapIn
  <2> QED
    BY <1>2, <2>2, <2>5, <2>6, MovesOn
<1>7. ASSUME JumpTop \/ JumpBottom PROVE Moving
  <2>1. Selectable(view) # {} /\ (GoTo(First(view, Selectable(view))) \/ GoTo(Last(view, Selectable(view))))
    BY <1>7 DEF JumpTop, JumpBottom
  <2>2. First(view, Selectable(view)) \in Plan(view) /\ Last(view, Selectable(view)) \in Plan(view)
    BY <1>0, <1>1, <2>1, EndsIn
  <2> QED
    BY <1>2, <2>1, <2>2, MovesOn
<1>8. ASSUME select_from_viewport PROVE Moving
  BY <1>1, <1>2, <1>8, MovesOn DEF select_from_viewport, OnRow
<1>9. ASSUME NEW f, NEW h, SelectFile(f) \/ navigate_session_target(f, h) PROVE Moving
  BY <1>3, <1>9 DEF SelectFile, navigate_session_target
<1>10. ASSUME NEW n, SelectNote(n) PROVE Moving
  BY <1>2, <1>10, MovesOn DEF SelectNote
<1>11. ASSUME toggle_review_map PROVE Moving
  <2>1. 1 \in DOMAIN Diffs
    BY NavigationAssumption, EmptySeq
  <2>2. MapFiles \subseteq FileIds
    BY <2>1, DiffTyped DEF MapFiles
  <2> QED
    BY <1>0, <1>11, <2>2 DEF toggle_review_map, sync_map_reviewed, Moving, NavInv
<1> QED
  BY <1>4, <1>5, <1>6, <1>7, <1>8, <1>9, <1>10, <1>11

\* A change of the view that ends in a rebuild and forgets nothing reviewed.
LEMMA ChangesTo ==
  ASSUME NavInv, NEW w \in Views, NEW done, NEW marks, marks \subseteq FileIds,
         done \subseteq Changed(w), reviewed \cap Changed(w) \subseteq done,
         Change(w, Rebuilt(w), done, marks)
  PROVE  Changing(w, Rebuilt(w), done)
<1>1. cursor \in Rows \cup {NoRow}
  BY PlanTyped DEF NavInv, OnRow, RowsOf
<1>2. OnRow(w, Rebuilt(w))
  BY <1>1, RebuildIs DEF Rebuilt
<1> QED
  BY <1>2 DEF Change, Changing

\* The changes of the view.
LEMMA ChangesAre ==
  ASSUME NavInv,
         \/ \E match \in Filters : SetFilter(match)
         \/ ToggleTestFiles \/ toggle_file_viewed \/ ExpandSelectedFile
         \/ \E f \in FileIds : ClickCompactedFile(f)
         \/ \E n \in NoteTargets : AddNote(n) \/ RemoveNote(n)
         \/ \E v \in DOMAIN Diffs : replace_files(v)
  PROVE  \E w, c, done : Changing(w, c, done)
<1>0. view \in Views /\ OnRow(view, cursor) /\ reviewed \subseteq Changed(view) /\ mapReviewed \subseteq FileIds
  BY DEF NavInv
<1>1. ASSUME NEW w \in Views, w.ver = view.ver, NEW done, done \subseteq Changed(w), reviewed \subseteq done,
             NEW marks, marks \subseteq FileIds, Change(w, Rebuilt(w), done, marks)
      PROVE  Changing(w, Rebuilt(w), done)
  BY <1>1, ChangesTo
<1>2. \A w \in Views : w.ver = view.ver => Changed(w) = Changed(view)
  BY <1>0, ChangedIs
<1>3. ASSUME NEW match \in Filters, SetFilter(match) PROVE \E w, c, done : Changing(w, c, done)
  <2> DEFINE w == [view EXCEPT !.filter = match]
  <2>1. Change(w, Rebuilt(w), reviewed, mapReviewed)
    BY <1>3 DEF SetFilter
  <2>2. w \in Views /\ w.ver = view.ver
    BY <1>0, ViewsChanged
  <2> HIDE DEF w
  <2> QED
    BY <1>0, <1>1, <1>2, <2>1, <2>2
<1>4. ASSUME ToggleTestFiles PROVE \E w, c, done : Changing(w, c, done)
  <2> DEFINE w == [view EXCEPT !.tests = ~view.tests, !.expanded = {}]
             compacted == IF w.tests THEN UNION {FileKeys(w, f) : f \in TestFiles} ELSE {}
  <2>1. Change(w, Rebuilt(w), reviewed \cup compacted, mapReviewed)
    BY <1>4 DEF ToggleTestFiles
  <2>2. w \in Views /\ w.ver = view.ver
    BY <1>0, ViewsChanged
  <2> HIDE DEF w
  <2>3. compacted \subseteq Changed(w)
    BY <2>2, ChangedIs
  <2> HIDE DEF compacted
  <2>4. Changed(w) = Changed(view)
    BY <1>2, <2>2
  <2>5. reviewed \cup compacted \subseteq Changed(w) /\ reviewed \subseteq reviewed \cup compacted
    BY <1>0, <2>3, <2>4
  <2> QED
    BY <1>0, <1>1, <2>1, <2>2, <2>5
<1>5. view.viewed \subseteq FileIds /\ view.expanded \subseteq FileIds /\ view.notes \subseteq NoteTargets
  BY <1>0 DEF Views
<1>6. cursor # NoRow => cursor.file \in FileIds
  BY <1>0, PlanTyped DEF OnRow, RowsOf, Rows
<1>7. ASSUME NEW f \in FileIds PROVE Expanded(f) \in Views /\ Expanded(f).ver = view.ver
  <2> DEFINE s == view.viewed \ {f}
             e == view.expanded \cup {f}
  <2>1. Expanded(f) = [view EXCEPT !.viewed = s, !.expanded = e]
    BY DEF Expanded
  <2>2. s \in SUBSET FileIds /\ e \in SUBSET FileIds
    BY <1>5
  <2> HIDE DEF s, e
  <2> QED
    BY <1>0, <2>1, <2>2 DEF Views
<1>8. ASSUME NEW f \in FileIds, ClickCompactedFile(f) PROVE \E w, c, done : Changing(w, c, done)
  <2>1. Change(Expanded(f), Rebuilt(Expanded(f)), reviewed, mapReviewed)
    BY <1>8 DEF ClickCompactedFile
  <2> QED
    BY <1>0, <1>1, <1>2, <1>7, <2>1
<1>9. \A f : sync_map_reviewed(f, FALSE) \subseteq FileIds /\ sync_map_reviewed(f, TRUE) \subseteq FileIds
  <2>1. 1 \in DOMAIN Diffs
    BY NavigationAssumption, EmptySeq
  <2>2. MapFiles \subseteq FileIds
    BY <2>1, DiffTyped DEF MapFiles
  <2> QED
    BY <1>0, <2>2 DEF sync_map_reviewed
<1>10. ASSUME ExpandSelectedFile PROVE \E w, c, done : Changing(w, c, done)
  <2> DEFINE f == cursor.file
             marks == IF f \in view.viewed THEN sync_map_reviewed(f, FALSE) ELSE mapReviewed
  <2>1. cursor # NoRow /\ Change(Expanded(f), Rebuilt(Expanded(f)), reviewed, marks)
    BY <1>10 DEF ExpandSelectedFile
  <2>2. marks \subseteq FileIds
    BY <1>0, <1>9
  <2>3. f \in FileIds
    BY <1>6, <2>1
  <2> HIDE DEF f, marks
  <2> QED
    BY <1>0, <1>1, <1>2, <1>7, <2>1, <2>2, <2>3
<1>11. ASSUME toggle_file_viewed PROVE \E w, c, done : Changing(w, c, done)
  <2> DEFINE f == cursor.file
  <2>1. cursor # NoRow /\ f \in FileIds
    BY <1>6, <1>11 DEF toggle_file_viewed
  <2>2. CASE f \notin view.viewed
    <3> DEFINE s == view.viewed \cup {f}
               w == [view EXCEPT !.viewed = s]
               done == reviewed \cup FileKeys(w, f)
               marks == sync_map_reviewed(f, TRUE)
    <3>1. \E g : Change(w, select_target(w, g, 1), done, marks)
      BY <2>2, <1>11 DEF toggle_file_viewed, sync_map_reviewed
    <3>2. s \in SUBSET FileIds /\ f \in s
      BY <1>5, <2>1
    <3> HIDE DEF s
    <3>3. w \in Views /\ w.ver = view.ver /\ w.viewed = s
      BY <1>0, <3>2, ViewsChanged
    <3> HIDE DEF w
    <3>4. PICK g : Change(w, select_target(w, g, 1), done, marks)
      BY <3>1
    <3>5. done \subseteq Changed(w) /\ reviewed \cap Changed(w) \subseteq done
      BY <1>0, <1>2, <3>3, ChangedIs
    <3>6. marks \subseteq FileIds
      BY <1>9
    <3>7. OnRow(w, select_target(w, g, 1))
      BY <3>3, SelectIs
    <3>8. ~(w.viewed \subseteq view.viewed)
      BY <2>2, <3>2, <3>3
    <3> HIDE DEF done, marks, f
    <3>9. Changing(w, select_target(w, g, 1), done)
      BY <3>3, <3>4, <3>5, <3>6, <3>7, <3>8 DEF Change, Changing
    <3> QED
      BY <3>9
  <2>3. CASE f \in view.viewed
    <3>1. Change(Expanded(f), Rebuilt(Expanded(f)), reviewed, sync_map_reviewed(f, FALSE))
      BY <2>3, <1>11 DEF toggle_file_viewed, Expanded, sync_map_reviewed
    <3> HIDE DEF f
    <3> QED
      BY <1>0, <1>1, <1>2, <1>7, <1>9, <2>1, <3>1
  <2> QED
    BY <2>2, <2>3
<1>12. ASSUME NEW n \in NoteTargets, AddNote(n) \/ RemoveNote(n) PROVE \E w, c, done : Changing(w, c, done)
  <2>1. PICK s \in SUBSET NoteTargets :
          Change([view EXCEPT !.notes = s], Rebuilt([view EXCEPT !.notes = s]), reviewed, mapReviewed)
    <3>1. view.notes \cup {n} \in SUBSET NoteTargets /\ view.notes \ {n} \in SUBSET NoteTargets
      BY <1>5
    <3> QED
      BY <1>12, <3>1 DEF AddNote, RemoveNote
  <2> DEFINE w == [view EXCEPT !.notes = s]
  <2>2. w \in Views /\ w.ver = view.ver
    BY <1>0, ViewsChanged
  <2>3. Change(w, Rebuilt(w), reviewed, mapReviewed)
    BY <2>1
  <2> HIDE DEF w
  <2> QED
    BY <1>0, <1>1, <1>2, <2>2, <2>3
<1>13. ASSUME NEW v \in DOMAIN Diffs, replace_files(v) PROVE \E w, c, done : Changing(w, c, done)
  <2> DEFINE ids == Ids([view EXCEPT !.ver = v])
             s == view.viewed \cap ids
             e == view.expanded \cap ids
             n == {m \in view.notes : m[1] \in ids}
             w == [view EXCEPT !.ver = v, !.viewed = s, !.expanded = e, !.notes = n]
  <2>1. Change(w, Rebuilt(w), reviewed \cap Changed(w), mapReviewed)
    BY <1>13 DEF replace_files
  <2>2. s \in SUBSET FileIds /\ e \in SUBSET FileIds /\ n \in SUBSET NoteTargets
    BY <1>5
  <2> HIDE DEF ids, s, e, n
  <2>3. w \in Views
    BY <1>0, <2>2, ViewsChanged
  <2> HIDE DEF w
  <2>4. reviewed \cap Changed(w) \subseteq Changed(w)
    OBVIOUS
  <2> QED
    BY <1>0, <2>1, <2>3, <2>4, ChangesTo
<1> QED
  BY <1>3, <1>4, <1>8, <1>10, <1>11, <1>12, <1>13

\* Every step moves the cursor, changes the view or changes nothing.
LEMMA NavSteps ==
  ASSUME NavInv, [Next]_vars
  PROVE  Moving \/ (\E w, c, done : Changing(w, c, done)) \/ UNCHANGED vars
BY MovesAre, ChangesAre DEF Next

\* Every step keeps the invariant.
LEMMA NavStep == NavInv /\ [Next]_vars => NavInv'
<1> SUFFICES ASSUME NavInv, [Next]_vars PROVE NavInv'
  OBVIOUS
<1>1. CASE Moving
  BY <1>1, ObserveIs DEF NavInv, Moving
<1>2. CASE \E w, c, done : Changing(w, c, done)
  BY <1>2, ObserveIs DEF NavInv, Changing
<1>3. CASE UNCHANGED vars
  BY <1>3 DEF NavInv, vars
<1> QED
  BY <1>1, <1>2, <1>3, NavSteps

\* A review opens on a row of its first diff.
LEMMA NavInit == Init => NavInv
<1> SUFFICES ASSUME Init PROVE NavInv
  OBVIOUS
<1>1. 1 \in DOMAIN Diffs
  BY NavigationAssumption, EmptySeq
<1>2. view \in Views
  BY <1>1, NavigationAssumption DEF Init, FirstView, Views
<1>3. OnRow(view, cursor)
  BY <1>2, RebuildIs DEF Init
<1> QED
  BY <1>2, <1>3 DEF Init, NavInv

\* Every part of the state of the review has its type.
THEOREM NavigationTyped == Spec => []TypeOK
<1>1. NavInv => TypeOK
  <2> SUFFICES ASSUME NavInv PROVE TypeOK
    OBVIOUS
  <2>1. cursor \in Rows \cup {NoRow}
    BY PlanTyped DEF NavInv, OnRow, RowsOf
  <2>2. reviewed \subseteq FileIds \X (1 .. MaxLines)
    BY ChangedIs DEF NavInv
  <2> QED
    BY <2>1, <2>2 DEF NavInv, TypeOK, Views
<1> QED
  BY <1>1, NavInit, NavStep, PTL DEF Spec

\* The cursor is on a row there is, and on one whenever there is one to be on,
\* through every move, reload, filter, mark and card.
THEOREM CursorStaysOnRow == Spec => []CursorOnRow
<1>1. NavInv => CursorOnRow
  BY PlanTyped DEF NavInv, OnRow, CursorOnRow
<1> QED
  BY <1>1, NavInit, NavStep, PTL DEF Spec

\* What changes around the reviewer keeps the row, else the file, of the cursor,
\* and every line that was reviewed and is still in the diff.
THEOREM PlaceIsKept == Spec => PlaceAndProgressKept
<1> DEFINE A == /\ view' # view /\ view'.viewed \subseteq view.viewed /\ cursor # NoRow =>
                     /\ cursor \in Plan(view') => cursor' = cursor
                     /\ (\E r \in Selectable(view') : r.file = cursor.file) => cursor'.file = cursor.file
                /\ reviewed \cap Changed(view') \subseteq reviewed'
                /\ reviewed' \subseteq Changed(view')
<1>1. NavInv /\ [Next]_vars => [A]_vars
  <2> SUFFICES ASSUME NavInv, [Next]_vars PROVE [A]_vars
    OBVIOUS
  <2>1. CASE Moving
    BY <2>1, ObserveIs DEF NavInv, Moving
  <2>2. CASE \E w, c, done : Changing(w, c, done)
    <3>1. PICK w, c, done : Changing(w, c, done)
      BY <2>2
    <3>2. w \in Views /\ view' = w /\ cursor' = c
      BY <3>1 DEF Changing
    <3>3. done \subseteq reviewed' /\ reviewed' \subseteq Changed(w) /\ reviewed \cap Changed(w) \subseteq done
      BY <3>1, ObserveIs DEF Changing
    <3>4. ASSUME w.viewed \subseteq view.viewed, cursor # NoRow
          PROVE  /\ cursor \in Plan(w) => c = cursor
                 /\ (\E r \in Selectable(w) : r.file = cursor.file) => c.file = cursor.file
      <4>1. c = rebuild(w, cursor, 0)
        BY <3>1, <3>4 DEF Changing, Rebuilt
      <4>2. cursor \in Rows \cup {NoRow}
        BY PlanTyped DEF NavInv, OnRow, RowsOf
      <4> QED
        BY <3>2, <3>4, <4>1, <4>2, RebuildIs
    <3> QED
      BY <3>2, <3>3, <3>4
  <2>3. CASE UNCHANGED vars
    BY <2>3
  <2> QED
    BY <2>1, <2>2, <2>3, NavSteps
<1> QED
  BY <1>1, NavInit, NavStep, PTL DEF Spec, PlaceAndProgressKept
=============================================================================
