---------------------------- MODULE ReviewMapPane ----------------------------
(***************************************************************************)
(* The Review Map in the terminal: ReviewMapController, and the threads of *)
(* ReviewMapRuntime that ask ramo-server for the enriched map and poll its *)
(* job.  What ramo-server answers is external here (AnalysisCoordinator    *)
(* models it): any status, a map of this head or of another, any failure.  *)
(*                                                                         *)
(* A map is [head, status, groups, hits]: groups is a sequence of records  *)
(* [id, files, collapsed]; hits are the ids of the groups and files whose  *)
(* text has the filter in it.                                              *)
(***************************************************************************)
EXTENDS Integers, Sequences, FiniteSets, FiniteSetsExt, SequencesExt

CONSTANTS BaseMap,      \* what prepare_review_map made of the diff
          ServedMaps,   \* the maps ramo-server may have
          Retries,      \* retries of the reviewer
          PollLimit,    \* updates taken per turn of the loop: 8
          MaxPolls,     \* polls of one job
          None

VARIABLES pane, workers

paneVars == <<pane, workers>>

Statuses == {"Ready", "Analyzing", "Enriched", "Stale", "Unavailable", "Failed"}
ClientFailures == {"ResultStale", "ServerUnreachable"}
FailureCodes == ClientFailures \cup {"AnalysisFailed"}
Groups == [id : STRING, files : Seq(STRING), collapsed : BOOLEAN]
Maps == [head : STRING, status : Statuses, groups : Seq(Groups), hits : SUBSET STRING]
Files(map) == UNION {ToSet(map.groups[g].files) : g \in DOMAIN map.groups}
-----------------------------------------------------------------------------
(* ReviewMapController.                                                    *)

group_expanded(p, group) ==
  IF group.id \in DOMAIN p.overrides THEN p.overrides[group.id] ELSE ~group.collapsed

\* The rows of one group: none when neither it nor a file of it has the filter.
GroupRows(p, group) ==
  LET all   == ~p.filter \/ group.id \in p.map.hits
      files == FlattenSeq([k \in DOMAIN group.files |->
                             IF all \/ group.files[k] \in p.map.hits THEN <<group.files[k]>> ELSE <<>>])
  IN  IF ~all /\ files = <<>> THEN <<>>
      ELSE <<group.id>> \o (IF group_expanded(p, group) \/ p.filter THEN files ELSE <<>>)

visible_rows(p) == FlattenSeq([g \in DOMAIN p.map.groups |-> GroupRows(p, p.map.groups[g])])

ensure_visible_selection(p) ==
  LET rows == visible_rows(p)
  IN  IF p.selected \in ToSet(rows) THEN p
      ELSE [p EXCEPT !.selected = IF rows = <<>> THEN None ELSE rows[1]]

Position(rows, id) == IF id \in ToSet(rows) THEN Min({i \in DOMAIN rows : rows[i] = id}) ELSE 1

move_selection(p, delta) ==
  LET rows == visible_rows(p)
      next == Max({1, Min({Position(rows, p.selected) + delta, Len(rows)})})
  IN  [p EXCEPT !.selected = IF rows = <<>> THEN None ELSE rows[next]]

Select(p, id) == IF id \in ToSet(visible_rows(p)) THEN [p EXCEPT !.selected = id] ELSE p

IsGroup(p, id) == \E g \in DOMAIN p.map.groups : p.map.groups[g].id = id
Overridden(p, id, expanded) == [k \in DOMAIN p.overrides \cup {id} |-> IF k = id THEN expanded ELSE p.overrides[k]]
set_selected_expanded(p, expanded) ==
  IF ~IsGroup(p, p.selected) THEN p
  ELSE ensure_visible_selection([p EXCEPT !.overrides = Overridden(p, p.selected, expanded)])
toggle_selected_expanded(p) ==
  IF ~IsGroup(p, p.selected) THEN p
  ELSE LET group == CHOOSE x \in ToSet(p.map.groups) : x.id = p.selected
       IN  set_selected_expanded(p, ~group_expanded(p, group))

SetFilter(p, filter) == ensure_visible_selection([p EXCEPT !.filter = filter])

\* Mutant: the selection is left where it was when the groups change.
ReplacedInPlace(p, map) ==
  IF map.head # p.map.head THEN [p EXCEPT !.failure = "ResultStale", !.dismissed = FALSE]
  ELSE [p EXCEPT !.map = map, !.failure = None, !.dismissed = FALSE]

\* replace_map: a map of another head is refused, the caller then shows a failure.
replace_map(p, map) ==
  IF map.head # p.map.head THEN [p EXCEPT !.failure = "ResultStale", !.dismissed = FALSE]
  ELSE ensure_visible_selection([p EXCEPT !.map = map, !.failure = None, !.dismissed = FALSE])

mark_reviewed(p, file) == IF file \in Files(p.map) THEN [p EXCEPT !.reviewed = @ \cup {file}] ELSE p
mark_unreviewed(p, file) == [p EXCEPT !.reviewed = @ \ {file}]
reviewed_percent(p) ==
  LET total == Cardinality(Files(p.map))
  IN  IF total = 0 THEN 100 ELSE (Cardinality(Files(p.map) \cap p.reviewed) * 100) \div total
-----------------------------------------------------------------------------
(* ReviewMapRuntime.                                                       *)

NewWorker == [pc |-> "Resolve", response |-> None, cancelled |-> FALSE, queue |-> <<>>, polls |-> 0, outcome |-> None]

\* prepare_review_map: a client that could be made starts the first worker.
Init ==
  \E connected \in BOOLEAN :
    /\ pane = ensure_visible_selection(
                [map |-> BaseMap, selected |-> None, overrides |-> [k \in {} |-> TRUE], filter |-> FALSE, reviewed |-> {},
                 failure |-> IF connected THEN None ELSE "ServerUnreachable", dismissed |-> FALSE,
                 current |-> IF connected THEN 1 ELSE 0, joining |-> None, taking |-> 0])
    /\ workers = IF connected THEN <<NewWorker>> ELSE <<>>

Ended(w, update) == [w EXCEPT !.pc = "End", !.response = None, !.queue = Append(@, update), !.outcome = update]
Waiting(w, update) == [w EXCEPT !.pc = "Wait", !.response = None, !.queue = Append(@, update)]
error_update(code) == [kind |-> "Failure", code |-> code, map |-> None]
Enriched(map) == [kind |-> "Enriched", code |-> None, map |-> map]
Analyzing == [kind |-> "Analyzing", code |-> None, map |-> None]

\* client.resolve and client.poll: only resolve compares the head.
Answered(i) ==
  LET w == workers[i]
  IN  /\ w.pc \in {"Resolve", "Poll"}
      /\ \/ \E code \in ClientFailures : workers' = [workers EXCEPT ![i] = Ended(w, error_update(code))]
         \/ \E map \in ServedMaps :
              IF w.pc = "Resolve" /\ map.head # BaseMap.head
              THEN workers' = [workers EXCEPT ![i] = Ended(w, error_update("ResultStale"))]
              ELSE workers' = [workers EXCEPT ![i] = [w EXCEPT !.pc = "Check", !.response = map]]
      /\ UNCHANGED pane

\* The loop: a cancelled worker leaves, an answer that is not final is polled for again.
Check(i) ==
  LET w == workers[i]
  IN  /\ w.pc = "Check"
      /\ workers' = [workers EXCEPT ![i] =
           IF w.cancelled THEN [w EXCEPT !.pc = "End", !.response = None]
           ELSE CASE w.response.status = "Enriched" -> Ended(w, Enriched(w.response))
                  [] w.response.status \in {"Stale", "Unavailable", "Failed"} -> Ended(w, error_update("AnalysisFailed"))
                  [] OTHER -> Waiting(w, Analyzing)]
      /\ UNCHANGED pane

cancellable_wait(i) ==
  LET w == workers[i]
  IN  /\ w.pc = "Wait" /\ (w.cancelled \/ w.polls < MaxPolls)
      /\ workers' = [workers EXCEPT ![i] = IF w.cancelled THEN [w EXCEPT !.pc = "End"] ELSE [w EXCEPT !.pc = "Poll", !.polls = @ + 1]]
      /\ UNCHANGED pane
-----------------------------------------------------------------------------
(* The application.                                                        *)

Applied(p, update) ==
  CASE update.kind = "Analyzing" -> [p EXCEPT !.map.status = "Analyzing"]
    [] update.kind = "Enriched" -> replace_map(p, update.map)
    [] OTHER -> [p EXCEPT !.failure = update.code, !.dismissed = FALSE]

\* The application takes the next event: no join and no turn of poll_review_map is under way.
Free == pane.joining = None /\ pane.taking = 0

\* poll_review_map takes up to PollLimit updates, and stops at an empty channel; the worker
\* may send between two of them.
Take(p, left) ==
  IF workers[p.current].queue = <<>> THEN pane' = [p EXCEPT !.taking = 0] /\ UNCHANGED workers
  ELSE /\ pane' = [Applied(p, Head(workers[p.current].queue)) EXCEPT !.taking = left - 1]
       /\ workers' = [workers EXCEPT ![p.current].queue = Tail(@)]
poll_review_map == Free /\ pane.current # 0 /\ Take(pane, PollLimit)
TakeNext == pane.taking # 0 /\ Take(pane, pane.taking)

\* The new runtime starts, then the old one is dropped: cancelled and joined.
Retry ==
  /\ Free /\ pane.current # 0 /\ Len(workers) <= Retries
  /\ workers' = Append([workers EXCEPT ![pane.current].cancelled = TRUE], NewWorker)
  /\ pane' = [pane EXCEPT !.joining = pane.current, !.current = Len(workers) + 1]
RetryUnconfigured == Free /\ pane.current = 0 /\ UNCHANGED paneVars

\* The join ends, the old receiver goes with what is in it, and the rest of the retry runs.
Joined ==
  /\ pane.joining # None /\ workers[pane.joining].pc = "End"
  /\ pane' = [pane EXCEPT !.joining = None, !.map.status = "Analyzing", !.dismissed = FALSE]
  /\ workers' = [workers EXCEPT ![pane.joining].queue = <<>>, ![pane.joining].outcome = None]

Pressed(p) == Free /\ pane' = p /\ UNCHANGED workers
DismissFailure == Pressed([pane EXCEPT !.failure = None, !.dismissed = TRUE])
Act ==
  \/ \E delta \in {-3, -1, 1, 3} : Pressed(move_selection(pane, delta))
  \/ \E expanded \in BOOLEAN : Pressed(set_selected_expanded(pane, expanded))
  \/ Pressed(toggle_selected_expanded(pane))
  \/ \E filter \in BOOLEAN : Pressed(SetFilter(pane, filter))
  \/ \E file \in Files(BaseMap) : Pressed(mark_reviewed(pane, file)) \/ Pressed(mark_unreviewed(pane, file))

\* A click selects the row that was drawn and opens or closes it when it is a group.
Click ==
  \E id \in ToSet(visible_rows(pane)) :
    Pressed(IF IsGroup(pane, id) THEN toggle_selected_expanded(Select(pane, id)) ELSE Select(pane, id))

Next ==
  \/ \E i \in DOMAIN workers : Answered(i) \/ Check(i) \/ cancellable_wait(i)
  \/ poll_review_map \/ TakeNext \/ Retry \/ RetryUnconfigured \/ Joined \/ DismissFailure \/ Act \/ Click
-----------------------------------------------------------------------------
(* Properties.                                                             *)

\* The marked row is one of the rows that are drawn, after every change of the filter, of
\* what is folded and of the map itself, and the progress is complete only when every file
\* of the map is marked (ensure_visible_selection, replace_map, reviewed_percent).
SelectionIsShown ==
  /\ IF visible_rows(pane) = <<>> THEN pane.selected = None ELSE pane.selected \in ToSet(visible_rows(pane))
  /\ reviewed_percent(pane) = 100 <=> Files(pane.map) \subseteq pane.reviewed

\* Once the worker of the last retry has ended and its updates are taken, the pane shows
\* what that worker ended with: the enriched map without a failure, or a failure until it
\* is dismissed; a worker of an earlier retry is cancelled or over, and what it sent is
\* never shown (poll_review_map, ReviewMapRuntime::drop).
LastNewsStands ==
  /\ \A i \in DOMAIN workers \ {pane.current} : workers[i].cancelled \/ workers[i].pc = "End"
  /\ pane.map.head = BaseMap.head
  /\ (pane.joining = None /\ pane.current # 0 /\ workers[pane.current].pc = "End" /\ workers[pane.current].queue = <<>>) =>
       LET news == workers[pane.current].outcome
       IN  IF news.kind = "Enriched" /\ news.map.head = BaseMap.head
           THEN pane.map = news.map /\ pane.failure = None
           ELSE pane.failure # None \/ pane.dismissed
=============================================================================
