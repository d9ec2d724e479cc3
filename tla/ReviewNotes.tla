----------------------------- MODULE ReviewNotes -----------------------------
(***************************************************************************)
(* Notes, questions and answers of a review in the terminal application:   *)
(* the reviewer's notes and the editor that writes them, the live comments *)
(* agents send through the session daemon, and the questions the reviewer  *)
(* asks a model, answered by worker threads.                               *)
(*                                                                         *)
(* One iteration of the application loop runs four phases in this order:   *)
(* session requests, finished answers, one key or mouse event, a watch     *)
(* update.  Workers finish between any two steps.                          *)
(*                                                                         *)
(* Notes are kept as functions from ids to notes: ids come from counters   *)
(* and a note is pushed when its id is the largest so far, so the order of *)
(* the code's vectors is the order of the ids.  Typed text is printable,   *)
(* so the sanitiser keeps it; the comments of agents may not be (Comments).*)
(***************************************************************************)
EXTENDS Integers, Sequences, FiniteSets

CONSTANTS Files,          \* ids of the files a changeset may hold
          Ranges,         \* first and last line of what a reviewer may select
          Text,           \* what a reviewer may type; "" is the empty buffer
          Comments,       \* what agents may send
          RequestIds,     \* ids the daemon gives to requests (reused after its restart)
          MAX_CONCURRENT_ASKS,
          PollBudget,     \* updates taken by one poll_ask (8 in the code)
          MaxNotes,       \* bound on next_human_note_id
          MaxAsks,        \* bound on next_ask_id
          MaxCards,       \* bound on the notes and questions begun and the live notes there are
          None            \* no draft, no reply

ASSUME BoundsAreNatural ==
  /\ MAX_CONCURRENT_ASKS \in Nat \ {0} /\ PollBudget \in Nat \ {0}
  /\ MaxNotes \in Nat /\ MaxAsks \in Nat /\ MaxCards \in Nat
  /\ Ranges \subseteq {r \in Nat \X Nat : r[1] <= r[2]}
  /\ Comments \subseteq [file : Files, found : BOOLEAN, summary : {"ok", "blank", "control", "malformed"}]

EmptyText == ""
ASSUME TextMayBeEmpty == EmptyText \in Text

VARIABLES files,       \* files of the review
          human,       \* human_notes: id -> [file, body]
          live,        \* live_notes: id -> file
          draft,       \* human_note_draft
          asks,        \* ask_notes: id -> [question, thread, file, range, state];
                       \* no two questions are the same text
          askDraft,    \* ask_draft
          buf,         \* comment_buf
          mode,        \* input_mode: the three modes an editor can be in
          tmux,        \* the pane picker: is it open, is it to save the draft
          nextNote, nextAsk, nextJob,
          workers,     \* threads not yet reaped: job -> [question, st]
          updates,     \* the channel of AskUpdate
          jobs,        \* ask_jobs: job -> note id
          unseen,      \* ask_unseen
          phase,       \* where the loop is
          reply        \* result of the last session request

notes  == <<human, draft, buf, nextNote>>
asking == <<asks, askDraft, nextAsk, nextJob, jobs, unseen>>
runtime == <<workers, updates>>
vars == <<files, notes, live, asking, runtime, mode, tmux, phase, reply>>

NoPick == [picking |-> FALSE, note |-> FALSE]
NoteIds == 1..MaxNotes
AskIds  == 1..MaxAsks
LiveIds == RequestIds \X (0..2)      \* request id and index; 0: comment-add
Pending == <<"pending", 0>>
Failed == <<"failed", 0>>
Answered(n) == <<"answered", n>>     \* with the answer to question n
States == {Pending, Failed} \union {Answered(n) : n \in AskIds}
Drafts == [id : NoteIds, file : Files, body : Text, editing : BOOLEAN]
AskDrafts == [id : AskIds, question : AskIds, thread : AskIds, file : Files, range : Ranges]
IsPartial(f, S, T) == DOMAIN f \subseteq S /\ \A x \in DOMAIN f : f[x] \in T

\* A value is never taken for the absence of one.
ASSUME NoneIsApart == None \notin Drafts /\ None \notin AskDrafts /\ None \notin {"ok", "error"}

Init ==
  /\ files = Files
  /\ human = <<>> /\ live = <<>> /\ asks = <<>>
  /\ draft = None /\ askDraft = None /\ buf = EmptyText /\ mode = "Normal"
  /\ tmux = NoPick
  /\ nextNote = 1 /\ nextAsk = 1 /\ nextJob = 1
  /\ workers = <<>> /\ updates = <<>> /\ jobs = <<>> /\ unseen = <<>>
  /\ phase = "requests" /\ reply = None

Restricted(f, S) == [x \in DOMAIN f \intersect S |-> f[x]]
Room(k) == (nextNote - 1) + (nextAsk - 1) + Cardinality(DOMAIN live) + k <= MaxCards
With(f, x, v) == [y \in DOMAIN f \union {x} |-> IF y = x THEN v ELSE f[y]]
-----------------------------------------------------------------------------
(* The review controller's operations on notes and questions.              *)

\* replace_files: what belongs to a file that left the review goes with it.
replace_files(fs) ==
  /\ files' = fs
  /\ human' = Restricted(human, {n \in NoteIds : n \in DOMAIN human /\ human[n].file \in fs})
  /\ live' = Restricted(live, {n \in LiveIds : n \in DOMAIN live /\ live[n] \in fs})
  /\ draft' = IF draft # None /\ draft.file \notin fs THEN None ELSE draft
  /\ asks' = Restricted(asks, {n \in AskIds : n \in DOMAIN asks /\ asks[n].file \in fs})
  /\ askDraft' = IF askDraft # None /\ askDraft.file \notin fs THEN None ELSE askDraft

\* begin_human_note: a new editor takes the place of an open one.
begin_human_note(f) ==
  /\ nextNote <= MaxNotes /\ Room(1)
  /\ draft' = [id |-> nextNote, file |-> f, body |-> EmptyText, editing |-> FALSE]
  /\ nextNote' = nextNote + 1

edit_human_note(n) ==
  draft' = [id |-> n, file |-> human[n].file, body |-> human[n].body, editing |-> TRUE]

\* save_human_note_draft: an emptied note is removed; the text of a note that
\* was removed while it was edited goes nowhere.
save_human_note_draft(d) ==
  /\ draft' = None
  /\ human' = IF d = None THEN human
              ELSE IF d.body = EmptyText THEN Restricted(human, DOMAIN human \ (IF d.editing THEN {d.id} ELSE {}))
              ELSE IF d.editing /\ d.id \notin DOMAIN human THEN human
              ELSE With(human, d.id, [file |-> d.file, body |-> d.body])

\* ask_thread_root: the thread of the card under the cursor, else of the newest
\* question whose lines hold the first selected row; 0 starts a new thread.
ask_thread_root(f, r, card) ==
  LET covering == {n \in DOMAIN asks : asks[n].file = f /\ asks[n].range[1] <= r[1] /\ r[1] <= asks[n].range[2]}
      matched  == IF card \in DOMAIN asks THEN {card}
                  ELSE {n \in covering : \A k \in covering : k <= n}
  IN  IF \E n \in matched : asks[n].thread \in DOMAIN asks
      THEN asks[CHOOSE n \in matched : TRUE].thread
      ELSE 0

thread_is_pending(t) ==
  \E n \in DOMAIN asks : /\ asks[n].thread = t /\ asks[n].state = Pending
                         /\ \A k \in DOMAIN asks : asks[k].thread = t => k <= n

\* Mutant: a follow-up is about the selected lines.
BeginAskAtCursor(f, r, card) ==
  LET root == ask_thread_root(f, r, card)
  IN  /\ nextAsk <= MaxAsks /\ Room(1) /\ (root = 0 \/ ~thread_is_pending(root))
      /\ askDraft' = [id |-> nextAsk, question |-> nextAsk, file |-> f, range |-> r,
                      thread |-> IF root = 0 THEN nextAsk ELSE root]
      /\ nextAsk' = nextAsk + 1

\* Mutant: ids are counted from the questions there are.
BeginAskReusingIds(f, r, card) ==
  LET id == Cardinality(DOMAIN asks) + 1
  IN  /\ nextAsk <= MaxAsks /\ Room(1)
      /\ askDraft' = [id |-> id, question |-> nextAsk, thread |-> id, file |-> f, range |-> r]
      /\ nextAsk' = nextAsk + 1

\* begin_ask: a follow-up waits for the answer before it, and asks about the
\* lines of its thread's first question.
begin_ask(f, r, card) ==
  LET root == ask_thread_root(f, r, card)
  IN  /\ nextAsk <= MaxAsks /\ Room(1)
      /\ root = 0 \/ ~thread_is_pending(root)
      /\ askDraft' = [id |-> nextAsk, question |-> nextAsk,
                      thread |-> IF root = 0 THEN nextAsk ELSE root,
                      file   |-> IF root = 0 THEN f ELSE asks[root].file,
                      range  |-> IF root = 0 THEN r ELSE asks[root].range]
      /\ nextAsk' = nextAsk + 1

\* commit_ask_draft, then dispatch_ask of the committed question: a refused
\* start (all slots taken, or no thread could be spawned) fails the card.
reap(w) == Restricted(w, {j \in DOMAIN w : w[j].st # "done"})

dispatch_ask(d, spawned) ==
  LET kept == reap(workers)
      ok == spawned /\ Cardinality(DOMAIN kept) < MAX_CONCURRENT_ASKS
  IN  /\ asks' = With(asks, d.id, [question |-> d.question, thread |-> d.thread, file |-> d.file, range |-> d.range,
                                   state |-> IF ok THEN Pending ELSE Failed])
      /\ workers' = IF ok THEN With(kept, nextJob, [question |-> d.question, st |-> "running"]) ELSE kept
      /\ jobs' = IF ok THEN With(jobs, nextJob, d.id) ELSE jobs
      /\ nextJob' = IF ok THEN nextJob + 1 ELSE nextJob

resolve_ask(done) ==
  [n \in DOMAIN asks |-> IF n \in DOMAIN done THEN [asks[n] EXCEPT !.state = done[n]] ELSE asks[n]]
-----------------------------------------------------------------------------
(* Phase 1: requests of agents, through the session bridge.                *)

\* A comment names a file and line of the review or
\* not; its summary is fine, blank, or made of control characters only, which
\* is not blank before the sanitiser and blank after it; or it does not parse
\* (a field missing or too long, a line or hunk number below 1).
parse_comment(c) == c.summary # "malformed"
validate_comment(c, id) == c.summary # "blank" /\ id \notin DOMAIN live /\ c.file \in files /\ c.found
add_live_note(c, id) == id \notin DOMAIN live /\ c.summary = "ok" /\ c.file \in files /\ c.found

Respond(r) == reply' = r

add_comment ==
  \E c \in Comments, r \in RequestIds :
    LET id == <<r, 0>>
        ok == parse_comment(c) /\ validate_comment(c, id) /\ add_live_note(c, id)
    IN  /\ ok => Room(1)
        /\ live' = IF ok THEN With(live, id, c.file) ELSE live
        /\ Respond(IF ok THEN "ok" ELSE "error")

\* apply_comments: all are validated before one is added; when adding one
\* fails, the ones added before it are removed again.
AddedBatch(cs, r, k) ==
  [id \in DOMAIN live \union {<<r, i>> : i \in 1..k} |-> IF id \in DOMAIN live THEN live[id] ELSE cs[id[2]].file]
\* Mutant: what was added before the refused comment stays.
KeptAsAdded(l, r, k) == l
RolledBack(l, r, k) == Restricted(l, DOMAIN l \ {<<r, i>> : i \in 1..k})

apply_comments ==
  \E cs \in [1..2 -> Comments], r \in RequestIds :
    LET valid == \A i \in 1..2 : parse_comment(cs[i]) /\ validate_comment(cs[i], <<r, i>>)
        bad   == {i \in 1..2 : ~add_live_note(cs[i], <<r, i>>)}
        first == CHOOSE i \in bad : \A j \in bad : i <= j
    IN  IF valid /\ bad = {}
        THEN Room(2) /\ live' = AddedBatch(cs, r, 2) /\ Respond("ok")
        ELSE /\ live' = IF ~valid THEN live ELSE RolledBack(AddedBatch(cs, r, first - 1), r, first - 1)
             /\ Respond("error")

\* remove_session_note takes live notes first, then the reviewer's own.
remove_comment ==
  \/ \E id \in LiveIds :
       /\ live' = Restricted(live, DOMAIN live \ {id})
       /\ Respond(IF id \in DOMAIN live THEN "ok" ELSE "error")
       /\ UNCHANGED human
  \/ \E n \in NoteIds :
       /\ human' = Restricted(human, DOMAIN human \ {n})
       /\ Respond(IF n \in DOMAIN human THEN "ok" ELSE "error")
       /\ UNCHANGED live

clear_session_notes(fs, includeUser) ==
  /\ live' = Restricted(live, {id \in DOMAIN live : live[id] \notin fs})
  /\ human' = IF includeUser THEN Restricted(human, {n \in DOMAIN human : human[n].file \notin fs}) ELSE human

clear_comments ==
  \E f \in Files \union {None}, includeUser \in BOOLEAN :
    IF f = None \/ f \in files
    THEN clear_session_notes(IF f = None THEN Files ELSE {f}, includeUser) /\ Respond("ok")
    ELSE UNCHANGED <<human, live>> /\ Respond("error")

\* parse_review_input: the inputs a running session can be switched to.  The
\* fields of a request name the paths the kind needs, none, or are wrong (of
\* another type, one path of two).
InputKinds == {"diff", "vcs", "show", "stash", "stash-show", "files", "difftool", "patch", "pager", "other"}
parse_review_input(kind, fields) ==
  \/ kind \in {"diff", "vcs", "show", "stash", "stash-show"} /\ fields # "wrong"
  \/ kind \in {"files", "difftool", "patch"} /\ fields = "paths"

\* apply_session_reload: the input is parsed and loaded before files change.
apply_session_reload ==
  \E accepted \in {parse_review_input(kind, fields) : kind \in InputKinds, fields \in {"paths", "none", "wrong"}},
     loads \in BOOLEAN, fs \in SUBSET Files :
    IF accepted /\ loads
    THEN replace_files(fs) /\ Respond("ok")
    ELSE /\ Respond("error")
         /\ UNCHANGED <<files, human, live, draft, asks, askDraft>>

apply_session_request ==
  /\ phase = "requests"
  /\ \/ (add_comment \/ apply_comments) /\ UNCHANGED <<files, notes, asks, askDraft>>
     \/ (remove_comment \/ clear_comments) /\ UNCHANGED <<files, draft, buf, nextNote, asks, askDraft>>
     \/ apply_session_reload /\ UNCHANGED <<buf, nextNote>>
  /\ UNCHANGED <<nextAsk, nextJob, jobs, unseen, runtime, mode, tmux, phase>>

\* apply_session_requests takes at most 16 of them; the rest wait.
apply_session_requests == phase = "requests" /\ phase' = "poll" /\ reply' = None
                          /\ UNCHANGED <<files, notes, live, asking, runtime, mode, tmux>>
-----------------------------------------------------------------------------
(* Phase 2: answers.                                                       *)

\* Mutant: answers wait until no editor is open.
TakenWhenIdle == IF mode = "Normal" THEN SubSeq(updates, 1, IF Len(updates) < PollBudget THEN Len(updates) ELSE PollBudget)
                 ELSE <<>>
Taken == SubSeq(updates, 1, IF Len(updates) < PollBudget THEN Len(updates) ELSE PollBudget)

\* A reload may have dropped a card; the jump key never offers it (nor the 0 of
\* an update whose job is not known).
Offered(ids) ==
  LET kept[k \in 0..Len(ids)] ==
        IF k = 0 THEN <<>> ELSE IF ids[k] \in DOMAIN asks THEN Append(kept[k - 1], ids[k]) ELSE kept[k - 1]
  IN  kept[Len(ids)]

poll_ask ==
  /\ phase = "poll"
  /\ LET known == {i \in DOMAIN Taken : Taken[i].job \in DOMAIN jobs}
         about == [i \in known |-> jobs[Taken[i].job]]
         done  == [n \in {about[i] : i \in known} |->
                     LET u == Taken[CHOOSE i \in known : about[i] = n]
                     IN  IF u.ok THEN Answered(u.question) ELSE Failed]
     IN  /\ asks' = resolve_ask(done)
         /\ unseen' = Offered(unseen \o [i \in DOMAIN Taken |-> IF i \in known THEN about[i] ELSE 0])
         /\ jobs' = Restricted(jobs, DOMAIN jobs \ {Taken[i].job : i \in known})
  /\ updates' = SubSeq(updates, Len(Taken) + 1, Len(updates))
  /\ workers' = reap(workers)
  /\ phase' = "event"
  /\ UNCHANGED <<files, notes, live, askDraft, nextAsk, nextJob, mode, tmux, reply>>
-----------------------------------------------------------------------------
(* Phase 3: one event.  A key goes to the editor, else to the pane picker, *)
(* else to the review; the mouse works wherever the mode is Normal.        *)

Keys == mode = "Normal" /\ ~tmux.picking

StartNote ==
  /\ Keys /\ \E f \in files : begin_human_note(f)
  /\ buf' = EmptyText /\ mode' = "Note"
  /\ UNCHANGED <<files, human, live, asking, runtime, tmux>>

start_ask ==
  /\ Keys
  /\ \E f \in files, r \in Ranges, card \in {0} \union DOMAIN asks :
       /\ card # 0 => r[1] = r[2] /\ f = asks[card].file /\ r[1] = asks[card].range[1]
       /\ begin_ask(f, r, card)
  /\ buf' = EmptyText /\ mode' = "Ask"
  /\ UNCHANGED <<files, human, live, draft, nextNote, asks, nextJob, jobs, unseen, runtime, tmux>>

\* edit_focused_buffer: every edit is copied into the open draft, if there is one
\* (into the question's draft too, which is read from the buffer when committed).
edit_focused_buffer ==
  /\ mode \in {"Note", "Ask"}
  /\ \E t \in Text \ {buf} :
       /\ buf' = t
       /\ draft' = IF mode = "Note" /\ draft # None THEN [draft EXCEPT !.body = t] ELSE draft
  /\ UNCHANGED <<files, human, live, nextNote, asking, runtime, mode, tmux>>

\* confirm_input in the two editors.
ConfirmNote ==
  /\ mode = "Note"
  /\ save_human_note_draft(IF draft = None THEN None ELSE [draft EXCEPT !.body = buf])
  /\ UNCHANGED <<asks, askDraft, nextJob, jobs, workers>>

ConfirmAsk ==
  /\ mode = "Ask"
  /\ IF askDraft # None /\ buf # EmptyText
     THEN \E spawned \in BOOLEAN : dispatch_ask(askDraft, spawned)
     ELSE UNCHANGED <<asks, nextJob, jobs, workers>>
  /\ askDraft' = None
  /\ UNCHANGED <<human, draft>>

confirm_input ==
  /\ ConfirmNote \/ ConfirmAsk
  /\ buf' = EmptyText /\ mode' = "Normal"
  /\ UNCHANGED <<files, live, nextNote, nextAsk, unseen, updates, tmux>>

cancel_input ==
  /\ mode \in {"Note", "Ask"}
  /\ draft' = IF mode = "Note" THEN None ELSE draft
  /\ askDraft' = IF mode = "Ask" THEN None ELSE askDraft
  /\ buf' = EmptyText /\ mode' = "Normal"
  /\ UNCHANGED <<files, human, live, nextNote, asks, nextAsk, nextJob, jobs, unseen, runtime, tmux>>

\* close_overlay (Ctrl-Q in every mode): the mode is left, the draft stays behind.
close_overlay ==
  /\ mode \in {"Note", "Ask"} /\ mode' = "Normal"
  /\ UNCHANGED <<files, notes, live, asking, runtime, tmux>>

\* handle_mouse on a note card: the editor opens on the saved note.
ClickNote ==
  /\ mode = "Normal"
  /\ \E n \in DOMAIN human : edit_human_note(n) /\ buf' = human[n].body
  /\ mode' = "Note"
  /\ UNCHANGED <<files, human, live, nextNote, asking, runtime, tmux>>

\* dispatch_tmux_send: what was sent is saved, what was not goes back to the editor.
\* Mutant: the draft is taken before the outcome is known.
DispatchForgetting(d, forNote, sent) ==
  /\ tmux' = NoPick
  /\ IF sent /\ forNote
     THEN save_human_note_draft(d) /\ buf' = EmptyText /\ mode' = "Normal"
     ELSE /\ draft' = None /\ mode' = (IF forNote THEN "Note" ELSE mode)
          /\ UNCHANGED <<human, buf>>

dispatch_tmux_send(d, forNote, sent) ==
  /\ tmux' = NoPick
  /\ IF sent /\ forNote
     THEN save_human_note_draft(d) /\ buf' = EmptyText /\ mode' = "Normal"
     ELSE /\ draft' = d /\ mode' = (IF forNote THEN "Note" ELSE mode)
          /\ UNCHANGED <<human, buf>>

open_tmux_picker(d, forNote, panes) ==
  /\ tmux' = IF panes THEN [picking |-> TRUE, note |-> forNote] ELSE [tmux EXCEPT !.note = FALSE]
  /\ mode' = IF panes /\ forNote THEN "Normal" ELSE mode
  /\ draft' = d
  /\ UNCHANGED <<human, buf>>

\* request_tmux_send: to the remembered pane while it exists, else through the picker.
request_tmux_send(d, forNote) ==
  \/ \E sent \in BOOLEAN : dispatch_tmux_send(d, forNote, sent)
  \/ \E panes \in BOOLEAN : open_tmux_picker(d, forNote, panes)

SendNote ==
  /\ mode = "Note" /\ draft # None
  /\ request_tmux_send([draft EXCEPT !.body = buf], TRUE)
  /\ UNCHANGED <<files, live, nextNote, asking, runtime>>

SendSelection ==
  /\ Keys /\ request_tmux_send(draft, FALSE)
  /\ UNCHANGED <<files, live, nextNote, asking, runtime>>

cancel_tmux_picker ==
  /\ tmux' = NoPick /\ mode' = (IF tmux.note THEN "Note" ELSE mode)
  /\ UNCHANGED <<human, draft, buf>>

handle_tmux_pick_key ==
  /\ mode = "Normal" /\ tmux.picking
  /\ \/ \E sent \in BOOLEAN : dispatch_tmux_send(draft, tmux.note, sent)
     \/ cancel_tmux_picker
  /\ UNCHANGED <<files, live, nextNote, asking, runtime>>

\* jump_to_ask_answer: the card of the oldest answer is selected.
jump_to_ask_answer ==
  /\ Keys /\ unseen # <<>> /\ unseen' = Tail(unseen)
  /\ UNCHANGED <<files, notes, live, asks, askDraft, nextAsk, nextJob, jobs, runtime, mode, tmux>>

NoEvent == UNCHANGED <<files, notes, live, asking, runtime, mode, tmux>>

handle_event ==
  /\ phase = "event" /\ phase' = "watch" /\ UNCHANGED reply
  /\ \/ StartNote \/ start_ask \/ edit_focused_buffer \/ confirm_input \/ cancel_input
     \/ close_overlay \/ ClickNote \/ SendNote \/ SendSelection \/ handle_tmux_pick_key \/ jump_to_ask_answer
     \/ NoEvent
-----------------------------------------------------------------------------
(* Phase 4: a watch update; and the worker threads.                        *)

\* Nothing to show, and a failed load, leave the review as it is.
apply_watch_update ==
  /\ phase = "watch" /\ phase' = "requests"
  /\ \/ \E fs \in SUBSET Files \ {{}} : replace_files(fs)
     \/ UNCHANGED <<files, human, live, draft, asks, askDraft>>
  /\ UNCHANGED <<buf, nextNote, nextAsk, nextJob, jobs, unseen, runtime, mode, tmux, reply>>

\* The job ends with an answer or an error (its executor has a deadline); the
\* thread is seen as finished some time after it has sent its update.
WorkerSends(j) ==
  /\ j \in DOMAIN workers /\ workers[j].st = "running"
  /\ \E ok \in BOOLEAN : updates' = Append(updates, [job |-> j, question |-> workers[j].question, ok |-> ok])
  /\ workers' = [workers EXCEPT ![j].st = "sent"]
  /\ UNCHANGED <<files, notes, live, asking, mode, tmux, phase, reply>>

WorkerEnds(j) ==
  /\ j \in DOMAIN workers /\ workers[j].st = "sent"
  /\ workers' = [workers EXCEPT ![j].st = "done"]
  /\ UNCHANGED <<files, notes, live, asking, updates, mode, tmux, phase, reply>>

Workers == \E j \in 1..MaxAsks : WorkerSends(j) \/ WorkerEnds(j)
Loop == apply_session_requests \/ poll_ask \/ handle_event \/ apply_watch_update
Next == apply_session_request \/ Loop \/ Workers

Spec == Init /\ [][Next]_vars
\* The loop never blocks on anything but its own polls, and jobs have deadlines.
FairSpec == Spec /\ WF_vars(Loop) /\ \A j \in 1..MaxAsks : WF_vars(WorkerSends(j))
-----------------------------------------------------------------------------
(* Properties.                                                             *)

\* Every part of the state has its type.
TypeOK ==
  /\ files \subseteq Files
  /\ IsPartial(human, NoteIds, [file : Files, body : Text])
  /\ IsPartial(live, LiveIds, Files)
  /\ draft \in {None} \union Drafts /\ askDraft \in {None} \union AskDrafts
  /\ IsPartial(asks, AskIds, [question : AskIds, thread : AskIds, file : Files, range : Ranges, state : States])
  /\ buf \in Text /\ mode \in {"Normal", "Note", "Ask"}
  /\ tmux \in [picking : BOOLEAN, note : BOOLEAN]
  /\ nextNote \in 1..MaxNotes + 1 /\ nextAsk \in 1..MaxAsks + 1 /\ nextJob \in 1..MaxAsks + 1
  /\ IsPartial(workers, AskIds, [question : AskIds, st : {"running", "sent", "done"}])
  /\ updates \in Seq([job : AskIds, question : AskIds, ok : BOOLEAN])
  /\ IsPartial(jobs, AskIds, AskIds) /\ unseen \in Seq(AskIds)
  /\ phase \in {"requests", "poll", "event", "watch"} /\ reply \in {None, "ok", "error"}

\* A card that says it waits for an answer has a worker that is going to send
\* one, or an update in the channel, under a job that names the card: no
\* refused start and no reload leaves a card waiting for ever (dispatch_ask).
PendingIsAwaited ==
  \A n \in DOMAIN asks : asks[n].state = Pending =>
    \E j \in DOMAIN jobs : /\ jobs[j] = n
                           /\ \/ j \in DOMAIN workers /\ workers[j].st = "running"
                              \/ \E i \in DOMAIN updates : updates[i].job = j

\* An answer is shown on the card of the question it answers, whatever was reloaded,
\* dropped or asked while its worker ran, and a card that waits is awaited (poll_ask,
\* resolve_ask).
AnswersOwnQuestion ==
  /\ \A n \in DOMAIN asks : asks[n].state \in {Pending, Failed, Answered(asks[n].question)}
  /\ PendingIsAwaited

\* A thread keeps its first question as long as it has any, all its questions
\* are about the same lines, and one at most waits for an answer (begin_ask,
\* replace_files).
ThreadsHoldTogether ==
  \A n \in DOMAIN asks :
    LET t == asks[n].thread
    IN  /\ t \in DOMAIN asks /\ asks[t].thread = t
        /\ asks[n].file = asks[t].file /\ asks[n].range = asks[t].range
        /\ \A k \in DOMAIN asks :
             asks[k].thread = t /\ asks[k].state = Pending /\ asks[n].state = Pending => k = n

\* A session request that is answered with an error has changed nothing, the
\* batch whose second comment is refused after its first was added included.
RefusedChangesNothing ==
  [][reply' = "error" /\ phase' = "requests" =>
       UNCHANGED <<files, human, live, draft, asks, askDraft>>]_vars

\* Text in an open note editor does not vanish: when the draft goes, its text is
\* what the note now says, unless the reviewer cancelled it, its file left the
\* review, or the note it edits had been removed by an agent.
DraftSavedOrCancelled ==
  [][(/\ draft # None /\ draft' = None /\ ~cancel_input
      /\ draft.file \in files' /\ (draft.editing => draft.id \in DOMAIN human)
      /\ draft.body # EmptyText)
     => draft.id \in DOMAIN human' /\ human'[draft.id].body = draft.body]_vars

\* Every question is answered, fails, or leaves with its file.
QuestionsSettle ==
  \A n \in AskIds :
    (n \in DOMAIN asks /\ asks[n].state = Pending)
      ~> ~(n \in DOMAIN asks /\ asks[n].state = Pending)
=============================================================================
