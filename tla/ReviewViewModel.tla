---------------------------- MODULE ReviewViewModel ----------------------------
(***************************************************************************)
(* The review screen of the Android client: ReviewViewModel.kt, the draft  *)
(* store it writes, and the MobileSession (ramo-mobile) and GitHub client  *)
(* (ramo-github) its coroutines call.                                      *)
(*                                                                         *)
(* Handlers run on the main thread, one at a time; each network call is a  *)
(* coroutine that leaves the main thread and comes back later, so a        *)
(* handler is one action and a call is two or more.  A coroutine that is   *)
(* cancelled still comes back: runCatching takes the CancellationException *)
(* for a failure of the call.                                              *)
(*                                                                         *)
(* A draft is its anchor, its body and the revision it was captured at;    *)
(* rows, threads, the counts and the sheets that are merely open or closed *)
(* are left out, and the line selection is the input of openComment.       *)
(***************************************************************************)
EXTENDS Naturals, Sequences, FiniteSets

CONSTANTS
  FileCount,     \* the files of the pull request are 1 .. FileCount
  LongFiles,     \* the files whose rows take a second page
  Lines, Sides,  \* where a comment can be put
  Bodies,        \* the texts a user writes
  Blank,         \* a text of white space only
  MaxHead,       \* bound: revisions pushed to the pull request
  MaxInputs,     \* bound: inputs of the user, pushes and restarts together
  MaxWrites,     \* bound: Viewed writes of one file under way
  Impatient,     \* the user acts while a reload, an expansion or a publication runs
  None

Files == 1 .. FileCount

ASSUME ReviewAssumption ==
  /\ FileCount \in Nat \ {0} /\ MaxHead \in Nat \ {0}
  /\ MaxInputs \in Nat /\ MaxWrites \in Nat \ {0}
  /\ LongFiles \subseteq Files
  /\ Blank \notin Bodies
  /\ Impatient \in BOOLEAN
  /\ None \notin Files /\ None \notin BOOLEAN

VARIABLES
  head,        \* GitHub: the revision of the pull request
  remote,      \* GitHub: which files the viewer has marked Viewed
  published,   \* GitHub: the comments of accepted reviews, each with its commit_id
  store,       \* SecureDraftStore: the encrypted draft review, or None
  snapshot,    \* MobileSession.snapshots of this pull request
  ui,          \* ReviewUiState
  confirmed,   \* viewedConfirmed
  writes,      \* viewedJobs: for each file the chain of writes under way
  openJob, staleOpens,    \* the open coroutine, and cancelled ones under way
  pageJob, stalePages,    \* the page coroutine, and cancelled ones under way
  expanding,   \* the file whose context is being expanded
  saving,      \* the createDraft call under way
  publishJob,  \* the publish call under way
  kept,        \* history: ids of drafts the user saved and did not delete
  unsure,      \* history: files whose last Viewed write lost its answer
  inputs       \* inputs so far

github == <<head, remote, published>>
jobs == <<openJob, staleOpens, pageJob, stalePages>>
calls == <<expanding, saving, publishJob>>
viewedVars == <<confirmed, writes, unsure>>
draftVars == <<store, kept>>
vars == <<github, draftVars, snapshot, ui, viewedVars, jobs, calls, inputs>>

Revisions == 1 .. MaxHead
Snapshots == [rev : Revisions, viewed : [Files -> BOOLEAN]]
Drafts == [file : Files, line : Lines, side : Sides, body : Bodies, rev : Revisions]

\* create_mobile_draft: the id hashes the path, the first line and the body.
DraftId(d) == <<d.file, d.line, d.body>>
DraftIds == Files \X Lines \X Bodies

Screens == [file : Files, viewed : BOOLEAN, more : BOOLEAN]
Editors == [line : Lines, side : Sides, replaces : DraftIds \cup {None}]
UiStates ==
  [loading : BOOLEAN, error : BOOLEAN,
   pull : Snapshots \cup {None}, selected : Files, screen : Screens \cup {None},
   drafts : SUBSET Drafts, body : BOOLEAN, editor : Editors \cup {None},
   publishing : BOOLEAN, attention : BOOLEAN, notice : Files \cup {None}]
OpenJobs == [phase : {"await", "call"}, read : {None}] \cup [phase : {"read"}, read : Snapshots]
PageJobs == [kind : {"load", "more"}, file : Files]
Writes == [value : BOOLEAN, phase : {"sent", "applied"}]
Stored == [rev : Revisions, drafts : SUBSET Drafts, body : BOOLEAN]
PublishJobs == [rev : Revisions, drafts : SUBSET Drafts, phase : {"check", "post", "accepted"}]
Savings == [line : Lines, side : Sides, file : Files, rev : Revisions,
            body : Bodies \cup {Blank}, replaces : DraftIds \cup {None}]

\* A value is never taken for the absence of one.
ASSUME NoneIsApart == None \notin Snapshots /\ None \notin Stored /\ None \notin OpenJobs

\* initialPath: the file the review was opened on.
InitialFile == 1

\* ReviewUiState as a new view model has it, once open() has started.
FreshUi ==
  [loading |-> TRUE, error |-> FALSE, pull |-> None, selected |-> InitialFile,
   screen |-> None, drafts |-> {}, body |-> FALSE, editor |-> None,
   publishing |-> FALSE, attention |-> FALSE, notice |-> None]

Calling == [phase |-> "call", read |-> None]
NoWrites == [f \in Files |-> <<>>]

Init ==
  /\ head = 1
  /\ remote \in [Files -> BOOLEAN]
  /\ published = {}
  /\ store = None /\ kept = {}
  /\ snapshot = None
  /\ ui = FreshUi
  /\ confirmed = [f \in Files |-> FALSE] /\ writes = NoWrites /\ unsure = {}
  /\ openJob = Calling /\ staleOpens = {}
  /\ pageJob = None /\ stalePages = {}
  /\ expanding = None /\ saving = None /\ publishJob = None
  /\ inputs = 0

Input == inputs < MaxInputs /\ inputs' = inputs + 1

\* A patient user lets each of these end before touching what it will replace.
WaitsForReload == Impatient \/ openJob = None
WaitsForExpansion == Impatient \/ expanding = None
WaitsForPublication == Impatient \/ publishJob = None
WaitsForSave == Impatient \/ saving = None

-----------------------------------------------------------------------------
(* Opening and reloading the pull request *)

\* openJob?.cancel() and pageJob?.cancel(): a call already under way goes on.
CancelOpen ==
  staleOpens' = IF openJob = None \/ openJob.phase = "await"
                THEN staleOpens ELSE staleOpens \cup {openJob}
CancelPage ==
  stalePages' = IF pageJob = None THEN stalePages ELSE stalePages \cup {pageJob.kind}

\* Mutant: the reload does not wait for the writes.
NeverActive == FALSE

WritesActive == \E f \in Files : writes[f] # <<>>

open ==
  /\ CancelOpen /\ CancelPage
  /\ pageJob' = None
  /\ openJob' = IF WritesActive THEN [phase |-> "await", read |-> None] ELSE Calling
  /\ ui' = [ui EXCEPT !.loading = TRUE, !.screen = None, !.error = FALSE, !.editor = None]

\* The Retry button of the failure banner, or of the empty screen.
Retry ==
  /\ ui.error \/ (ui.screen = None /\ ~ui.loading)
  /\ WaitsForExpansion /\ WaitsForSave /\ WaitsForPublication
  /\ Input
  /\ open
  /\ UNCHANGED <<github, draftVars, snapshot, viewedVars, calls>>

\* awaitViewedWrites is through.
OpenCalls ==
  /\ openJob # None /\ openJob.phase = "await" /\ ~WritesActive
  /\ openJob' = Calling
  /\ UNCHANGED <<github, draftVars, snapshot, ui, viewedVars, staleOpens, pageJob, stalePages, calls, inputs>>

\* open_pull_request loads the snapshot from GitHub.
Reading == [phase |-> "read", read |-> [rev |-> head, viewed |-> remote]]

OpenReads ==
  /\ openJob = Calling
  /\ openJob' = Reading
  /\ UNCHANGED <<github, draftVars, snapshot, ui, viewedVars, staleOpens, pageJob, stalePages, calls, inputs>>

StaleOpenReads ==
  /\ Calling \in staleOpens
  /\ staleOpens' = (staleOpens \ {Calling}) \cup {Reading}
  /\ UNCHANGED <<github, draftVars, snapshot, ui, viewedVars, openJob, pageJob, stalePages, calls, inputs>>

NewPage(f) == [kind |-> "load", file |-> f]

loadFile(state, f) ==
  /\ CancelPage
  /\ ui' = [state EXCEPT !.loading = TRUE, !.screen = None, !.error = FALSE]
  /\ pageJob' = NewPage(f)

\* Mutant: drafts of another revision are not taken up.
CurrentDrafts(pull) == IF store # None /\ store.rev = pull.rev THEN store.drafts ELSE {}

RestoredDrafts(pull) == IF store = None THEN {} ELSE store.drafts

OpenSucceeds ==
  /\ openJob # None /\ openJob.phase = "read"
  /\ LET pull == openJob.read IN
     /\ snapshot' = pull
     /\ confirmed' = pull.viewed
     /\ unsure' = {}
     /\ loadFile([ui EXCEPT !.pull = pull, !.selected = InitialFile,
                            !.drafts = RestoredDrafts(pull),
                            !.body = store # None /\ store.body,
                            !.attention = store # None /\ store.rev # pull.rev],
                 InitialFile)
  /\ openJob' = None
  /\ UNCHANGED <<github, draftVars, writes, staleOpens, calls, inputs>>

LoadFailed == [ui EXCEPT !.loading = FALSE, !.error = TRUE]

OpenFails ==
  /\ openJob # None /\ openJob.phase # "await"
  /\ ui' = LoadFailed
  /\ openJob' = None
  /\ UNCHANGED <<github, draftVars, snapshot, viewedVars, staleOpens, pageJob, stalePages, calls, inputs>>

\* A cancelled open ends: the session keeps the snapshot it loaded, and the
\* cancellation is reported as a failure to load.
StaleOpenEnds(job) ==
  /\ staleOpens' = staleOpens \ {job}
  /\ ui' = LoadFailed
  /\ snapshot' \in {snapshot} \cup (IF job.phase = "read" THEN {job.read} ELSE {})
  /\ UNCHANGED <<github, draftVars, viewedVars, openJob, pageJob, stalePages, calls, inputs>>

-----------------------------------------------------------------------------
(* Files and pages *)

selectFile(f) ==
  /\ ui.pull # None /\ f # ui.selected
  /\ WaitsForExpansion
  /\ Input
  /\ loadFile([ui EXCEPT !.selected = f, !.editor = None], f)
  /\ UNCHANGED <<github, draftVars, snapshot, viewedVars, openJob, staleOpens, calls>>

\* file_screen: the rows of one file, with the Viewed mark of the snapshot.
FirstPage(f) == [file |-> f, viewed |-> snapshot.viewed[f], more |-> f \in LongFiles]

FileLoads ==
  /\ pageJob # None /\ pageJob.kind = "load"
  /\ ui' = [ui EXCEPT !.loading = FALSE, !.screen = FirstPage(pageJob.file)]
  /\ pageJob' = None
  /\ UNCHANGED <<github, draftVars, snapshot, viewedVars, openJob, staleOpens, stalePages, calls, inputs>>

loadMoreRows ==
  /\ ui.screen # None /\ ui.screen.more /\ pageJob = None
  /\ Input
  /\ pageJob' = [kind |-> "more", file |-> ui.selected]
  /\ UNCHANGED <<github, draftVars, snapshot, ui, viewedVars, openJob, staleOpens, stalePages, calls>>

MoreRowsLoad ==
  /\ pageJob # None /\ pageJob.kind = "more"
  /\ ui' = IF ui.screen = None THEN ui ELSE [ui EXCEPT !.screen.more = FALSE]
  /\ pageJob' = None
  /\ UNCHANGED <<github, draftVars, snapshot, viewedVars, openJob, staleOpens, stalePages, calls, inputs>>

PageFailed(kind) == IF kind = "load" THEN LoadFailed ELSE [ui EXCEPT !.error = TRUE]

PageFails ==
  /\ pageJob # None
  /\ ui' = PageFailed(pageJob.kind)
  /\ pageJob' = None
  /\ UNCHANGED <<github, draftVars, snapshot, viewedVars, openJob, staleOpens, stalePages, calls, inputs>>

\* A cancelled page ends: reported as a failure too.
StalePageEnds(kind) ==
  /\ stalePages' = stalePages \ {kind}
  /\ ui' = PageFailed(kind)
  /\ UNCHANGED <<github, draftVars, snapshot, viewedVars, openJob, staleOpens, pageJob, calls, inputs>>

\* expand: nothing cancels it, and it takes the file selected now.
expand ==
  /\ ui.screen # None /\ expanding = None
  /\ WaitsForReload
  /\ Input
  /\ expanding' = ui.selected
  /\ UNCHANGED <<github, draftVars, snapshot, ui, viewedVars, jobs, saving, publishJob>>

ExpandEnds ==
  /\ expanding # None
  /\ ui' \in {[ui EXCEPT !.screen = FirstPage(expanding), !.error = FALSE],
              [ui EXCEPT !.error = TRUE]}
  /\ expanding' = None
  /\ UNCHANGED <<github, draftVars, snapshot, viewedVars, jobs, saving, publishJob, inputs>>

-----------------------------------------------------------------------------
(* Viewed marks *)

applyViewed(state, f, viewed) ==
  IF state.pull.viewed[f] = viewed THEN state
  ELSE [state EXCEPT
          !.pull.viewed[f] = viewed,
          !.screen = IF state.screen # None /\ state.selected = f
                     THEN [state.screen EXCEPT !.viewed = viewed] ELSE state.screen]

\* mutateViewed: show the new mark, and write it after the writes before it.
mutateViewed(state, f, viewed) ==
  /\ state.pull # None /\ state.pull.viewed[f] # viewed
  /\ Len(writes[f]) < MaxWrites
  /\ WaitsForReload
  /\ Input
  /\ ui' = applyViewed(state, f, viewed)
  /\ writes' = [writes EXCEPT ![f] = Append(@, [value |-> viewed, phase |-> "sent"])]
  /\ UNCHANGED <<github, draftVars, snapshot, confirmed, unsure, jobs, calls>>

\* The check box shows the mark of the screen and asks for the opposite.
setViewed == ui.screen # None /\ mutateViewed(ui, ui.selected, ~ui.screen.viewed)

lastRowVisible ==
  /\ ui.screen # None /\ ~ui.screen.more /\ ~ui.screen.viewed
  /\ mutateViewed([ui EXCEPT !.notice = ui.selected], ui.selected, TRUE)

undoViewed ==
  /\ ui.screen # None /\ ui.notice # None
  /\ mutateViewed([ui EXCEPT !.notice = None], ui.notice, FALSE)

dismissNotice ==
  /\ ui.screen # None /\ ui.notice # None
  /\ Input
  /\ ui' = [ui EXCEPT !.notice = None]
  /\ UNCHANGED <<github, draftVars, snapshot, viewedVars, jobs, calls>>

\* The first write of a chain runs; the others join their predecessor.
Sent(f) == writes[f] # <<>> /\ Head(writes[f]).phase = "sent"
Applied(f) == writes[f] # <<>> /\ Head(writes[f]).phase = "applied"

\* GitHub carries out markFileAsViewed or unmarkFileAsViewed.
WriteApplies(f) ==
  /\ Sent(f)
  /\ remote' = [remote EXCEPT ![f] = Head(writes[f]).value]
  /\ writes' = [writes EXCEPT ![f][1].phase = "applied"]
  /\ UNCHANGED <<head, published, draftVars, snapshot, ui, confirmed, unsure, jobs, calls, inputs>>

\* set_file_viewed returns: the session updates its snapshot.
WriteSucceeds(f) ==
  /\ Applied(f)
  /\ snapshot' = [snapshot EXCEPT !.viewed[f] = Head(writes[f]).value]
  /\ confirmed' = [confirmed EXCEPT ![f] = Head(writes[f]).value]
  /\ unsure' = unsure \ {f}
  /\ writes' = [writes EXCEPT ![f] = Tail(@)]
  /\ UNCHANGED <<github, draftVars, ui, jobs, calls, inputs>>

\* The call fails, before GitHub took it or with its answer lost; only the
\* last write of the file puts the screen back.
WriteFails(f) ==
  /\ writes[f] # <<>>
  /\ ui' = IF Len(writes[f]) > 1 THEN ui
           ELSE [applyViewed(ui, f, confirmed[f]) EXCEPT !.notice = None, !.error = TRUE]
  /\ unsure' = IF Applied(f) THEN unsure \cup {f} ELSE unsure
  /\ writes' = [writes EXCEPT ![f] = Tail(@)]
  /\ UNCHANGED <<github, draftVars, snapshot, confirmed, jobs, calls, inputs>>

-----------------------------------------------------------------------------
(* Drafts *)

\* ReviewScreen shows the diff; the draft editor is modal.
Showing == ui.pull # None /\ ui.screen # None /\ ui.editor = None
Editing == ui.pull # None /\ ui.screen # None /\ ui.editor # None

\* toDraftReview: the drafts go under the revision of the pull request shown.
DraftReview(state) == [rev |-> state.pull.rev, drafts |-> state.drafts, body |-> state.body]

persistDrafts(state) == store' = DraftReview(state)

openComment(line, side) ==
  /\ Showing
  /\ Input
  /\ ui' = [ui EXCEPT !.editor = [line |-> line, side |-> side, replaces |-> None]]
  /\ UNCHANGED <<github, draftVars, snapshot, viewedVars, jobs, calls>>

editDraft(d) ==
  /\ Showing /\ d.file = ui.screen.file
  /\ Input
  /\ ui' = [ui EXCEPT !.editor = [line |-> d.line, side |-> d.side, replaces |-> DraftId(d)]]
  /\ UNCHANGED <<github, draftVars, snapshot, viewedVars, jobs, calls>>

cancelEditor ==
  /\ Editing
  /\ Input
  /\ ui' = [ui EXCEPT !.editor = None]
  /\ UNCHANGED <<github, draftVars, snapshot, viewedVars, jobs, calls>>

saveDraft(body) ==
  /\ Editing /\ saving = None
  /\ WaitsForPublication
  /\ Input
  /\ saving' = [line |-> ui.editor.line, side |-> ui.editor.side, file |-> ui.screen.file,
                rev |-> ui.pull.rev, body |-> body, replaces |-> ui.editor.replaces]
  /\ UNCHANGED <<github, draftVars, snapshot, ui, viewedVars, jobs, expanding, publishJob>>

Saved == [file |-> saving.file, line |-> saving.line, side |-> saving.side,
          body |-> saving.body, rev |-> saving.rev]

\* create_draft accepts the comment: it takes the place of the draft that was
\* edited and of any draft with its id.
SaveSucceeds ==
  /\ saving # None /\ saving.body # Blank
  /\ LET replacedIds == {saving.replaces, DraftId(Saved)}
         drafts == {d \in ui.drafts : DraftId(d) \notin replacedIds} \cup {Saved}
         state == [ui EXCEPT !.drafts = drafts, !.editor = None, !.error = FALSE]
     IN /\ ui' = state
        /\ persistDrafts(state)
        /\ kept' = (kept \ {saving.replaces}) \cup {DraftId(Saved)}
  /\ saving' = None
  /\ UNCHANGED <<github, snapshot, viewedVars, jobs, expanding, publishJob, inputs>>

\* create_draft refuses a blank body.
SaveFails ==
  /\ saving # None /\ saving.body = Blank
  /\ ui' = [ui EXCEPT !.error = TRUE]
  /\ saving' = None
  /\ UNCHANGED <<github, draftVars, snapshot, viewedVars, jobs, expanding, publishJob, inputs>>

\* Mutant: the store keeps what it has.
StoreUntouched(state) == store

StoreAfterDelete(state) ==
  IF state.drafts = {} /\ ~state.body THEN None ELSE DraftReview(state)

deleteDraft(d) ==
  /\ Showing
  /\ WaitsForPublication /\ WaitsForSave
  /\ Input
  /\ LET remaining == ui.drafts \ {d}
         state == [ui EXCEPT !.drafts = remaining, !.attention = @ /\ remaining # {}]
     IN /\ ui' = state
        /\ store' = StoreAfterDelete(state)
  /\ kept' = kept \ {DraftId(d)}
  /\ UNCHANGED <<github, snapshot, viewedVars, jobs, calls>>

setOverallBody(written) ==
  /\ Showing /\ ui.body # written
  /\ WaitsForPublication
  /\ Input
  /\ ui' = [ui EXCEPT !.body = written]
  /\ persistDrafts([ui EXCEPT !.body = written])
  /\ UNCHANGED <<github, kept, snapshot, viewedVars, jobs, calls>>

\* The Refresh button of the attention sheet works once no draft is left.
refreshAfterAttention ==
  /\ Showing /\ ui.attention /\ ui.drafts = {}
  /\ WaitsForExpansion /\ WaitsForSave /\ WaitsForPublication
  /\ Input
  /\ store' = None
  /\ open
  /\ UNCHANGED <<github, kept, snapshot, viewedVars, calls>>

-----------------------------------------------------------------------------
(* Publication *)

MayPublish ==
  /\ Showing /\ ~ui.publishing /\ ~ui.attention
  /\ ui.drafts # {} \/ ui.body
  /\ WaitsForSave

\* The verdict does not fit: own pull request, or no overall comment.
PublishRefused ==
  /\ MayPublish
  /\ Input
  /\ ui' = [ui EXCEPT !.error = TRUE]
  /\ UNCHANGED <<github, draftVars, snapshot, viewedVars, jobs, calls>>

publish ==
  /\ MayPublish
  /\ Input
  /\ ui' = [ui EXCEPT !.publishing = TRUE]
  /\ publishJob' = [rev |-> ui.pull.rev, drafts |-> ui.drafts, phase |-> "check"]
  /\ UNCHANGED <<github, draftVars, snapshot, viewedVars, jobs, expanding, saving>>

PublishFailed(stale) ==
  /\ ui' = [ui EXCEPT !.publishing = FALSE, !.attention = stale, !.error = TRUE]
  /\ publishJob' = None

\* publish_review and submit_review: the snapshot and the head still match.
PublishChecks ==
  /\ publishJob # None /\ publishJob.phase = "check"
  /\ IF snapshot.rev = publishJob.rev /\ head = publishJob.rev
     THEN publishJob' = [publishJob EXCEPT !.phase = "post"] /\ UNCHANGED ui
     ELSE PublishFailed(TRUE)
  /\ UNCHANGED <<github, draftVars, snapshot, viewedVars, jobs, expanding, saving, inputs>>

\* GitHub accepts the review.
PublishPosts ==
  /\ publishJob # None /\ publishJob.phase = "post"
  /\ published' = published \cup {[draft |-> d, commit |-> publishJob.rev] : d \in publishJob.drafts}
  /\ publishJob' = [publishJob EXCEPT !.phase = "accepted"]
  /\ UNCHANGED <<head, remote, draftVars, snapshot, ui, viewedVars, jobs, expanding, saving, inputs>>

PublishSucceeds ==
  /\ publishJob # None /\ publishJob.phase = "accepted"
  /\ store' = None
  /\ ui' = [ui EXCEPT !.publishing = FALSE, !.drafts = {}, !.body = FALSE, !.error = FALSE]
  /\ publishJob' = None
  /\ UNCHANGED <<github, kept, snapshot, viewedVars, jobs, expanding, saving, inputs>>

\* A request fails, or the answer to the accepted review is lost.
PublishFails ==
  /\ publishJob # None
  /\ PublishFailed(FALSE)
  /\ UNCHANGED <<github, draftVars, snapshot, viewedVars, jobs, expanding, saving, inputs>>

-----------------------------------------------------------------------------
(* The world around *)

\* The author pushes a commit.
Push ==
  /\ head < MaxHead
  /\ Input
  /\ head' = head + 1
  /\ UNCHANGED <<remote, published, draftVars, snapshot, ui, viewedVars, jobs, calls>>

\* Android kills the process; the user opens the pull request again.
Restart ==
  /\ Input
  /\ snapshot' = None
  /\ ui' = FreshUi
  /\ confirmed' = [f \in Files |-> FALSE] /\ writes' = NoWrites /\ unsure' = {}
  /\ openJob' = Calling /\ staleOpens' = {}
  /\ pageJob' = None /\ stalePages' = {}
  /\ expanding' = None /\ saving' = None /\ publishJob' = None
  /\ UNCHANGED <<github, draftVars>>

Loading ==
  \/ Retry \/ OpenCalls \/ OpenReads \/ StaleOpenReads \/ OpenSucceeds \/ OpenFails
  \/ \E job \in staleOpens : StaleOpenEnds(job)
  \/ \E f \in Files : selectFile(f)
  \/ FileLoads \/ loadMoreRows \/ MoreRowsLoad \/ PageFails
  \/ \E kind \in stalePages : StalePageEnds(kind)
  \/ expand \/ ExpandEnds

Viewing ==
  \/ setViewed \/ lastRowVisible \/ undoViewed \/ dismissNotice
  \/ \E f \in Files : WriteApplies(f) \/ WriteSucceeds(f) \/ WriteFails(f)

Drafting ==
  \/ \E line \in Lines, side \in Sides : openComment(line, side)
  \/ \E d \in ui.drafts : editDraft(d) \/ deleteDraft(d)
  \/ cancelEditor
  \/ \E body \in Bodies \cup {Blank} : saveDraft(body)
  \/ SaveSucceeds \/ SaveFails
  \/ \E written \in BOOLEAN : setOverallBody(written)
  \/ refreshAfterAttention

Publishing ==
  \/ PublishRefused \/ publish \/ PublishChecks \/ PublishPosts \/ PublishSucceeds
  \/ PublishFails

Next == Loading \/ Viewing \/ Drafting \/ Publishing \/ Push \/ Restart

Spec == Init /\ [][Next]_vars

-----------------------------------------------------------------------------
(* Properties *)

\* Every part of the state stays within its type.
TypeOK ==
  /\ head \in Revisions /\ remote \in [Files -> BOOLEAN]
  /\ published \subseteq [draft : Drafts, commit : Revisions]
  /\ store \in Stored \cup {None} /\ kept \subseteq DraftIds
  /\ snapshot \in Snapshots \cup {None}
  /\ ui \in UiStates
  /\ confirmed \in [Files -> BOOLEAN] /\ writes \in [Files -> Seq(Writes)] /\ unsure \subseteq Files
  /\ openJob \in OpenJobs \cup {None} /\ staleOpens \subseteq OpenJobs
  /\ pageJob \in PageJobs \cup {None} /\ stalePages \subseteq {"load", "more"}
  /\ expanding \in Files \cup {None} /\ saving \in Savings \cup {None}
  /\ publishJob \in PublishJobs \cup {None}
  /\ inputs \in 0 .. MaxInputs

\* The drafts on screen are the drafts on disk: a process killed at any point,
\* with any calls under way, loses none that was saved.
DraftsArePersisted ==
  ui.pull # None => ui.drafts = IF store = None THEN {} ELSE store.drafts

\* A draft the user saved and did not delete is on disk or in a review that
\* GitHub accepted, through reloads, failed and unanswered publications and
\* restarts.
DraftsKept ==
  \A id \in kept :
    \/ store # None /\ \E d \in store.drafts : DraftId(d) = id
    \/ \E p \in published : DraftId(p.draft) = id

\* With no write and no reload under way the file list shows the marks GitHub
\* has, whatever writes failed and in whichever order they were made; except
\* for a file whose last answer was lost.
ViewedSettles ==
  ui.pull # None /\ openJob = None =>
    \A f \in Files \ unsure : writes[f] = <<>> => ui.pull.viewed[f] = remote[f]

\* docs/android.md: "If the PR head changes, publication is blocked and drafts
\* remain encrypted until you explicitly repair or delete them": a comment is
\* published on the revision it was written for.
PublishedAtItsRevision == \A p \in published : p.draft.rev = p.commit
=============================================================================
