------------------------- MODULE ReviewViewModelProofs -------------------------
(***************************************************************************)
(* Proofs about the review screen of the Android client.  What the types   *)
(* and the drafts on disk need holds for any user; that a draft is kept    *)
(* and that the Viewed marks settle needs a user who lets a reload, a save *)
(* or a publication end before touching what it will replace (Impatient).  *)
(***************************************************************************)
EXTENDS ReviewViewModel, SequenceTheorems, TLAPS

\* A pull request is on screen, and the session holds its snapshot.
Loaded == ui.pull \in Snapshots /\ snapshot \in Snapshots

\* Everything that reads the pull request comes after it was loaded.
LoadedFirst ==
  /\ ui.pull # None => Loaded
  /\ ui.screen # None => Loaded
  /\ pageJob # None => Loaded
  /\ expanding # None => Loaded
  /\ saving # None => Loaded
  /\ publishJob # None => Loaded
  /\ \A f \in Files : writes[f] # <<>> => Loaded

StoredDrafts == IF store = None THEN {} ELSE store.drafts

\* A draft has reached GitHub.
IsPublished(id) == \E p \in published : DraftId(p.draft) = id

\* While a publication runs, nothing changes the drafts it took: no save is
\* under way, and once GitHub accepted it all of them are published.
PublicationExact ==
  publishJob # None =>
    /\ saving = None
    /\ publishJob.drafts = ui.drafts
    /\ publishJob.phase = "accepted" => \A d \in ui.drafts : IsPublished(DraftId(d))

\* A reload past the wait for the writes runs alone: it reads the marks GitHub
\* has, and nothing changes them before it ends.
ReloadAlone ==
  openJob # None /\ openJob.phase # "await" =>
    /\ \A f \in Files : writes[f] = <<>>
    /\ openJob.phase = "read" => openJob.read.viewed = remote

\* One file: u the mark on screen, w the writes under way, c the mark taken as
\* confirmed, r the mark GitHub has, S the files in doubt.  The screen shows
\* what the last write asks for, or what was confirmed; only the first write
\* may have reached GitHub, and until it has, what was confirmed is right.
MarksOf(u, w, c, r, f, S) ==
  /\ w # <<>> => w[Len(w)].value = u
  /\ \A i \in 2 .. Len(w) : w[i].phase = "sent"
  /\ f \notin S /\ ~(w # <<>> /\ Head(w).phase = "applied") => c = r
  /\ w # <<>> /\ Head(w).phase = "applied" => Head(w).value = r
  /\ f \notin S /\ w = <<>> => u = c

\* Screen, writes, confirmed and remote marks of every file agree.
MarksTie ==
  ui.pull # None =>
    \A f \in Files : MarksOf(ui.pull.viewed[f], writes[f], confirmed[f], remote[f], f, unsure)

ViewTypes == TypeOK /\ LoadedFirst
DraftInv == DraftsArePersisted /\ PublicationExact /\ DraftsKept
MarkInv == ReloadAlone /\ MarksTie

-----------------------------------------------------------------------------
(* What the handlers do to ReviewUiState *)

\* An update of the screen that leaves the pull request and the drafts alone.
Quiet(u, v) == v \in UiStates /\ v.pull = u.pull /\ v.drafts = u.drafts

\* open() clears the screen and the editor.
LEMMA OpenQuiet ==
  ASSUME NEW u \in UiStates, NEW v,
         v = [u EXCEPT !.loading = TRUE, !.screen = None, !.error = FALSE, !.editor = None]
  PROVE  Quiet(u, v) /\ v.screen = None
BY DEF Quiet, UiStates

\* A failed load shows an error and ends the loading.
LEMMA FailedQuiet ==
  ASSUME NEW u \in UiStates, NEW v, v = [u EXCEPT !.loading = FALSE, !.error = TRUE]
  PROVE  Quiet(u, v) /\ v.screen = u.screen
BY DEF Quiet, UiStates

\* A mere flag or mode of the screen.
LEMMA FlagsQuiet ==
  ASSUME NEW u \in UiStates, NEW v,
         \/ v = [u EXCEPT !.error = TRUE]
         \/ v = [u EXCEPT !.notice = None]
         \/ v = [u EXCEPT !.editor = None]
         \/ v = [u EXCEPT !.publishing = TRUE]
         \/ \E b \in BOOLEAN : v = [u EXCEPT !.body = b]
         \/ \E e \in Editors : v = [u EXCEPT !.editor = e]
         \/ \E b \in BOOLEAN : v = [u EXCEPT !.publishing = FALSE, !.attention = b, !.error = TRUE]
  PROVE  Quiet(u, v) /\ v.screen = u.screen
BY DEF Quiet, UiStates

\* selectFile starts the load of another file.
LEMMA SelectQuiet ==
  ASSUME NEW u \in UiStates, NEW f \in Files, NEW w, NEW v,
         w = [u EXCEPT !.selected = f, !.editor = None],
         v = [w EXCEPT !.loading = TRUE, !.screen = None, !.error = FALSE]
  PROVE  Quiet(u, v) /\ v.screen = None
BY DEF Quiet, UiStates

\* A page of a file is shown.
LEMMA ScreenQuiet ==
  ASSUME NEW u \in UiStates, NEW s \in Screens, NEW v,
         \/ v = [u EXCEPT !.loading = FALSE, !.screen = s]
         \/ v = [u EXCEPT !.screen = s, !.error = FALSE]
  PROVE  Quiet(u, v)
BY DEF Quiet, UiStates

\* More rows of the file on screen.
LEMMA MoreQuiet ==
  ASSUME NEW u \in UiStates, u.screen # None, NEW v, v = [u EXCEPT !.screen.more = FALSE]
  PROVE  Quiet(u, v)
<1>1. PICK s \in Screens : s = u.screen
  BY DEF UiStates
<1>2. [s EXCEPT !.more = FALSE] \in Screens
  BY DEF Screens
<1>3. v = [u EXCEPT !.screen = [s EXCEPT !.more = FALSE]]
  BY <1>1 DEF UiStates
<1> QED
  BY <1>2, <1>3 DEF Quiet, UiStates

\* A Viewed mark changes that mark of the pull request, and of the screen.
Marked(u, v, f, m) ==
  /\ v \in UiStates /\ v.pull \in Snapshots
  /\ v.pull.viewed = [u.pull.viewed EXCEPT ![f] = m]
  /\ v.drafts = u.drafts
  /\ v.pull.rev = u.pull.rev

\* applyViewed marks the one file and nothing else.
LEMMA ViewedMarks ==
  ASSUME NEW u \in UiStates, u.pull \in Snapshots, NEW f \in Files, NEW m \in BOOLEAN
  PROVE  Marked(u, applyViewed(u, f, m), f, m)
<1>1. CASE u.pull.viewed[f] = m
  <2>1. applyViewed(u, f, m) = u
    BY <1>1 DEF applyViewed
  <2>2. u.pull.viewed = [u.pull.viewed EXCEPT ![f] = m]
    BY <1>1 DEF Snapshots
  <2> QED
    BY <2>1, <2>2 DEF Marked
<1>2. CASE u.pull.viewed[f] # m
  <2> DEFINE scr == IF u.screen # None /\ u.selected = f
                    THEN [u.screen EXCEPT !.viewed = m] ELSE u.screen
             p == [u.pull EXCEPT !.viewed = [u.pull.viewed EXCEPT ![f] = m]]
  <2>1. scr \in Screens \cup {None}
    BY DEF UiStates, Screens
  <2>2. p \in Snapshots /\ p.viewed = [u.pull.viewed EXCEPT ![f] = m] /\ p.rev = u.pull.rev
    BY DEF Snapshots
  <2>3. applyViewed(u, f, m) = [u EXCEPT !.pull = p, !.screen = scr]
    BY <1>2 DEF applyViewed, UiStates, Snapshots
  <2> HIDE DEF p, scr
  <2> QED
    BY <2>1, <2>2, <2>3 DEF Marked, UiStates
<1> QED
  BY <1>1, <1>2

-----------------------------------------------------------------------------
(* Types, and what is loaded first *)

\* The types hold when the screen is opened,
LEMMA InitTypes == Init => ViewTypes
<1> SUFFICES ASSUME Init PROVE ViewTypes
  OBVIOUS
<1>1. InitialFile \in Files /\ 1 \in Revisions
  BY ReviewAssumption DEF InitialFile, Files, Revisions
<1>2. FreshUi \in UiStates /\ FreshUi.pull = None /\ FreshUi.screen = None
  BY <1>1 DEF FreshUi, UiStates
<1>3. NoWrites \in [Files -> Seq(Writes)] /\ \A f \in Files : NoWrites[f] = <<>>
  BY DEF NoWrites
<1>4. Calling \in OpenJobs
  BY DEF Calling, OpenJobs
<1>5. inputs \in 0 .. MaxInputs
  BY ReviewAssumption DEF Init
<1>6. TypeOK
  BY <1>1, <1>2, <1>3, <1>4, <1>5 DEF Init, TypeOK
<1>7. LoadedFirst
  BY <1>2, <1>3 DEF Init, LoadedFirst
<1> QED
  BY <1>6, <1>7 DEF ViewTypes

\* A bounded input leaves the count within its bound.
LEMMA InputTypes ==
  ASSUME inputs \in 0 .. MaxInputs, Input
  PROVE  inputs' \in 0 .. MaxInputs
BY ReviewAssumption DEF Input

\* open() leaves its job waiting for the writes, or calling.
LEMMA OpenTypes ==
  ASSUME ViewTypes, open
  PROVE  /\ Quiet(ui, ui') /\ ui'.screen = None
         /\ pageJob' = None /\ stalePages' \subseteq {"load", "more"}
         /\ openJob' \in OpenJobs /\ staleOpens' \subseteq OpenJobs
<1> USE DEF ViewTypes, TypeOK
<1>1. Quiet(ui, ui') /\ ui'.screen = None
  BY OpenQuiet DEF open
<1>2. pageJob' = None /\ openJob' \in OpenJobs
  BY DEF open, OpenJobs, Calling
<1>3. staleOpens' \subseteq OpenJobs
  BY DEF open, CancelOpen
<1>4. stalePages' \subseteq {"load", "more"}
  BY DEF open, CancelPage, PageJobs
<1> QED
  BY <1>1, <1>2, <1>3, <1>4

\* What the session has is kept in a step that touches neither the pull
\* request on screen nor the snapshot.
LEMMA LoadedKept ==
  ASSUME Loaded, Quiet(ui, ui'), snapshot' \in Snapshots
  PROVE  Loaded'
BY DEF Loaded, Quiet

\* A file is in the marks of every snapshot.
LEMMA FirstPageTypes ==
  ASSUME Loaded, NEW f \in Files
  PROVE  FirstPage(f) \in Screens
BY DEF Loaded, FirstPage, Screens, Snapshots

\* What GitHub has is a snapshot.
LEMMA ReadingTypes ==
  ASSUME ViewTypes
  PROVE  Reading \in OpenJobs /\ Calling \in OpenJobs
BY DEF ViewTypes, TypeOK, Reading, Calling, OpenJobs, Snapshots

\* and are kept by the steps of a reload before its answer is shown.
LEMMA ReloadTypes ==
  ASSUME ViewTypes,
         Retry \/ OpenCalls \/ OpenReads \/ StaleOpenReads \/ OpenFails \/ refreshAfterAttention
  PROVE  ViewTypes'
<1> USE DEF ViewTypes
<1>1. CASE Retry
  <2>1. Input /\ open
    BY <1>1 DEF Retry
  <2>2. TypeOK'
    BY <1>1, <2>1, OpenTypes, InputTypes DEF Retry, TypeOK, Quiet, github, draftVars, viewedVars, calls
  <2>3. LoadedFirst'
    BY <1>1, <2>1, OpenTypes DEF Retry, LoadedFirst, Loaded, Quiet, github, draftVars, viewedVars, calls
  <2> QED
    BY <2>2, <2>3
<1>2. CASE refreshAfterAttention
  <2>1. Input /\ open
    BY <1>2 DEF refreshAfterAttention
  <2>2. TypeOK'
    BY <1>2, <2>1, OpenTypes, InputTypes DEF refreshAfterAttention, TypeOK, Quiet, github, draftVars, viewedVars, calls
  <2>3. LoadedFirst'
    BY <1>2, <2>1, OpenTypes DEF refreshAfterAttention, LoadedFirst, Loaded, Quiet, github, draftVars, viewedVars, calls
  <2> QED
    BY <2>2, <2>3
<1>3. CASE OpenCalls \/ OpenReads \/ StaleOpenReads
  <2>1. openJob' \in OpenJobs \cup {None} /\ staleOpens' \subseteq OpenJobs
    BY <1>3, ReadingTypes DEF OpenCalls, OpenReads, StaleOpenReads, TypeOK
  <2>2. TypeOK'
    BY <1>3, <2>1 DEF OpenCalls, OpenReads, StaleOpenReads, TypeOK, github, draftVars, viewedVars, calls
  <2>3. LoadedFirst'
    BY <1>3 DEF OpenCalls, OpenReads, StaleOpenReads, LoadedFirst, Loaded, github, draftVars, viewedVars, calls
  <2> QED
    BY <2>2, <2>3
<1>4. CASE OpenFails
  <2>1. Quiet(ui, ui') /\ ui'.screen = ui.screen
    BY <1>4, FailedQuiet DEF OpenFails, LoadFailed, TypeOK
  <2>2. TypeOK'
    BY <1>4, <2>1 DEF OpenFails, TypeOK, Quiet, github, draftVars, viewedVars, calls
  <2>3. LoadedFirst'
    BY <1>4, <2>1 DEF OpenFails, LoadedFirst, Loaded, Quiet, github, draftVars, viewedVars, calls
  <2> QED
    BY <2>2, <2>3
<1> QED
  BY <1>1, <1>2, <1>3, <1>4

\* What OpenSucceeds shows: the pull request it read, and the drafts on disk.
OpenShown ==
  /\ ui' \in UiStates /\ ui'.pull = openJob.read /\ ui'.drafts = StoredDrafts /\ ui'.screen = None
  /\ openJob.read \in Snapshots
  /\ pageJob' \in PageJobs /\ stalePages' \subseteq {"load", "more"}

\* What a finished load leaves on the screen.
LEMMA OpenSucceedsShows ==
  ASSUME ViewTypes, OpenSucceeds
  PROVE  OpenShown
<1> DEFINE pull == openJob.read
           b == store # None /\ store.body
           a == store # None /\ store.rev # pull.rev
           w == [ui EXCEPT !.pull = pull, !.selected = InitialFile,
                           !.drafts = RestoredDrafts(pull), !.body = b, !.attention = a]
<1>1. pull \in Snapshots
  BY DEF OpenSucceeds, ViewTypes, TypeOK, OpenJobs
<1>2. RestoredDrafts(pull) = StoredDrafts /\ StoredDrafts \in SUBSET Drafts
  BY DEF RestoredDrafts, StoredDrafts, ViewTypes, TypeOK, Stored
<1>3. a \in BOOLEAN
  OBVIOUS
<1>4. b \in BOOLEAN
  OBVIOUS
<1>5. loadFile(w, InitialFile)
  BY DEF OpenSucceeds
<1>6. ui' = [w EXCEPT !.loading = TRUE, !.screen = None, !.error = FALSE]
  BY <1>5 DEF loadFile
<1>7. ui \in UiStates
  BY DEF ViewTypes, TypeOK
<1>8. pageJob' \in PageJobs
  <2>1. InitialFile \in Files
    BY ReviewAssumption DEF InitialFile, Files
  <2> QED
    BY <1>5, <2>1 DEF loadFile, NewPage, PageJobs
<1>9. stalePages' \subseteq {"load", "more"}
  BY <1>5 DEF loadFile, CancelPage, ViewTypes, TypeOK, PageJobs
<1>10. w = [ui EXCEPT !.pull = pull, !.selected = InitialFile, !.drafts = StoredDrafts,
                      !.body = b, !.attention = a]
  BY <1>2
<1>11. pull = openJob.read
  OBVIOUS
<1> HIDE DEF b, a, w, pull
<1>12. ui' \in UiStates /\ ui'.pull = pull /\ ui'.drafts = StoredDrafts /\ ui'.screen = None
  <2> DEFINE v == ui'  u == ui  ds == StoredDrafts
  <2>1. u \in UiStates /\ ds \in SUBSET Drafts
    BY <1>2, <1>7
  <2>2. w = [u EXCEPT !.pull = pull, !.selected = InitialFile, !.drafts = ds,
                       !.body = b, !.attention = a]
    BY <1>10
  <2>3. v = [w EXCEPT !.loading = TRUE, !.screen = None, !.error = FALSE]
    BY <1>6
  <2> HIDE DEF v, u, ds
  <2>4. v \in UiStates /\ v.pull = pull /\ v.drafts = ds /\ v.screen = None
    <3>1. InitialFile \in Files
      BY ReviewAssumption DEF InitialFile, Files
    <3>2. w \in UiStates /\ w.pull = pull /\ w.drafts = ds
      BY <1>1, <1>3, <1>4, <2>1, <2>2, <3>1 DEF UiStates
    <3> QED
      BY <2>3, <3>2 DEF UiStates
  <2> QED
    BY <2>4 DEF v, ds
<1> QED
  BY <1>1, <1>8, <1>9, <1>11, <1>12 DEF OpenShown

\* A finished load keeps the types,
LEMMA OpenSucceedsTypes ==
  ASSUME ViewTypes, OpenSucceeds
  PROVE  ViewTypes'
<1>1. OpenShown
  BY OpenSucceedsShows
<1>2. /\ snapshot' = openJob.read /\ confirmed' = openJob.read.viewed
      /\ unsure' = {} /\ openJob' = None
      /\ UNCHANGED <<head, remote, published, store, kept, writes, staleOpens, expanding, saving, publishJob, inputs>>
  BY DEF OpenSucceeds, github, draftVars, calls
<1>3. openJob.read.viewed \in [Files -> BOOLEAN]
  BY <1>1 DEF OpenShown, Snapshots
<1>4. TypeOK'
  BY <1>1, <1>2, <1>3 DEF OpenShown, ViewTypes, TypeOK
<1>5. Loaded'
  BY <1>1, <1>2 DEF Loaded, OpenShown
<1> QED
  BY <1>4, <1>5 DEF ViewTypes, LoadedFirst, Loaded

\* so do stale loads and pages of rows,
LEMMA PageTypes ==
  ASSUME ViewTypes,
         \/ \E job \in staleOpens : StaleOpenEnds(job)
         \/ FileLoads \/ loadMoreRows \/ MoreRowsLoad \/ PageFails
         \/ \E kind \in stalePages : StalePageEnds(kind)
  PROVE  ViewTypes'
<1> USE DEF ViewTypes
<1>0. ui \in UiStates
  BY DEF TypeOK
<1>1. CASE \E job \in staleOpens : StaleOpenEnds(job)
  <2>1. PICK job \in staleOpens : StaleOpenEnds(job)
    BY <1>1
  <2>2. Quiet(ui, ui') /\ ui'.screen = ui.screen
    BY <1>0, <2>1, FailedQuiet DEF StaleOpenEnds, LoadFailed
  <2>3. snapshot' = snapshot \/ snapshot' \in Snapshots
    BY <2>1 DEF StaleOpenEnds, TypeOK, OpenJobs
  <2>4. TypeOK'
    BY <2>1, <2>2, <2>3 DEF StaleOpenEnds, TypeOK, Quiet, github, draftVars, viewedVars, calls
  <2>5. LoadedFirst'
    BY <2>1, <2>2, <2>3 DEF StaleOpenEnds, LoadedFirst, Loaded, Quiet, github, draftVars, viewedVars, calls
  <2> QED
    BY <2>4, <2>5
<1>2. CASE FileLoads
  <2>1. Loaded
    BY <1>2 DEF FileLoads, LoadedFirst
  <2>2. FirstPage(pageJob.file) \in Screens
    BY <1>2, <2>1, FirstPageTypes DEF FileLoads, TypeOK, PageJobs
  <2>3. Quiet(ui, ui')
    BY <1>0, <1>2, <2>2, ScreenQuiet DEF FileLoads
  <2>4. TypeOK'
    BY <1>2, <2>3 DEF FileLoads, TypeOK, Quiet, github, draftVars, viewedVars, calls
  <2>5. Loaded' /\ UNCHANGED <<expanding, saving, publishJob, writes>>
    BY <1>2, <2>1, <2>3 DEF FileLoads, Loaded, Quiet, calls, viewedVars
  <2> QED
    BY <2>4, <2>5 DEF LoadedFirst, Loaded
<1>3. CASE loadMoreRows
  <2>1. Loaded
    BY <1>3 DEF loadMoreRows, LoadedFirst
  <2>2. pageJob' \in PageJobs
    BY <1>0, <1>3 DEF loadMoreRows, PageJobs, UiStates
  <2>3. TypeOK'
    BY <1>3, <2>2, InputTypes DEF loadMoreRows, TypeOK, github, draftVars, viewedVars, calls
  <2>4. Loaded'
    BY <1>3, <2>1 DEF loadMoreRows, Loaded
  <2> QED
    BY <2>3, <2>4 DEF LoadedFirst, Loaded
<1>4. CASE MoreRowsLoad
  <2>1. Loaded
    BY <1>4 DEF MoreRowsLoad, LoadedFirst
  <2>2. Quiet(ui, ui')
    <3>1. CASE ui.screen = None
      BY <1>0, <1>4, <3>1 DEF MoreRowsLoad, Quiet
    <3>2. CASE ui.screen # None
      BY <1>0, <1>4, <3>2, MoreQuiet DEF MoreRowsLoad
    <3> QED
      BY <3>1, <3>2
  <2>3. TypeOK'
    BY <1>4, <2>2 DEF MoreRowsLoad, TypeOK, Quiet, github, draftVars, viewedVars, calls
  <2>4. Loaded'
    BY <1>4, <2>1, <2>2 DEF MoreRowsLoad, Loaded, Quiet
  <2> QED
    BY <2>3, <2>4 DEF LoadedFirst, Loaded
<1>5. CASE PageFails
  <2>1. Loaded
    BY <1>5 DEF PageFails, LoadedFirst
  <2>2. Quiet(ui, ui')
    BY <1>0, <1>5, FailedQuiet, FlagsQuiet DEF PageFails, PageFailed, LoadFailed
  <2>3. TypeOK'
    BY <1>5, <2>2 DEF PageFails, TypeOK, Quiet, github, draftVars, viewedVars, calls
  <2>4. Loaded'
    BY <1>5, <2>1, <2>2 DEF PageFails, Loaded, Quiet
  <2> QED
    BY <2>3, <2>4 DEF LoadedFirst, Loaded
<1>6. CASE \E kind \in stalePages : StalePageEnds(kind)
  <2>1. PICK kind \in stalePages : StalePageEnds(kind)
    BY <1>6
  <2>2. ui' = [ui EXCEPT !.loading = FALSE, !.error = TRUE] \/ ui' = [ui EXCEPT !.error = TRUE]
    BY <2>1 DEF StalePageEnds, PageFailed, LoadFailed
  <2>3. Quiet(ui, ui') /\ ui'.screen = ui.screen
    BY <1>0, <2>2, FailedQuiet, FlagsQuiet
  <2>4. TypeOK'
    BY <2>1, <2>3 DEF StalePageEnds, TypeOK, Quiet, github, draftVars, viewedVars, calls
  <2>5. LoadedFirst'
    BY <2>1, <2>3 DEF StalePageEnds, LoadedFirst, Loaded, Quiet, github, draftVars, viewedVars, calls
  <2> QED
    BY <2>4, <2>5
<1> QED
  BY <1>1, <1>2, <1>3, <1>4, <1>5, <1>6

\* and so do changing the file and expanding it.
LEMMA FileTypes ==
  ASSUME ViewTypes, (\E f \in Files : selectFile(f)) \/ expand \/ ExpandEnds
  PROVE  ViewTypes'
<1> USE DEF ViewTypes
<1>0. ui \in UiStates
  BY DEF TypeOK
<1>1. CASE \E f \in Files : selectFile(f)
  <2>1. PICK f \in Files : selectFile(f)
    BY <1>1
  <2>2. Loaded
    BY <2>1 DEF selectFile, LoadedFirst
  <2>3. loadFile([ui EXCEPT !.selected = f, !.editor = None], f)
    BY <2>1 DEF selectFile
  <2>4. Quiet(ui, ui') /\ ui'.screen = None
    BY <1>0, <2>3, SelectQuiet DEF loadFile
  <2>5. pageJob' \in PageJobs /\ stalePages' \subseteq {"load", "more"}
    BY <2>3 DEF loadFile, NewPage, PageJobs, CancelPage, TypeOK
  <2>6. TypeOK'
    BY <2>1, <2>4, <2>5, InputTypes DEF selectFile, TypeOK, Quiet, github, draftVars, viewedVars, calls
  <2>7. Loaded'
    BY <2>1, <2>2, <2>4 DEF selectFile, Loaded, Quiet
  <2> QED
    BY <2>6, <2>7 DEF LoadedFirst, Loaded
<1>2. CASE expand
  <2>1. Loaded
    BY <1>2 DEF expand, LoadedFirst
  <2>2. expanding' \in Files
    BY <1>0, <1>2 DEF expand, UiStates
  <2>3. TypeOK'
    BY <1>2, <2>2, InputTypes DEF expand, TypeOK, github, draftVars, viewedVars, jobs
  <2>4. Loaded'
    BY <1>2, <2>1 DEF expand, Loaded
  <2> QED
    BY <2>3, <2>4 DEF LoadedFirst, Loaded
<1>3. CASE ExpandEnds
  <2>1. Loaded
    BY <1>3 DEF ExpandEnds, LoadedFirst
  <2>2. FirstPage(expanding) \in Screens
    BY <1>3, <2>1, FirstPageTypes DEF ExpandEnds, TypeOK
  <2>3. Quiet(ui, ui')
    BY <1>0, <1>3, <2>2, ScreenQuiet, FlagsQuiet DEF ExpandEnds
  <2>4. TypeOK'
    BY <1>3, <2>3 DEF ExpandEnds, TypeOK, Quiet, github, draftVars, viewedVars, jobs
  <2>5. Loaded'
    BY <1>3, <2>1, <2>3 DEF ExpandEnds, Loaded, Quiet
  <2> QED
    BY <2>4, <2>5 DEF LoadedFirst, Loaded
<1> QED
  BY <1>1, <1>2, <1>3

-----------------------------------------------------------------------------
(* The chain of writes of a file *)

\* A chain grows at its end, and loses its first write.
Asked(q, m) == Append(q, [value |-> m, phase |-> "sent"])

\* A write is put at the end of the chain of its file,
LEMMA ChainGrows ==
  ASSUME NEW q \in Seq(Writes), NEW m \in BOOLEAN, NEW r, r = Asked(q, m)
  PROVE  /\ r \in Seq(Writes) /\ Len(r) = Len(q) + 1 /\ r # <<>>
         /\ r[Len(r)].value = m
         /\ r[Len(r)].phase = "sent"
         /\ \A i \in 1 .. Len(q) : r[i] = q[i]
         /\ Head(r) = r[1]
<1>1. [value |-> m, phase |-> "sent"] \in Writes
  BY DEF Writes
<1> QED
  BY <1>1 DEF Asked

\* a finished one leaves at its head,
LEMMA ChainShrinks ==
  ASSUME NEW q \in Seq(Writes), q # <<>>, NEW r, r = Tail(q)
  PROVE  /\ r \in Seq(Writes) /\ Len(r) = Len(q) - 1
         /\ \A i \in 1 .. Len(r) : r[i] = q[i + 1]
         /\ (r = <<>>) <=> (Len(q) = 1)
         /\ q[1] = Head(q) /\ Head(q) \in Writes
         /\ r # <<>> => Head(r) = q[2]
         /\ r # <<>> => r[Len(r)] = q[Len(q)]
<1>1. Len(q) \in Nat \ {0} /\ q[1] = Head(q) /\ Head(q) \in Writes
  BY EmptySeq
<1>2. r \in Seq(Writes) /\ Len(r) = Len(q) - 1 /\ \A i \in 1 .. Len(r) : r[i] = q[i + 1]
  BY <1>1
<1>3. (r = <<>>) <=> (Len(r) = 0)
  BY <1>2, EmptySeq
<1>4. r # <<>> => Head(r) = r[1] /\ Len(r) \in Nat \ {0}
  BY <1>2, <1>3
<1>5. r # <<>> => r[1] = q[2] /\ r[Len(r)] = q[Len(q)]
  BY <1>1, <1>2, <1>4
<1> QED
  BY <1>1, <1>2, <1>3, <1>4, <1>5

\* GitHub has carried out the first write of a chain.
Carried(q) == [q EXCEPT ![1].phase = "applied"]

\* and the one the server has applied is the head.
LEMMA ChainApplies ==
  ASSUME NEW q \in Seq(Writes), q # <<>>, NEW r, r = Carried(q)
  PROVE  /\ r \in Seq(Writes) /\ Len(r) = Len(q) /\ r # <<>>
         /\ Head(r).phase = "applied" /\ Head(r).value = Head(q).value
         /\ \A i \in 1 .. Len(q) : r[i].value = q[i].value
         /\ \A i \in 2 .. Len(q) : r[i] = q[i]
         /\ Head(q).value \in BOOLEAN
<1>1. q[1] \in Writes /\ 1 \in 1 .. Len(q) /\ Head(q) = q[1]
  BY EmptySeq
<1> DEFINE w == [q[1] EXCEPT !.phase = "applied"]
<1>2. w \in Writes /\ w.phase = "applied" /\ w.value = q[1].value /\ q[1].value \in BOOLEAN
  BY <1>1 DEF Writes
<1>3. r = [q EXCEPT ![1] = w]
  BY DEF Carried
<1> HIDE DEF w
<1>4. r \in Seq(Writes) /\ Len(r) = Len(q) /\ r[1] = w /\ \A i \in 2 .. Len(q) : r[i] = q[i]
  BY <1>1, <1>2, <1>3
<1>5. r # <<>> /\ Head(r) = r[1]
  BY <1>1, <1>4
<1>6. \A i \in 1 .. Len(q) : r[i].value = q[i].value
  BY <1>1, <1>2, <1>4
<1> QED
  BY <1>1, <1>2, <1>4, <1>5, <1>6

-----------------------------------------------------------------------------
(* Types: Viewed marks *)

\* A step that asks for a mark: the screen shows it, and a write is chained.
MarkStep(f, m) ==
  /\ Loaded /\ Marked(ui, ui', f, m)
  /\ writes' = [writes EXCEPT ![f] = Asked(writes[f], m)]
  /\ WaitsForReload /\ Input
  /\ UNCHANGED <<head, remote, published, store, kept, snapshot, confirmed, unsure, openJob,
                 staleOpens, pageJob, stalePages, expanding, saving, publishJob>>

\* mutateViewed marks the file and chains one write.
LEMMA MutateMarks ==
  ASSUME ViewTypes, NEW state \in UiStates, NEW f \in Files, NEW m \in BOOLEAN,
         state.pull = ui.pull, state.drafts = ui.drafts, mutateViewed(state, f, m)
  PROVE  MarkStep(f, m)
<1>1. state.pull # None
  BY DEF mutateViewed
<1>2. Loaded
  BY <1>1 DEF ViewTypes, LoadedFirst
<1>3. Marked(state, ui', f, m)
  BY <1>2, ViewedMarks DEF mutateViewed, Loaded
<1>4. Marked(ui, ui', f, m)
  BY <1>3 DEF Marked
<1>5. writes' = [writes EXCEPT ![f] = Asked(writes[f], m)]
  BY DEF mutateViewed, Asked
<1> QED
  BY <1>2, <1>4, <1>5 DEF MarkStep, mutateViewed, github, draftVars, jobs, calls

\* The three ways to mark a file are one kind of step,
LEMMA MarkSteps ==
  ASSUME ViewTypes, setViewed \/ lastRowVisible \/ undoViewed
  PROVE  \E f \in Files : \E m \in BOOLEAN : MarkStep(f, m)
<1>0. ui \in UiStates /\ ui.selected \in Files /\ (ui.notice # None => ui.notice \in Files)
  BY DEF ViewTypes, TypeOK, UiStates
<1>1. CASE setViewed
  <2> DEFINE m == ~ui.screen.viewed
  <2>1. m \in BOOLEAN
    OBVIOUS
  <2>2. mutateViewed(ui, ui.selected, m)
    BY <1>1 DEF setViewed
  <2> HIDE DEF m
  <2>3. MarkStep(ui.selected, m)
    BY <1>0, <2>1, <2>2, MutateMarks
  <2> QED
    BY <1>0, <2>1, <2>3
<1>2. CASE lastRowVisible
  <2> DEFINE state == [ui EXCEPT !.notice = ui.selected]
  <2>1. state \in UiStates /\ state.pull = ui.pull /\ state.drafts = ui.drafts
    BY <1>0 DEF UiStates
  <2>2. mutateViewed(state, ui.selected, TRUE)
    BY <1>2 DEF lastRowVisible
  <2> HIDE DEF state
  <2>3. MarkStep(ui.selected, TRUE)
    BY <1>0, <2>1, <2>2, MutateMarks
  <2> QED
    BY <1>0, <2>3
<1>3. CASE undoViewed
  <2> DEFINE state == [ui EXCEPT !.notice = None]
  <2>1. state \in UiStates /\ state.pull = ui.pull /\ state.drafts = ui.drafts
    BY <1>0 DEF UiStates
  <2>2. mutateViewed(state, ui.notice, FALSE) /\ ui.notice \in Files
    BY <1>0, <1>3 DEF undoViewed
  <2> HIDE DEF state
  <2>3. MarkStep(ui.notice, FALSE)
    BY <1>0, <2>1, <2>2, MutateMarks
  <2> QED
    BY <2>2, <2>3
<1> QED
  BY <1>1, <1>2, <1>3

\* which keeps the types.
LEMMA MarkTypes ==
  ASSUME ViewTypes, NEW f \in Files, NEW m \in BOOLEAN, MarkStep(f, m)
  PROVE  ViewTypes'
<1>1. writes \in [Files -> Seq(Writes)] /\ writes[f] \in Seq(Writes)
  BY DEF ViewTypes, TypeOK
<1> DEFINE chain == Asked(writes[f], m)
<1>2. chain \in Seq(Writes)
  BY <1>1, ChainGrows
<1>3. writes' = [writes EXCEPT ![f] = chain]
  BY DEF MarkStep
<1> HIDE DEF chain
<1>4. writes' \in [Files -> Seq(Writes)]
  BY <1>1, <1>2, <1>3
<1>5. inputs' \in 0 .. MaxInputs
  BY InputTypes DEF MarkStep, ViewTypes, TypeOK
<1>6. TypeOK'
  BY <1>4, <1>5 DEF MarkStep, Marked, ViewTypes, TypeOK
<1>7. Loaded'
  BY DEF MarkStep, Marked, Loaded
<1> QED
  BY <1>6, <1>7 DEF ViewTypes, LoadedFirst, Loaded

\* What the end of a write, or GitHub, does to the chain of its file.
LEMMA WriteAppliesStep ==
  ASSUME ViewTypes, NEW f \in Files, WriteApplies(f)
  PROVE  /\ Loaded /\ Loaded' /\ writes' \in [Files -> Seq(Writes)]
         /\ writes[f] \in Seq(Writes) /\ writes[f] # <<>>
         /\ writes'[f] = Carried(writes[f])
         /\ \A g \in Files \ {f} : writes'[g] = writes[g]
         /\ remote' = [remote EXCEPT ![f] = Head(writes[f]).value]
         /\ Head(writes[f]).value \in BOOLEAN
<1>1. writes \in [Files -> Seq(Writes)] /\ writes[f] \in Seq(Writes) /\ writes[f] # <<>>
  BY DEF ViewTypes, TypeOK, WriteApplies, Sent
<1>2. writes' = [writes EXCEPT ![f] = Carried(writes[f])]
  BY DEF WriteApplies, Carried
<1> DEFINE chain == Carried(writes[f])
<1>3. chain \in Seq(Writes) /\ Head(writes[f]).value \in BOOLEAN
  BY <1>1, ChainApplies
<1>4. writes'[f] = chain /\ writes' \in [Files -> Seq(Writes)] /\ \A g \in Files \ {f} : writes'[g] = writes[g]
  <2> HIDE DEF chain
  <2>1. writes' = [writes EXCEPT ![f] = chain]
    BY <1>2 DEF chain
  <2> QED
    BY <1>1, <1>3, <2>1
<1>5. Loaded /\ Loaded'
  BY <1>1 DEF ViewTypes, LoadedFirst, Loaded, WriteApplies
<1> QED
  BY <1>1, <1>3, <1>4, <1>5 DEF WriteApplies

\* A write that ends, well or not, leaves the head of its chain.
LEMMA WriteEndsStep ==
  ASSUME ViewTypes, NEW f \in Files, WriteSucceeds(f) \/ WriteFails(f)
  PROVE  /\ Loaded /\ writes' \in [Files -> Seq(Writes)]
         /\ writes[f] \in Seq(Writes) /\ writes[f] # <<>>
         /\ writes'[f] = Tail(writes[f])
         /\ \A g \in Files \ {f} : writes'[g] = writes[g]
         /\ Head(writes[f]).value \in BOOLEAN
<1>1. writes \in [Files -> Seq(Writes)] /\ writes[f] \in Seq(Writes) /\ writes[f] # <<>>
  BY DEF ViewTypes, TypeOK, WriteSucceeds, WriteFails, Applied
<1>2. writes' = [writes EXCEPT ![f] = Tail(writes[f])]
  BY DEF WriteSucceeds, WriteFails
<1>3. Tail(writes[f]) \in Seq(Writes) /\ Head(writes[f]) \in Writes
  BY <1>1, ChainShrinks
<1>4. Head(writes[f]).value \in BOOLEAN
  BY <1>3 DEF Writes
<1>5. Loaded
  BY <1>1 DEF ViewTypes, LoadedFirst
<1> QED
  BY <1>1, <1>2, <1>3, <1>4, <1>5

\* A failed write puts the mark back only if no later one is under way.
LEMMA WriteFailsShows ==
  ASSUME ViewTypes, NEW f \in Files, WriteFails(f)
  PROVE  /\ Len(writes[f]) > 1 => ui' = ui
         /\ ~(Len(writes[f]) > 1) => Marked(ui, ui', f, confirmed[f])
<1>1. Loaded
  BY WriteEndsStep
<1>2. ui \in UiStates /\ ui.pull \in Snapshots /\ confirmed[f] \in BOOLEAN
  BY <1>1 DEF Loaded, ViewTypes, TypeOK
<1>3. Marked(ui, applyViewed(ui, f, confirmed[f]), f, confirmed[f])
  BY <1>2, ViewedMarks
<1> DEFINE w == applyViewed(ui, f, confirmed[f])
<1>4. ASSUME ~(Len(writes[f]) > 1) PROVE ui' = [w EXCEPT !.notice = None, !.error = TRUE]
  BY <1>4 DEF WriteFails
<1> HIDE DEF w
<1>5. Marked(ui, w, f, confirmed[f])
  BY <1>3 DEF w
<1>6. ASSUME NEW v, v = [w EXCEPT !.notice = None, !.error = TRUE]
      PROVE  Marked(ui, v, f, confirmed[f])
  <2>1. w \in UiStates
    BY <1>5 DEF Marked
  <2>2. v \in UiStates /\ v.pull = w.pull /\ v.drafts = w.drafts
    BY <1>6, <2>1 DEF UiStates
  <2> QED
    BY <1>5, <2>2 DEF Marked
<1>7. ~(Len(writes[f]) > 1) => Marked(ui, ui', f, confirmed[f])
  BY <1>4, <1>6
<1>8. Len(writes[f]) > 1 => ui' = ui
  BY DEF WriteFails
<1> QED
  BY <1>7, <1>8

\* The steps of a write keep the types.
LEMMA WriteTypes ==
  ASSUME ViewTypes, NEW f \in Files, WriteApplies(f) \/ WriteSucceeds(f) \/ WriteFails(f)
  PROVE  ViewTypes'
<1>1. CASE WriteApplies(f)
  <2>1. /\ Loaded' /\ writes' \in [Files -> Seq(Writes)]
        /\ remote' = [remote EXCEPT ![f] = Head(writes[f]).value]
        /\ Head(writes[f]).value \in BOOLEAN
    BY <1>1, WriteAppliesStep
  <2>2. remote' \in [Files -> BOOLEAN]
    BY <2>1 DEF ViewTypes, TypeOK
  <2>3. TypeOK'
    BY <1>1, <2>1, <2>2 DEF WriteApplies, ViewTypes, TypeOK, draftVars, jobs, calls
  <2> QED
    BY <2>1, <2>3 DEF ViewTypes, LoadedFirst, Loaded
<1>2. CASE WriteSucceeds(f)
  <2>1. /\ Loaded /\ writes' \in [Files -> Seq(Writes)]
        /\ Head(writes[f]).value \in BOOLEAN
    BY <1>2, WriteEndsStep
  <2> DEFINE m == Head(writes[f]).value
  <2>2. snapshot' = [snapshot EXCEPT !.viewed[f] = m] /\ confirmed' = [confirmed EXCEPT ![f] = m]
    BY <1>2 DEF WriteSucceeds
  <2>3. snapshot \in Snapshots /\ m \in BOOLEAN
    BY <2>1 DEF Loaded
  <2> HIDE DEF m
  <2>4. snapshot' \in Snapshots
    <3> DEFINE marks == [snapshot.viewed EXCEPT ![f] = m]
    <3>1. marks \in [Files -> BOOLEAN]
      BY <2>3 DEF Snapshots
    <3>2. snapshot' = [snapshot EXCEPT !.viewed = marks]
      BY <2>2
    <3> HIDE DEF marks
    <3> QED
      BY <2>3, <3>1, <3>2 DEF Snapshots
  <2>5. confirmed' \in [Files -> BOOLEAN]
    BY <2>2, <2>3 DEF ViewTypes, TypeOK
  <2>6. TypeOK'
    BY <1>2, <2>1, <2>4, <2>5 DEF WriteSucceeds, ViewTypes, TypeOK, github, draftVars, jobs, calls
  <2>7. Loaded'
    BY <1>2, <2>1, <2>4 DEF WriteSucceeds, Loaded
  <2> QED
    BY <2>6, <2>7 DEF ViewTypes, LoadedFirst, Loaded
<1>3. CASE WriteFails(f)
  <2>1. Loaded /\ writes' \in [Files -> Seq(Writes)]
    BY <1>3, WriteEndsStep
  <2>2. ui' \in UiStates /\ ui'.pull \in Snapshots
    BY <1>3, <2>1, WriteFailsShows DEF Marked, Loaded, ViewTypes, TypeOK
  <2>3. unsure' \subseteq Files
    BY <1>3 DEF WriteFails, ViewTypes, TypeOK
  <2>4. TypeOK'
    BY <1>3, <2>1, <2>2, <2>3 DEF WriteFails, ViewTypes, TypeOK, github, draftVars, jobs, calls
  <2>5. Loaded'
    BY <1>3, <2>1, <2>2 DEF WriteFails, Loaded
  <2> QED
    BY <2>4, <2>5 DEF ViewTypes, LoadedFirst, Loaded
<1> QED
  BY <1>1, <1>2, <1>3

-----------------------------------------------------------------------------
(* Types: drafts and publication *)

\* A handler that only turns a flag or a mode of the screen.
LEMMA QuietTypes ==
  ASSUME ViewTypes,
         \/ dismissNotice \/ cancelEditor \/ PublishRefused
         \/ \E line \in Lines : \E side \in Sides : openComment(line, side)
         \/ \E d \in ui.drafts : editDraft(d)
  PROVE  ViewTypes' /\ Quiet(ui, ui') /\ UNCHANGED <<github, draftVars, snapshot, viewedVars, jobs, calls>>
<1>0. ui \in UiStates /\ ui.drafts \subseteq Drafts
  BY DEF ViewTypes, TypeOK, UiStates
<1>1. ASSUME NEW d \in Drafts PROVE DraftId(d) \in DraftIds /\ d.line \in Lines /\ d.side \in Sides
  BY DEF Drafts, DraftId, DraftIds
<1>2. /\ Input
      /\ UNCHANGED <<github, draftVars, snapshot, viewedVars, jobs, calls>>
      /\ \/ ui' = [ui EXCEPT !.notice = None]
         \/ ui' = [ui EXCEPT !.editor = None]
         \/ ui' = [ui EXCEPT !.error = TRUE]
         \/ \E e \in Editors : ui' = [ui EXCEPT !.editor = e]
  <2>1. CASE dismissNotice
    BY <2>1 DEF dismissNotice
  <2>2. CASE cancelEditor
    BY <2>2 DEF cancelEditor
  <2>3. CASE PublishRefused
    BY <2>3 DEF PublishRefused
  <2>4. CASE \E line \in Lines : \E side \in Sides : openComment(line, side)
    <3>1. PICK line \in Lines, side \in Sides : openComment(line, side)
      BY <2>4
    <3>2. [line |-> line, side |-> side, replaces |-> None] \in Editors
      BY DEF Editors
    <3> QED
      BY <3>1, <3>2 DEF openComment
  <2>5. CASE \E d \in ui.drafts : editDraft(d)
    <3>1. PICK d \in ui.drafts : editDraft(d)
      BY <2>5
    <3>2. [line |-> d.line, side |-> d.side, replaces |-> DraftId(d)] \in Editors
      BY <1>0, <1>1 DEF Editors
    <3> QED
      BY <3>1, <3>2 DEF editDraft
  <2> QED
    BY <2>1, <2>2, <2>3, <2>4, <2>5
<1>3. Quiet(ui, ui') /\ ui'.screen = ui.screen
  BY <1>0, <1>2, FlagsQuiet
<1>4. TypeOK'
  BY <1>2, <1>3, InputTypes DEF ViewTypes, TypeOK, Quiet, github, draftVars, viewedVars, jobs, calls
<1>5. LoadedFirst'
  BY <1>2, <1>3 DEF ViewTypes, LoadedFirst, Loaded, Quiet, github, draftVars, viewedVars, jobs, calls
<1> QED
  BY <1>2, <1>3, <1>4, <1>5 DEF ViewTypes

\* Saving a draft keeps the types.
LEMMA SaveTypes ==
  ASSUME ViewTypes, NEW body \in Bodies \cup {Blank}, saveDraft(body)
  PROVE  ViewTypes'
<1>1. Loaded /\ ui.screen \in Screens /\ ui.editor \in Editors
  BY DEF saveDraft, Editing, ViewTypes, LoadedFirst, TypeOK, UiStates
<1>2. saving' \in Savings
  BY <1>1 DEF saveDraft, Loaded, Screens, Editors, Snapshots, Savings
<1>3. TypeOK'
  BY <1>2, InputTypes DEF saveDraft, ViewTypes, TypeOK, github, draftVars, viewedVars, jobs
<1>4. Loaded'
  BY <1>1 DEF saveDraft, Loaded
<1> QED
  BY <1>3, <1>4 DEF ViewTypes, LoadedFirst, Loaded

\* The drafts after a save.
SavedDrafts == {d \in ui.drafts : DraftId(d) \notin {saving.replaces, DraftId(Saved)}} \cup {Saved}

\* What a step that changes the drafts does: screen, store and history.
DraftStep(ds, st, ks) ==
  /\ ui' \in UiStates /\ ui'.pull = ui.pull /\ ui'.drafts = ds /\ ui'.screen = ui.screen
  /\ store' = st /\ kept' = ks
  /\ UNCHANGED <<head, remote, published, snapshot, confirmed, writes, unsure, openJob,
                 staleOpens, pageJob, stalePages, expanding>>

\* The saved draft is a draft, and so are all with it.
LEMMA SavedTypes ==
  ASSUME ViewTypes, SaveSucceeds
  PROVE  /\ Saved \in Drafts /\ DraftId(Saved) \in DraftIds
         /\ SavedDrafts \subseteq Drafts
         /\ \E b \in BOOLEAN :
              DraftStep(SavedDrafts, [rev |-> ui.pull.rev, drafts |-> SavedDrafts, body |-> b],
                        (kept \ {saving.replaces}) \cup {DraftId(Saved)})
         /\ saving' = None /\ Loaded /\ UNCHANGED <<publishJob, inputs>>
<1>1. saving \in Savings /\ saving.body \in Bodies
  BY DEF SaveSucceeds, ViewTypes, TypeOK, Savings
<1>2. Saved \in Drafts /\ DraftId(Saved) \in DraftIds
  BY <1>1 DEF Saved, Drafts, DraftId, DraftIds, Savings
<1>3. ui \in UiStates /\ ui.drafts \subseteq Drafts /\ ui.body \in BOOLEAN
  BY DEF ViewTypes, TypeOK, UiStates
<1>4. SavedDrafts \subseteq Drafts
  BY <1>2, <1>3 DEF SavedDrafts
<1>5. Loaded
  BY DEF SaveSucceeds, ViewTypes, LoadedFirst
<1> DEFINE state == [ui EXCEPT !.drafts = SavedDrafts, !.editor = None, !.error = FALSE]
<1>6. ui' = state /\ store' = DraftReview(state)
  BY DEF SaveSucceeds, persistDrafts, SavedDrafts
<1>7. state.pull = ui.pull /\ state.drafts = SavedDrafts /\ state.body = ui.body
      /\ state.screen = ui.screen /\ state \in UiStates
  BY <1>3, <1>4 DEF UiStates
<1>8. store' = [rev |-> ui.pull.rev, drafts |-> SavedDrafts, body |-> ui.body]
  BY <1>6, <1>7 DEF DraftReview
<1>9. kept' = (kept \ {saving.replaces}) \cup {DraftId(Saved)}
  BY DEF SaveSucceeds
<1> HIDE DEF state
<1>10. ui' \in UiStates /\ ui'.pull = ui.pull /\ ui'.drafts = SavedDrafts /\ ui'.screen = ui.screen
  BY <1>6, <1>7
<1>11. UNCHANGED <<head, remote, published, snapshot, confirmed, writes, unsure, openJob,
                   staleOpens, pageJob, stalePages, expanding>>
  BY DEF SaveSucceeds, github, viewedVars, jobs
<1>12. DraftStep(SavedDrafts, [rev |-> ui.pull.rev, drafts |-> SavedDrafts, body |-> ui.body],
                 (kept \ {saving.replaces}) \cup {DraftId(Saved)})
  BY <1>8, <1>9, <1>10, <1>11 DEF DraftStep
<1>13. saving' = None /\ UNCHANGED <<publishJob, inputs>>
  BY DEF SaveSucceeds
<1> QED
  BY <1>2, <1>3, <1>4, <1>5, <1>12, <1>13

\* Deleting a draft rewrites the store, or clears it with the last one.
LEMMA DeleteStep ==
  ASSUME ViewTypes, NEW d \in ui.drafts, deleteDraft(d)
  PROVE  /\ \/ DraftStep(ui.drafts \ {d}, None, kept \ {DraftId(d)}) /\ ui.drafts \ {d} = {}
            \/ \E b \in BOOLEAN :
                 DraftStep(ui.drafts \ {d},
                           [rev |-> ui.pull.rev, drafts |-> ui.drafts \ {d}, body |-> b],
                           kept \ {DraftId(d)})
         /\ WaitsForPublication /\ Input /\ Loaded /\ UNCHANGED <<saving, publishJob>>
<1> DEFINE remaining == ui.drafts \ {d}
           a == ui.attention /\ remaining # {}
           state == [ui EXCEPT !.drafts = remaining, !.attention = a]
<1>1. ui \in UiStates /\ remaining \in SUBSET Drafts /\ ui.body \in BOOLEAN
  BY DEF ViewTypes, TypeOK, UiStates
<1>2. a \in BOOLEAN
  OBVIOUS
<1>3. Loaded
  BY DEF deleteDraft, Showing, ViewTypes, LoadedFirst
<1>4. ui' = state /\ store' = StoreAfterDelete(state) /\ kept' = kept \ {DraftId(d)}
  BY DEF deleteDraft
<1> HIDE DEF a, remaining
<1>5. state.pull = ui.pull /\ state.drafts = remaining /\ state.body = ui.body
      /\ state.screen = ui.screen /\ state \in UiStates
  BY <1>1, <1>2 DEF UiStates
<1> HIDE DEF state
<1>6. \/ store' = None /\ remaining = {}
      \/ store' = [rev |-> ui.pull.rev, drafts |-> remaining, body |-> ui.body]
  BY <1>4, <1>5 DEF StoreAfterDelete, DraftReview
<1>7. UNCHANGED <<head, remote, published, snapshot, confirmed, writes, unsure, openJob,
                   staleOpens, pageJob, stalePages, expanding, saving, publishJob>>
  BY DEF deleteDraft, github, viewedVars, jobs, calls
<1>8. DraftStep(remaining, store', kept \ {DraftId(d)})
  BY <1>4, <1>5, <1>7 DEF DraftStep
<1>9. WaitsForPublication /\ Input
  BY DEF deleteDraft
<1> QED
  BY <1>1, <1>3, <1>6, <1>7, <1>8, <1>9 DEF remaining

\* A publication that succeeds clears the drafts and the store.
LEMMA PublishSucceedsStep ==
  ASSUME ViewTypes, PublishSucceeds
  PROVE  /\ DraftStep({}, None, kept) /\ publishJob' = None
         /\ UNCHANGED <<saving, inputs>>
<1>1. ui \in UiStates
  BY DEF ViewTypes, TypeOK
<1>2. ui' = [ui EXCEPT !.publishing = FALSE, !.drafts = {}, !.body = FALSE, !.error = FALSE]
  BY DEF PublishSucceeds
<1>3. ui' \in UiStates /\ ui'.pull = ui.pull /\ ui'.drafts = {} /\ ui'.screen = ui.screen
  BY <1>1, <1>2 DEF UiStates
<1> QED
  BY <1>3 DEF PublishSucceeds, DraftStep, github, viewedVars, jobs

\* A change of the overall body is stored with the drafts.
LEMMA BodyStep ==
  ASSUME ViewTypes, NEW b \in BOOLEAN, setOverallBody(b)
  PROVE  /\ Loaded
         /\ DraftStep(ui.drafts, [rev |-> ui.pull.rev, drafts |-> ui.drafts, body |-> b], kept)
         /\ Input /\ UNCHANGED <<saving, publishJob>>
<1> DEFINE state == [ui EXCEPT !.body = b]
<1>1. ui \in UiStates
  BY DEF ViewTypes, TypeOK
<1>2. ui' = state /\ store' = DraftReview(state)
  BY DEF setOverallBody, persistDrafts
<1>3. state.pull = ui.pull /\ state.drafts = ui.drafts /\ state.body = b
      /\ state.screen = ui.screen /\ state \in UiStates
  BY <1>1 DEF UiStates
<1> HIDE DEF state
<1>4. store' = [rev |-> ui.pull.rev, drafts |-> ui.drafts, body |-> b]
  BY <1>2, <1>3 DEF DraftReview
<1>5. Loaded
  BY DEF setOverallBody, Showing, ViewTypes, LoadedFirst
<1> QED
  BY <1>2, <1>3, <1>4, <1>5 DEF setOverallBody, DraftStep, github, viewedVars, jobs, calls

\* A step that changes drafts and store together keeps the types.
LEMMA DraftStepTypes ==
  ASSUME ViewTypes, NEW ds, NEW st \in Stored \cup {None}, NEW ks \in SUBSET DraftIds,
         DraftStep(ds, st, ks), saving' \in {saving, None}, publishJob' \in {publishJob, None},
         inputs' \in 0 .. MaxInputs
  PROVE  ViewTypes'
<1>1. TypeOK'
  BY DEF ViewTypes, TypeOK, DraftStep
<1>2. LoadedFirst'
  BY DEF ViewTypes, LoadedFirst, Loaded, DraftStep
<1> QED
  BY <1>1, <1>2 DEF ViewTypes

\* A draft review of drafts at the revision on screen can be stored.
LEMMA StorableTypes ==
  ASSUME Loaded, NEW ds \in SUBSET Drafts, NEW b \in BOOLEAN
  PROVE  [rev |-> ui.pull.rev, drafts |-> ds, body |-> b] \in Stored
BY DEF Loaded, Stored, Snapshots

\* Saving, deleting, publishing and the body are such steps.
LEMMA DraftTypes ==
  ASSUME ViewTypes,
         \/ SaveSucceeds \/ PublishSucceeds
         \/ \E d \in ui.drafts : deleteDraft(d)
         \/ \E b \in BOOLEAN : setOverallBody(b)
  PROVE  ViewTypes'
<1>0. ui.drafts \subseteq Drafts /\ kept \subseteq DraftIds /\ inputs \in 0 .. MaxInputs
  BY DEF ViewTypes, TypeOK, UiStates
<1>1. CASE SaveSucceeds
  <2>1. PICK b \in BOOLEAN :
              DraftStep(SavedDrafts, [rev |-> ui.pull.rev, drafts |-> SavedDrafts, body |-> b],
                        (kept \ {saving.replaces}) \cup {DraftId(Saved)})
    BY <1>1, SavedTypes
  <2>2. /\ DraftId(Saved) \in DraftIds /\ SavedDrafts \in SUBSET Drafts
        /\ saving' = None /\ Loaded /\ publishJob' = publishJob /\ inputs' = inputs
    BY <1>1, SavedTypes
  <2> DEFINE st == [rev |-> ui.pull.rev, drafts |-> SavedDrafts, body |-> b]
             ks == (kept \ {saving.replaces}) \cup {DraftId(Saved)}
  <2>3. st \in Stored \cup {None} /\ ks \in SUBSET DraftIds
    BY <1>0, <2>2, StorableTypes
  <2>4. DraftStep(SavedDrafts, st, ks)
    BY <2>1
  <2> HIDE DEF st, ks
  <2> QED
    BY <1>0, <2>2, <2>3, <2>4, DraftStepTypes
<1>2. CASE PublishSucceeds
  <2>1. DraftStep({}, None, kept) /\ publishJob' = None /\ saving' = saving /\ inputs' = inputs
    BY <1>2, PublishSucceedsStep
  <2> QED
    BY <1>0, <2>1, DraftStepTypes
<1>3. CASE \E d \in ui.drafts : deleteDraft(d)
  <2>1. PICK d \in ui.drafts : deleteDraft(d)
    BY <1>3
  <2>2. Loaded /\ inputs' \in 0 .. MaxInputs /\ saving' = saving /\ publishJob' = publishJob
    BY <1>0, <2>1, DeleteStep, InputTypes
  <2>3. \E st \in Stored \cup {None} : DraftStep(ui.drafts \ {d}, st, kept \ {DraftId(d)})
    <3>1. ui.drafts \ {d} \in SUBSET Drafts
      BY <1>0
    <3>2. CASE \E b \in BOOLEAN :
                 DraftStep(ui.drafts \ {d},
                           [rev |-> ui.pull.rev, drafts |-> ui.drafts \ {d}, body |-> b],
                           kept \ {DraftId(d)})
      BY <2>2, <3>1, <3>2, StorableTypes
    <3> QED
      BY <2>1, <3>2, DeleteStep
  <2>4. PICK st \in Stored \cup {None} : DraftStep(ui.drafts \ {d}, st, kept \ {DraftId(d)})
    BY <2>3
  <2>5. kept \ {DraftId(d)} \in SUBSET DraftIds
    BY <1>0
  <2> QED
    BY <2>2, <2>4, <2>5, DraftStepTypes
<1>4. CASE \E b \in BOOLEAN : setOverallBody(b)
  <2>1. PICK b \in BOOLEAN : setOverallBody(b)
    BY <1>4
  <2>2. /\ Loaded /\ Input /\ saving' = saving /\ publishJob' = publishJob
        /\ DraftStep(ui.drafts, [rev |-> ui.pull.rev, drafts |-> ui.drafts, body |-> b], kept)
    BY <2>1, BodyStep
  <2>3. [rev |-> ui.pull.rev, drafts |-> ui.drafts, body |-> b] \in Stored \cup {None}
    BY <1>0, <2>2, StorableTypes
  <2> QED
    BY <1>0, <2>2, <2>3, InputTypes, DraftStepTypes
<1> QED
  BY <1>1, <1>2, <1>3, <1>4

\* The other steps of a publication keep the types and the interface.
LEMMA PublishTypes ==
  ASSUME ViewTypes,
         publish \/ PublishChecks \/ PublishPosts \/ PublishFails \/ SaveFails
  PROVE  ViewTypes' /\ Quiet(ui, ui')
<1>0. ui \in UiStates
  BY DEF ViewTypes, TypeOK
<1>1. CASE publish
  <2>1. Loaded /\ ui.drafts \subseteq Drafts
    BY <1>0, <1>1 DEF publish, MayPublish, Showing, ViewTypes, LoadedFirst, UiStates
  <2>2. Quiet(ui, ui')
    BY <1>0, <1>1, FlagsQuiet DEF publish
  <2>3. publishJob' \in PublishJobs
    BY <1>1, <2>1 DEF publish, PublishJobs, Loaded, Snapshots
  <2>4. TypeOK'
    BY <1>1, <2>2, <2>3, InputTypes DEF publish, ViewTypes, TypeOK, Quiet, github, draftVars, viewedVars, jobs
  <2>5. Loaded'
    BY <1>1, <2>1, <2>2 DEF publish, Loaded, Quiet
  <2> QED
    BY <2>2, <2>4, <2>5 DEF ViewTypes, LoadedFirst, Loaded
<1>2. CASE PublishChecks \/ PublishFails
  <2>1. Loaded /\ publishJob \in PublishJobs
    BY <1>2 DEF PublishChecks, PublishFails, ViewTypes, LoadedFirst, TypeOK
  <2>2. \/ ui' = ui /\ publishJob' = [publishJob EXCEPT !.phase = "post"]
        \/ PublishFailed(TRUE) \/ PublishFailed(FALSE)
    BY <1>2 DEF PublishChecks, PublishFails
  <2>3. Quiet(ui, ui') /\ publishJob' \in PublishJobs \cup {None}
    <3>1. CASE ui' = ui /\ publishJob' = [publishJob EXCEPT !.phase = "post"]
      BY <1>0, <2>1, <3>1 DEF Quiet, PublishJobs
    <3>2. CASE PublishFailed(TRUE)
      BY <1>0, <3>2, FlagsQuiet DEF PublishFailed
    <3>3. CASE PublishFailed(FALSE)
      BY <1>0, <3>3, FlagsQuiet DEF PublishFailed
    <3> QED
      BY <2>2, <3>1, <3>2, <3>3
  <2>4. UNCHANGED <<github, draftVars, snapshot, viewedVars, jobs, expanding, saving, inputs>>
    BY <1>2 DEF PublishChecks, PublishFails
  <2>5. TypeOK'
    BY <2>3, <2>4 DEF ViewTypes, TypeOK, Quiet, github, draftVars, viewedVars, jobs
  <2>6. Loaded'
    BY <2>1, <2>3, <2>4 DEF Loaded, Quiet
  <2> QED
    BY <2>3, <2>5, <2>6 DEF ViewTypes, LoadedFirst, Loaded
<1>3. CASE PublishPosts
  <2>1. Loaded /\ publishJob \in PublishJobs
    BY <1>3 DEF PublishPosts, ViewTypes, LoadedFirst, TypeOK
  <2>2. publishJob' \in PublishJobs
    BY <1>3, <2>1 DEF PublishPosts, PublishJobs
  <2>3. published' \subseteq [draft : Drafts, commit : Revisions]
    <3>1. publishJob.drafts \subseteq Drafts /\ publishJob.rev \in Revisions
      BY <2>1 DEF PublishJobs
    <3>2. \A d \in publishJob.drafts :
            [draft |-> d, commit |-> publishJob.rev] \in [draft : Drafts, commit : Revisions]
      BY <3>1
    <3> QED
      BY <1>3, <3>2 DEF PublishPosts, ViewTypes, TypeOK
  <2>4. TypeOK'
    BY <1>3, <2>2, <2>3 DEF PublishPosts, ViewTypes, TypeOK, draftVars, viewedVars, jobs
  <2>5. Loaded'
    BY <1>3, <2>1 DEF PublishPosts, Loaded
  <2> QED
    BY <1>0, <1>3, <2>4, <2>5 DEF ViewTypes, LoadedFirst, Loaded, Quiet, PublishPosts
<1>4. CASE SaveFails
  <2>1. Quiet(ui, ui')
    BY <1>0, <1>4, FlagsQuiet DEF SaveFails
  <2>2. Loaded
    BY <1>4 DEF SaveFails, ViewTypes, LoadedFirst
  <2>3. TypeOK'
    BY <1>4, <2>1 DEF SaveFails, ViewTypes, TypeOK, Quiet, github, draftVars, viewedVars, jobs
  <2>4. Loaded'
    BY <1>4, <2>1, <2>2 DEF SaveFails, Loaded, Quiet
  <2> QED
    BY <2>1, <2>3, <2>4 DEF ViewTypes, LoadedFirst, Loaded
<1> QED
  BY <1>1, <1>2, <1>3, <1>4

\* A push and a restart keep the types.
LEMMA WorldTypes ==
  ASSUME ViewTypes, Push \/ Restart
  PROVE  ViewTypes'
<1>1. CASE Push
  <2>1. head' \in Revisions
    BY <1>1, ReviewAssumption DEF Push, ViewTypes, TypeOK, Revisions
  <2>2. TypeOK'
    BY <1>1, <2>1, InputTypes DEF Push, ViewTypes, TypeOK, draftVars, viewedVars, jobs, calls
  <2>3. LoadedFirst'
    BY <1>1 DEF Push, ViewTypes, LoadedFirst, Loaded, draftVars, viewedVars, jobs, calls
  <2> QED
    BY <2>2, <2>3 DEF ViewTypes
<1>2. CASE Restart
  <2>1. InitialFile \in Files
    BY ReviewAssumption DEF InitialFile, Files
  <2>2. FreshUi \in UiStates /\ FreshUi.pull = None /\ FreshUi.screen = None
    BY <2>1 DEF FreshUi, UiStates
  <2>3. NoWrites \in [Files -> Seq(Writes)] /\ \A f \in Files : NoWrites[f] = <<>>
    BY DEF NoWrites
  <2>4. Calling \in OpenJobs
    BY DEF Calling, OpenJobs
  <2>5. TypeOK'
    BY <1>2, <2>2, <2>3, <2>4, InputTypes DEF Restart, ViewTypes, TypeOK, github, draftVars
  <2>6. LoadedFirst'
    BY <1>2, <2>2, <2>3 DEF Restart, LoadedFirst
  <2> QED
    BY <2>5, <2>6 DEF ViewTypes
<1> QED
  BY <1>1, <1>2

\* Every step keeps the types.
LEMMA StepTypes == ViewTypes /\ [Next]_vars => ViewTypes'
<1> SUFFICES ASSUME ViewTypes, [Next]_vars PROVE ViewTypes'
  OBVIOUS
<1>1. CASE UNCHANGED vars
  BY <1>1 DEF ViewTypes, TypeOK, LoadedFirst, Loaded, vars, github, draftVars, viewedVars, jobs, calls
<1>2. CASE Loading
  BY <1>2, ReloadTypes, OpenSucceedsTypes, PageTypes, FileTypes DEF Loading
<1>3. CASE Viewing
  <2>1. CASE setViewed \/ lastRowVisible \/ undoViewed
    BY <2>1, MarkSteps, MarkTypes
  <2> QED
    BY <1>3, <2>1, QuietTypes, WriteTypes DEF Viewing
<1>4. CASE Drafting
  BY <1>4, QuietTypes, SaveTypes, DraftTypes, PublishTypes, ReloadTypes DEF Drafting
<1>5. CASE Publishing
  BY <1>5, QuietTypes, PublishTypes, DraftTypes DEF Publishing
<1>6. CASE Push \/ Restart
  BY <1>6, WorldTypes
<1> QED
  BY <1>1, <1>2, <1>3, <1>4, <1>5, <1>6 DEF Next

\* Every part of the state of the review screen keeps its type, and nothing
\* is read of a pull request before it is loaded.
THEOREM ReviewTyped == Spec => []TypeOK
<1>1. ViewTypes => TypeOK
  BY DEF ViewTypes
<1> QED
  BY <1>1, InitTypes, StepTypes, PTL DEF Spec

-----------------------------------------------------------------------------
(* The steps that touch neither drafts nor marks *)

Idle ==
  /\ Quiet(ui, ui')
  /\ UNCHANGED <<store, kept, published, remote, confirmed, writes, unsure, saving, publishJob>>

\* Loading, but for the pull request that comes in, and the handlers of flags
\* and modes leave the drafts, the marks and what is sent alone.
LEMMA IdleSteps ==
  ASSUME ViewTypes,
         \/ Loading /\ ~OpenSucceeds
         \/ dismissNotice \/ cancelEditor \/ PublishRefused \/ Push
         \/ \E line \in Lines : \E side \in Sides : openComment(line, side)
         \/ \E d \in ui.drafts : editDraft(d)
         \/ UNCHANGED vars
  PROVE  Idle
<1>0. ui \in UiStates
  BY DEF ViewTypes, TypeOK
<1>1. CASE Retry
  <2>1. Quiet(ui, ui')
    BY <1>1, OpenTypes DEF Retry
  <2> QED
    BY <1>1, <2>1 DEF Retry, Idle, github, draftVars, viewedVars, calls
<1>2. CASE OpenCalls \/ OpenReads \/ StaleOpenReads \/ loadMoreRows
  BY <1>0, <1>2 DEF OpenCalls, OpenReads, StaleOpenReads, loadMoreRows, Idle, Quiet, github, draftVars, viewedVars, calls
<1>3. CASE OpenFails
  <2>1. Quiet(ui, ui')
    BY <1>0, <1>3, FailedQuiet DEF OpenFails, LoadFailed
  <2> QED
    BY <1>3, <2>1 DEF OpenFails, Idle, github, draftVars, viewedVars, calls
<1>4. CASE \E job \in staleOpens : StaleOpenEnds(job)
  <2>1. Quiet(ui, ui')
    BY <1>0, <1>4, FailedQuiet DEF StaleOpenEnds, LoadFailed
  <2> QED
    BY <1>4, <2>1 DEF StaleOpenEnds, Idle, github, draftVars, viewedVars, calls
<1>5. CASE \E f \in Files : selectFile(f)
  <2>1. PICK f \in Files : selectFile(f)
    BY <1>5
  <2>2. loadFile([ui EXCEPT !.selected = f, !.editor = None], f)
    BY <2>1 DEF selectFile
  <2>3. Quiet(ui, ui')
    BY <1>0, <2>2, SelectQuiet DEF loadFile
  <2> QED
    BY <2>1, <2>3 DEF selectFile, Idle, github, draftVars, viewedVars, calls
<1>6. CASE FileLoads
  <2>1. FirstPage(pageJob.file) \in Screens
    BY <1>6, FirstPageTypes DEF FileLoads, ViewTypes, LoadedFirst, TypeOK, PageJobs
  <2>2. Quiet(ui, ui')
    BY <1>0, <1>6, <2>1, ScreenQuiet DEF FileLoads
  <2> QED
    BY <1>6, <2>2 DEF FileLoads, Idle, github, draftVars, viewedVars, calls
<1>7. CASE MoreRowsLoad
  <2>1. Quiet(ui, ui')
    <3>1. CASE ui.screen = None
      BY <1>0, <1>7, <3>1 DEF MoreRowsLoad, Quiet
    <3>2. CASE ui.screen # None
      BY <1>0, <1>7, <3>2, MoreQuiet DEF MoreRowsLoad
    <3> QED
      BY <3>1, <3>2
  <2> QED
    BY <1>7, <2>1 DEF MoreRowsLoad, Idle, github, draftVars, viewedVars, calls
<1>8. CASE PageFails \/ \E kind \in stalePages : StalePageEnds(kind)
  <2>1. ui' = [ui EXCEPT !.loading = FALSE, !.error = TRUE] \/ ui' = [ui EXCEPT !.error = TRUE]
    BY <1>8 DEF PageFails, StalePageEnds, PageFailed, LoadFailed
  <2>2. Quiet(ui, ui')
    BY <1>0, <2>1, FailedQuiet, FlagsQuiet
  <2> QED
    BY <1>8, <2>2 DEF PageFails, StalePageEnds, Idle, github, draftVars, viewedVars, calls
<1>9. CASE expand \/ Push
  BY <1>0, <1>9 DEF expand, Push, Idle, Quiet, github, draftVars, viewedVars, calls
<1>10. CASE ExpandEnds
  <2>1. FirstPage(expanding) \in Screens
    BY <1>10, FirstPageTypes DEF ExpandEnds, ViewTypes, LoadedFirst, TypeOK
  <2>2. Quiet(ui, ui')
    BY <1>0, <1>10, <2>1, ScreenQuiet, FlagsQuiet DEF ExpandEnds
  <2> QED
    BY <1>10, <2>2 DEF ExpandEnds, Idle, github, draftVars, viewedVars
<1>11. CASE \/ dismissNotice \/ cancelEditor \/ PublishRefused
            \/ \E line \in Lines : \E side \in Sides : openComment(line, side)
            \/ \E d \in ui.drafts : editDraft(d)
  BY <1>11, QuietTypes DEF Idle, github, draftVars, viewedVars, calls
<1>12. CASE UNCHANGED vars
  BY <1>0, <1>12 DEF Idle, Quiet, vars, github, draftVars, viewedVars, calls
<1> QED
  BY <1>1, <1>2, <1>3, <1>4, <1>5, <1>6, <1>7, <1>8, <1>9, <1>10, <1>11, <1>12 DEF Loading

-----------------------------------------------------------------------------
(* The drafts on disk *)

\* The drafts and what became of them stay as they are.
DraftsAlone ==
  /\ ui'.drafts = ui.drafts
  /\ ui.pull = None => ui'.pull = None
  /\ UNCHANGED <<store, kept>>

\* The steps that leave drafts, store and publication alone.
LEMMA AloneSteps ==
  ASSUME ViewTypes,
         \/ Idle
         \/ setViewed \/ lastRowVisible \/ undoViewed
         \/ \E f \in Files : WriteApplies(f) \/ WriteSucceeds(f) \/ WriteFails(f)
         \/ \E body \in Bodies \cup {Blank} : saveDraft(body)
         \/ SaveFails \/ publish \/ PublishChecks \/ PublishPosts \/ PublishFails
  PROVE  DraftsAlone
<1>1. CASE Idle
  BY <1>1 DEF Idle, Quiet, DraftsAlone
<1>2. CASE setViewed \/ lastRowVisible \/ undoViewed
  BY <1>2, MarkSteps, NoneIsApart DEF MarkStep, Marked, Loaded, DraftsAlone
<1>3. CASE \E f \in Files : WriteApplies(f) \/ WriteSucceeds(f) \/ WriteFails(f)
  <2>1. PICK f \in Files : WriteApplies(f) \/ WriteSucceeds(f) \/ WriteFails(f)
    BY <1>3
  <2>2. CASE WriteFails(f)
    <3>1. ui'.drafts = ui.drafts
      BY <2>2, WriteFailsShows DEF Marked
    <3>2. ui.pull # None
      BY <2>2, WriteEndsStep, NoneIsApart DEF Loaded
    <3> QED
      BY <2>2, <3>1, <3>2 DEF WriteFails, DraftsAlone, draftVars
  <2> QED
    BY <2>1, <2>2 DEF WriteApplies, WriteSucceeds, DraftsAlone, draftVars
<1>4. CASE \E body \in Bodies \cup {Blank} : saveDraft(body)
  BY <1>4 DEF saveDraft, DraftsAlone, draftVars
<1>5. CASE SaveFails \/ publish \/ PublishChecks \/ PublishPosts \/ PublishFails
  BY <1>5, PublishTypes DEF SaveFails, publish, PublishChecks, PublishPosts, PublishFails, Quiet, DraftsAlone, draftVars
<1> QED
  BY <1>1, <1>2, <1>3, <1>4, <1>5

\* Every step is one that leaves the drafts alone, or one of those that do not.
LEMMA StepKinds ==
  ASSUME ViewTypes, [Next]_vars
  PROVE  \/ DraftsAlone
         \/ OpenSucceeds \/ SaveSucceeds \/ PublishSucceeds
         \/ \E d \in ui.drafts : deleteDraft(d)
         \/ \E b \in BOOLEAN : setOverallBody(b)
         \/ refreshAfterAttention \/ Restart
<1>1. CASE Loading \/ Push \/ UNCHANGED vars
  BY <1>1, IdleSteps, AloneSteps
<1>2. CASE Viewing
  BY <1>2, IdleSteps, AloneSteps DEF Viewing
<1>3. CASE Drafting
  BY <1>3, IdleSteps, AloneSteps DEF Drafting
<1>4. CASE Publishing
  BY <1>4, IdleSteps, AloneSteps DEF Publishing
<1> QED
  BY <1>1, <1>2, <1>3, <1>4 DEF Next

\* A refresh after attention happens without drafts and clears the store.
LEMMA RefreshStep ==
  ASSUME ViewTypes, refreshAfterAttention
  PROVE  /\ Quiet(ui, ui') /\ ui.drafts = {} /\ store' = None /\ kept' = kept /\ ui.pull # None
         /\ UNCHANGED <<remote, confirmed, writes, unsure, saving, publishJob, published>>
<1>1. Quiet(ui, ui')
  BY OpenTypes DEF refreshAfterAttention
<1> QED
  BY <1>1 DEF refreshAfterAttention, Showing, github, viewedVars, calls

\* Every step keeps the drafts on the screen and in the store the same.
LEMMA PersistedStep ==
  ASSUME ViewTypes, DraftsArePersisted, [Next]_vars
  PROVE  DraftsArePersisted'
<1>1. CASE DraftsAlone
  BY <1>1 DEF DraftsAlone, DraftsArePersisted
<1>2. CASE OpenSucceeds
  <2>1. ui'.drafts = StoredDrafts
    BY <1>2, OpenSucceedsShows DEF OpenShown
  <2>2. store' = store
    BY <1>2 DEF OpenSucceeds, draftVars
  <2> QED
    BY <2>1, <2>2 DEF DraftsArePersisted, StoredDrafts
<1>3. CASE SaveSucceeds
  <2>1. PICK b \in BOOLEAN :
              DraftStep(SavedDrafts, [rev |-> ui.pull.rev, drafts |-> SavedDrafts, body |-> b],
                        (kept \ {saving.replaces}) \cup {DraftId(Saved)})
    BY <1>3, SavedTypes
  <2>2. [rev |-> ui.pull.rev, drafts |-> SavedDrafts, body |-> b] # None
    BY <1>3, SavedTypes, StorableTypes, NoneIsApart
  <2> QED
    BY <2>1, <2>2 DEF DraftStep, DraftsArePersisted
<1>4. CASE PublishSucceeds
  BY <1>4, PublishSucceedsStep DEF DraftStep, DraftsArePersisted
<1>5. CASE \E d \in ui.drafts : deleteDraft(d)
  <2>1. PICK d \in ui.drafts : deleteDraft(d)
    BY <1>5
  <2>2. CASE DraftStep(ui.drafts \ {d}, None, kept \ {DraftId(d)}) /\ ui.drafts \ {d} = {}
    BY <2>2 DEF DraftStep, DraftsArePersisted
  <2>3. CASE \E b \in BOOLEAN :
               DraftStep(ui.drafts \ {d},
                         [rev |-> ui.pull.rev, drafts |-> ui.drafts \ {d}, body |-> b],
                         kept \ {DraftId(d)})
    <3>1. PICK b \in BOOLEAN :
               DraftStep(ui.drafts \ {d},
                         [rev |-> ui.pull.rev, drafts |-> ui.drafts \ {d}, body |-> b],
                         kept \ {DraftId(d)})
      BY <2>3
    <3>2. Loaded /\ ui.drafts \ {d} \in SUBSET Drafts
      BY <2>1, DeleteStep DEF ViewTypes, TypeOK, UiStates
    <3>3. [rev |-> ui.pull.rev, drafts |-> ui.drafts \ {d}, body |-> b] # None
      BY <3>2, StorableTypes, NoneIsApart
    <3> QED
      BY <3>1, <3>3 DEF DraftStep, DraftsArePersisted
  <2> QED
    BY <2>1, <2>2, <2>3, DeleteStep
<1>6. CASE \E b \in BOOLEAN : setOverallBody(b)
  <2>1. PICK b \in BOOLEAN : setOverallBody(b)
    BY <1>6
  <2>2. /\ Loaded
        /\ DraftStep(ui.drafts, [rev |-> ui.pull.rev, drafts |-> ui.drafts, body |-> b], kept)
    BY <2>1, BodyStep
  <2>3. ui.drafts \in SUBSET Drafts
    BY DEF ViewTypes, TypeOK, UiStates
  <2>4. [rev |-> ui.pull.rev, drafts |-> ui.drafts, body |-> b] # None
    BY <2>2, <2>3, StorableTypes, NoneIsApart
  <2> QED
    BY <2>2, <2>4 DEF DraftStep, DraftsArePersisted
<1>7. CASE refreshAfterAttention
  BY <1>7, RefreshStep DEF Quiet, DraftsArePersisted
<1>8. CASE Restart
  BY <1>8 DEF Restart, FreshUi, DraftsArePersisted
<1> QED
  BY <1>1, <1>2, <1>3, <1>4, <1>5, <1>6, <1>7, <1>8, StepKinds

\* Whatever the user does and whenever: the drafts on screen are the drafts in
\* the encrypted store, after every step of saveDraft, deleteDraft,
\* setOverallBody, publish and refreshAfterAttention.
THEOREM DraftsOnDisk == Spec => []DraftsArePersisted
<1>1. Init => DraftsArePersisted
  BY DEF Init, FreshUi, DraftsArePersisted
<1>2. ViewTypes /\ DraftsArePersisted /\ [Next]_vars => DraftsArePersisted'
  BY PersistedStep
<1> QED
  BY <1>1, <1>2, InitTypes, StepTypes, PTL DEF Spec

-----------------------------------------------------------------------------
(* No draft is lost, with a patient user *)

\* What GitHub accepted stays accepted.
LEMMA PublishedGrows ==
  ASSUME ViewTypes, [Next]_vars
  PROVE  published \subseteq published'
<1>1. CASE Loading \/ Push \/ Restart \/ UNCHANGED vars
  <2>1. CASE OpenSucceeds
    BY <2>1 DEF OpenSucceeds, github
  <2>2. CASE Restart
    BY <2>2 DEF Restart, github
  <2> QED
    BY <1>1, <2>1, <2>2, IdleSteps DEF Idle
<1>2. CASE Viewing
  <2>1. CASE dismissNotice
    BY <2>1, IdleSteps DEF Idle
  <2>2. CASE setViewed \/ lastRowVisible \/ undoViewed
    BY <2>2, MarkSteps DEF MarkStep
  <2> QED
    BY <1>2, <2>1, <2>2 DEF Viewing, WriteApplies, WriteSucceeds, WriteFails, github
<1>3. CASE Drafting
  BY <1>3 DEF Drafting, openComment, editDraft, deleteDraft, cancelEditor, saveDraft, SaveSucceeds,
     SaveFails, setOverallBody, refreshAfterAttention, github
<1>4. CASE Publishing
  BY <1>4 DEF Publishing, PublishRefused, publish, PublishChecks, PublishPosts, PublishSucceeds,
     PublishFails, github
<1> QED
  BY <1>1, <1>2, <1>3, <1>4 DEF Next

\* A publication that takes no part in a step stays exact.
LEMMA ExactKept ==
  ASSUME PublicationExact, saving' \in {saving, None}, publishJob' = publishJob,
         publishJob # None => ui'.drafts = ui.drafts, published \subseteq published'
  PROVE  PublicationExact'
BY DEF PublicationExact, IsPublished

\* A patient user never has a publication that differs from the drafts on the screen.
LEMMA ExactStep ==
  ASSUME Impatient = FALSE, ViewTypes, DraftsArePersisted, PublicationExact, [Next]_vars
  PROVE  PublicationExact'
<1>0. published \subseteq published'
  BY PublishedGrows
<1>1. CASE Idle
  BY <1>0, <1>1, ExactKept DEF Idle, Quiet
<1>2. CASE Viewing
  <2>1. CASE setViewed \/ lastRowVisible \/ undoViewed
    BY <1>0, <2>1, MarkSteps, ExactKept DEF MarkStep, Marked
  <2>2. CASE \E f \in Files : WriteApplies(f) \/ WriteSucceeds(f) \/ WriteFails(f)
    <3>1. DraftsAlone
      BY <2>2, AloneSteps
    <3>2. saving' = saving /\ publishJob' = publishJob
      BY <2>2 DEF WriteApplies, WriteSucceeds, WriteFails, calls
    <3> QED
      BY <1>0, <3>1, <3>2, ExactKept DEF DraftsAlone
  <2> QED
    BY <1>1, <1>2, <2>1, <2>2, IdleSteps DEF Viewing
<1>3. CASE \E body \in Bodies \cup {Blank} : saveDraft(body)
  BY <1>3 DEF saveDraft, WaitsForPublication, PublicationExact
<1>4. CASE SaveFails
  <2>1. DraftsAlone
    BY <1>4, AloneSteps
  <2> QED
    BY <1>0, <1>4, <2>1, ExactKept DEF SaveFails, DraftsAlone
<1>5. CASE publish
  <2>1. Quiet(ui, ui')
    BY <1>5, PublishTypes
  <2> QED
    BY <1>5, <2>1 DEF publish, MayPublish, WaitsForSave, Quiet, PublicationExact
<1>6. CASE PublishChecks \/ PublishFails
  <2>1. /\ publishJob # None /\ saving' = saving
        /\ publishJob' = None \/ publishJob' = [publishJob EXCEPT !.phase = "post"]
    BY <1>6 DEF PublishChecks, PublishFails, PublishFailed
  <2>2. ui'.drafts = ui.drafts
    BY <1>6, PublishTypes DEF Quiet
  <2>3. publishJob \in PublishJobs
    BY <2>1 DEF ViewTypes, TypeOK
  <2>4. CASE publishJob' = [publishJob EXCEPT !.phase = "post"]
    <3>1. publishJob'.drafts = publishJob.drafts /\ publishJob'.phase = "post"
      BY <2>3, <2>4 DEF PublishJobs
    <3> QED
      BY <2>1, <2>2, <3>1 DEF PublicationExact
  <2> QED
    BY <2>1, <2>4 DEF PublicationExact
<1>7. CASE PublishPosts
  <2>1. publishJob # None /\ saving' = saving /\ ui' = ui
    BY <1>7 DEF PublishPosts
  <2>2. publishJob \in PublishJobs
    BY <2>1 DEF ViewTypes, TypeOK
  <2>3. publishJob'.drafts = publishJob.drafts
    BY <1>7, <2>2 DEF PublishPosts, PublishJobs
  <2>4. \A d \in publishJob.drafts : [draft |-> d, commit |-> publishJob.rev] \in published'
    BY <1>7 DEF PublishPosts
  <2>5. \A d \in publishJob.drafts : IsPublished(DraftId(d))'
    BY <2>4 DEF IsPublished, DraftId
  <2> QED
    BY <2>1, <2>3, <2>5 DEF PublicationExact
<1>8. CASE OpenSucceeds
  <2>1. ui'.drafts = StoredDrafts
    BY <1>8, OpenSucceedsShows DEF OpenShown
  <2>2. publishJob # None => ui.drafts = StoredDrafts
    BY NoneIsApart DEF ViewTypes, LoadedFirst, Loaded, DraftsArePersisted, StoredDrafts
  <2> QED
    BY <1>0, <1>8, <2>1, <2>2, ExactKept DEF OpenSucceeds, calls
<1>9. CASE SaveSucceeds
  <2>1. publishJob' = publishJob /\ saving # None
    BY <1>9 DEF SaveSucceeds
  <2> QED
    BY <2>1 DEF PublicationExact
<1>10. CASE PublishSucceeds \/ Restart
  BY <1>10 DEF PublishSucceeds, Restart, PublicationExact
<1>11. CASE \E d \in ui.drafts : deleteDraft(d)
  BY <1>11 DEF deleteDraft, WaitsForPublication, calls, PublicationExact
<1>12. CASE \E b \in BOOLEAN : setOverallBody(b)
  BY <1>0, <1>12, BodyStep, ExactKept DEF DraftStep
<1>13. CASE refreshAfterAttention
  BY <1>0, <1>13, RefreshStep, ExactKept DEF Quiet
<1>14. CASE Loading \/ Push \/ UNCHANGED vars
  BY <1>1, <1>8, <1>14, IdleSteps
<1>15. CASE Drafting
  BY <1>1, <1>3, <1>4, <1>9, <1>11, <1>12, <1>13, <1>15, IdleSteps DEF Drafting
<1>16. CASE Publishing
  BY <1>1, <1>5, <1>6, <1>7, <1>10, <1>16, IdleSteps DEF Publishing
<1> QED
  BY <1>2, <1>10, <1>14, <1>15, <1>16 DEF Next

\* The draft with an id is on disk.
OnDisk(id) == \E d \in StoredDrafts : DraftId(d) = id

\* A kept draft is in the store or published.
LEMMA KeptMeans == DraftsKept <=> \A id \in kept : OnDisk(id) \/ IsPublished(id)
BY DEF DraftsKept, OnDisk, StoredDrafts, IsPublished

\* Every step keeps the drafts that were saved, until they are deleted or published.
LEMMA KeptStep ==
  ASSUME ViewTypes, DraftsArePersisted, PublicationExact, DraftsKept, [Next]_vars
  PROVE  DraftsKept'
<1>1. published \subseteq published'
  BY PublishedGrows
<1>2. \A id : IsPublished(id) => IsPublished(id)'
  BY <1>1 DEF IsPublished
<1>3. \A id \in kept : OnDisk(id) \/ IsPublished(id)
  BY KeptMeans
<1>4. SUFFICES ASSUME NEW id \in kept' PROVE OnDisk(id)' \/ IsPublished(id)'
  BY DEF DraftsKept, OnDisk, StoredDrafts, IsPublished
<1>5. CASE DraftsAlone
  BY <1>2, <1>3, <1>5 DEF DraftsAlone, OnDisk, StoredDrafts
<1>6. CASE OpenSucceeds \/ Restart
  <2>1. UNCHANGED <<store, kept>>
    BY <1>6 DEF OpenSucceeds, Restart, draftVars
  <2> QED
    BY <1>2, <1>3, <2>1 DEF OnDisk, StoredDrafts
<1>7. CASE SaveSucceeds
  <2>1. PICK b \in BOOLEAN :
              DraftStep(SavedDrafts, [rev |-> ui.pull.rev, drafts |-> SavedDrafts, body |-> b],
                        (kept \ {saving.replaces}) \cup {DraftId(Saved)})
    BY <1>7, SavedTypes
  <2>2. Loaded /\ [rev |-> ui.pull.rev, drafts |-> SavedDrafts, body |-> b] # None
    BY <1>7, SavedTypes, StorableTypes, NoneIsApart
  <2>3. StoredDrafts' = SavedDrafts /\ kept' = (kept \ {saving.replaces}) \cup {DraftId(Saved)}
    BY <2>1, <2>2 DEF DraftStep, StoredDrafts
  <2>4. ui.drafts = StoredDrafts
    BY <2>2, NoneIsApart DEF Loaded, DraftsArePersisted, StoredDrafts
  <2>5. CASE id = DraftId(Saved)
    BY <2>3, <2>5 DEF OnDisk, SavedDrafts
  <2>6. CASE id # DraftId(Saved)
    <3>1. id \in kept /\ id # saving.replaces
      BY <2>3, <2>6
    <3>2. CASE OnDisk(id)
      <4>1. PICK d \in ui.drafts : DraftId(d) = id
        BY <2>4, <3>2 DEF OnDisk
      <4>2. d \in SavedDrafts
        BY <2>6, <3>1, <4>1 DEF SavedDrafts
      <4> QED
        BY <2>3, <4>1, <4>2 DEF OnDisk
    <3> QED
      BY <1>2, <1>3, <3>1, <3>2
  <2> QED
    BY <2>5, <2>6
<1>8. CASE PublishSucceeds
  <2>1. id \in kept
    BY <1>8, PublishSucceedsStep DEF DraftStep
  <2>2. publishJob # None /\ publishJob.phase = "accepted"
    BY <1>8 DEF PublishSucceeds
  <2>3. ui.drafts = StoredDrafts
    BY <2>2, NoneIsApart DEF ViewTypes, LoadedFirst, Loaded, DraftsArePersisted, StoredDrafts
  <2>4. OnDisk(id) => IsPublished(id)
    BY <2>2, <2>3 DEF OnDisk, PublicationExact
  <2> QED
    BY <1>2, <1>3, <2>1, <2>4
<1>9. CASE \E d \in ui.drafts : deleteDraft(d)
  <2>1. PICK d \in ui.drafts : deleteDraft(d)
    BY <1>9
  <2>2. Loaded /\ ui.drafts \ {d} \in SUBSET Drafts
    BY <2>1, DeleteStep DEF ViewTypes, TypeOK, UiStates
  <2>3. ui.drafts = StoredDrafts
    BY <2>2, NoneIsApart DEF Loaded, DraftsArePersisted, StoredDrafts
  <2>4. kept' = kept \ {DraftId(d)} /\ StoredDrafts' = ui.drafts \ {d}
    <3>1. CASE DraftStep(ui.drafts \ {d}, None, kept \ {DraftId(d)}) /\ ui.drafts \ {d} = {}
      BY <3>1 DEF DraftStep, StoredDrafts
    <3>2. ASSUME NEW b \in BOOLEAN,
                 DraftStep(ui.drafts \ {d},
                           [rev |-> ui.pull.rev, drafts |-> ui.drafts \ {d}, body |-> b],
                           kept \ {DraftId(d)})
          PROVE  kept' = kept \ {DraftId(d)} /\ StoredDrafts' = ui.drafts \ {d}
      <4>1. [rev |-> ui.pull.rev, drafts |-> ui.drafts \ {d}, body |-> b] # None
        BY <2>2, StorableTypes, NoneIsApart
      <4> QED
        BY <3>2, <4>1 DEF DraftStep, StoredDrafts
    <3> QED
      BY <2>1, <3>1, <3>2, DeleteStep
  <2>5. OnDisk(id) => OnDisk(id)'
    BY <2>3, <2>4 DEF OnDisk
  <2> QED
    BY <1>2, <1>3, <2>4, <2>5
<1>10. CASE \E b \in BOOLEAN : setOverallBody(b)
  <2>1. PICK b \in BOOLEAN : setOverallBody(b)
    BY <1>10
  <2>2. /\ Loaded
        /\ DraftStep(ui.drafts, [rev |-> ui.pull.rev, drafts |-> ui.drafts, body |-> b], kept)
    BY <2>1, BodyStep
  <2>3. ui.drafts \in SUBSET Drafts
    BY DEF ViewTypes, TypeOK, UiStates
  <2>4. [rev |-> ui.pull.rev, drafts |-> ui.drafts, body |-> b] # None
    BY <2>2, <2>3, StorableTypes, NoneIsApart
  <2>5. ui.drafts = StoredDrafts
    BY <2>2, NoneIsApart DEF Loaded, DraftsArePersisted, StoredDrafts
  <2>6. StoredDrafts' = StoredDrafts /\ kept' = kept
    BY <2>2, <2>4, <2>5 DEF DraftStep, StoredDrafts
  <2> QED
    BY <1>2, <1>3, <2>6 DEF OnDisk
<1>11. CASE refreshAfterAttention
  <2>1. ui.drafts = {} /\ ui.pull # None /\ kept' = kept
    BY <1>11, RefreshStep
  <2>2. StoredDrafts = {}
    BY <2>1 DEF DraftsArePersisted, StoredDrafts
  <2> QED
    BY <1>2, <1>3, <2>1, <2>2 DEF OnDisk
<1> QED
  BY <1>5, <1>6, <1>7, <1>8, <1>9, <1>10, <1>11, StepKinds

\* A draft the user saved and did not delete is on disk or in a review GitHub
\* accepted, for a user who lets a save or a publication end before changing
\* the drafts (publish clears the store for the drafts it took, whatever was
\* added meanwhile).
THEOREM DraftsSurvive == ASSUME Impatient = FALSE PROVE Spec => []DraftsKept
<1>1. Init => DraftInv
  BY DEF Init, FreshUi, DraftInv, DraftsArePersisted, PublicationExact, DraftsKept
<1>2. ViewTypes /\ DraftInv /\ [Next]_vars => DraftInv'
  BY PersistedStep, ExactStep, KeptStep DEF DraftInv
<1>3. DraftInv => DraftsKept
  BY DEF DraftInv
<1> QED
  BY <1>1, <1>2, <1>3, InitTypes, StepTypes, PTL DEF Spec

-----------------------------------------------------------------------------
(* Viewed marks settle, with a patient user *)

\* What a step may do to the reload.
LEMMA OpenJobSteps ==
  ASSUME ViewTypes, [Next]_vars
  PROVE  \/ openJob' = openJob
         \/ openJob' = None
         \/ openJob' # None /\ openJob'.phase = "await"
         \/ openJob' = Calling /\ ~WritesActive
         \/ openJob = Calling /\ openJob' = Reading
         \/ Restart
<1>0. open => \/ openJob' # None /\ openJob'.phase = "await"
              \/ openJob' = Calling /\ ~WritesActive
  <2>1. [phase |-> "await", read |-> None] \in OpenJobs
    BY DEF OpenJobs
  <2> QED
    BY <2>1, NoneIsApart DEF open
<1>1. CASE Loading
  BY <1>0, <1>1 DEF Loading, Retry, OpenCalls, OpenReads, StaleOpenReads, OpenSucceeds, OpenFails,
     StaleOpenEnds, selectFile, FileLoads, loadMoreRows, MoreRowsLoad, PageFails, StalePageEnds,
     expand, ExpandEnds, jobs
<1>2. CASE Viewing
  <2>1. CASE setViewed \/ lastRowVisible \/ undoViewed
    BY <2>1, MarkSteps DEF MarkStep
  <2> QED
    BY <1>2, <2>1 DEF Viewing, dismissNotice, WriteApplies, WriteSucceeds, WriteFails, jobs
<1>3. CASE Drafting
  BY <1>0, <1>3 DEF Drafting, openComment, editDraft, deleteDraft, cancelEditor, saveDraft,
     SaveSucceeds, SaveFails, setOverallBody, refreshAfterAttention, jobs
<1>4. CASE Publishing \/ Push \/ UNCHANGED vars
  BY <1>4 DEF Publishing, PublishRefused, publish, PublishChecks, PublishPosts, PublishSucceeds,
     PublishFails, Push, vars, jobs
<1> QED
  BY <1>1, <1>2, <1>3, <1>4 DEF Next

\* The marks and the writes stay as they are.
MarksAlone ==
  /\ ui'.pull = ui.pull
  /\ UNCHANGED <<remote, confirmed, writes, unsure>>

\* Every step leaves the marks alone, or is one of those that do not.
LEMMA MarkKinds ==
  ASSUME ViewTypes, [Next]_vars
  PROVE  \/ MarksAlone
         \/ OpenSucceeds \/ Restart
         \/ \E f \in Files : \E m \in BOOLEAN : MarkStep(f, m)
         \/ \E f \in Files : WriteApplies(f) \/ WriteSucceeds(f) \/ WriteFails(f)
<1>1. CASE Idle
  BY <1>1 DEF Idle, Quiet, MarksAlone
<1>2. CASE Loading \/ Push \/ UNCHANGED vars
  BY <1>1, <1>2, IdleSteps
<1>3. CASE Viewing
  BY <1>1, <1>3, IdleSteps, MarkSteps DEF Viewing
<1>4. CASE SaveFails \/ publish \/ PublishChecks \/ PublishPosts \/ PublishFails
  BY <1>4, PublishTypes DEF SaveFails, publish, PublishChecks, PublishPosts, PublishFails, Quiet,
     MarksAlone, github, viewedVars
<1>5. CASE PublishSucceeds
  BY <1>5, PublishSucceedsStep DEF DraftStep, MarksAlone
<1>6. CASE Publishing
  BY <1>1, <1>4, <1>5, <1>6, IdleSteps DEF Publishing
<1>7. CASE SaveSucceeds
  BY <1>7, SavedTypes DEF DraftStep, MarksAlone
<1>8. CASE \E body \in Bodies \cup {Blank} : saveDraft(body)
  BY <1>8 DEF saveDraft, MarksAlone, github, viewedVars
<1>9. CASE \E d \in ui.drafts : deleteDraft(d)
  BY <1>9, DeleteStep DEF DraftStep, MarksAlone
<1>10. CASE \E b \in BOOLEAN : setOverallBody(b)
  BY <1>10, BodyStep DEF DraftStep, MarksAlone
<1>11. CASE refreshAfterAttention
  BY <1>11, RefreshStep DEF Quiet, MarksAlone
<1>12. CASE Drafting
  BY <1>1, <1>4, <1>7, <1>8, <1>9, <1>10, <1>11, <1>12, IdleSteps DEF Drafting
<1> QED
  BY <1>2, <1>3, <1>6, <1>12 DEF Next

\* A reload under way past its wait, with a step that leaves marks and writes.
LEMMA AloneAfter ==
  ASSUME ViewTypes, ReloadAlone, [Next]_vars, writes' = writes, remote' = remote, ~Restart
  PROVE  ReloadAlone'
<1>1. CASE openJob' = openJob
  BY <1>1 DEF ReloadAlone
<1>2. CASE openJob' = None
  BY <1>2 DEF ReloadAlone
<1>3. CASE openJob' # None /\ openJob'.phase = "await"
  BY <1>3 DEF ReloadAlone
<1>4. CASE openJob' = Calling /\ ~WritesActive
  BY <1>4 DEF ReloadAlone, WritesActive, Calling
<1>5. CASE openJob = Calling /\ openJob' = Reading
  <2>1. Calling.phase = "call" /\ Reading.phase = "read" /\ Reading.read.viewed = remote
    BY DEF Calling, Reading
  <2>2. Calling # None
    BY NoneIsApart DEF Calling, OpenJobs
  <2> QED
    BY <1>5, <2>1, <2>2 DEF ReloadAlone
<1> QED
  BY <1>1, <1>2, <1>3, <1>4, <1>5, OpenJobSteps

\* A patient user reloads only while no write is under way.
LEMMA ReloadAloneStep ==
  ASSUME Impatient = FALSE, ViewTypes, ReloadAlone, [Next]_vars
  PROVE  ReloadAlone'
<1>1. CASE Restart
  <2>1. openJob' = Calling /\ writes' = NoWrites
    BY <1>1 DEF Restart
  <2>2. Calling.phase = "call" /\ \A f \in Files : NoWrites[f] = <<>>
    BY DEF Calling, NoWrites
  <2> QED
    BY <2>1, <2>2 DEF ReloadAlone
<1>2. CASE MarksAlone /\ ~Restart
  BY <1>2, AloneAfter DEF MarksAlone
<1>3. CASE OpenSucceeds
  BY <1>3 DEF OpenSucceeds, ReloadAlone
<1>4. CASE \E f \in Files : \E m \in BOOLEAN : MarkStep(f, m)
  <2>1. openJob = None /\ openJob' = openJob
    BY <1>4 DEF MarkStep, WaitsForReload
  <2> QED
    BY <2>1 DEF ReloadAlone
<1>5. CASE \E f \in Files : WriteApplies(f) \/ WriteSucceeds(f) \/ WriteFails(f)
  <2>1. PICK f \in Files : WriteApplies(f) \/ WriteSucceeds(f) \/ WriteFails(f)
    BY <1>5
  <2>2. writes[f] # <<>> /\ openJob' = openJob
    BY <2>1 DEF WriteApplies, WriteSucceeds, WriteFails, Sent, Applied, jobs
  <2> QED
    BY <2>2 DEF ReloadAlone
<1> QED
  BY <1>1, <1>2, <1>3, <1>4, <1>5, MarkKinds

\* A chain grows by the mark that is asked for.
LEMMA TieGrows ==
  ASSUME NEW w \in Seq(Writes), NEW m \in BOOLEAN, NEW v,
         v = Asked(w, m),
         NEW u, NEW c, NEW r, NEW f, NEW S, MarksOf(u, w, c, r, f, S)
  PROVE  MarksOf(m, v, c, r, f, S)
<1>1. /\ v \in Seq(Writes) /\ Len(v) = Len(w) + 1 /\ v # <<>>
      /\ v[Len(v)].value = m /\ v[Len(v)].phase = "sent"
      /\ \A i \in 1 .. Len(w) : v[i] = w[i]
      /\ Head(v) = v[1] /\ Len(w) \in Nat
  BY ChainGrows
<1>2. \A i \in 2 .. Len(v) : v[i].phase = "sent"
  BY <1>1 DEF MarksOf
<1>3. CASE w = <<>>
  <2>1. Head(v).phase = "sent"
    BY <1>1, <1>3
  <2> QED
    BY <1>1, <1>2, <1>3, <2>1 DEF MarksOf
<1>4. CASE w # <<>>
  <2>1. Head(v) = Head(w)
    BY <1>1, <1>4
  <2> QED
    BY <1>1, <1>2, <1>4, <2>1 DEF MarksOf
<1> QED
  BY <1>3, <1>4

\* GitHub carries out the first write.
LEMMA TieApplies ==
  ASSUME NEW w \in Seq(Writes), w # <<>>, NEW v, v = Carried(w),
         NEW u, NEW c, NEW r, NEW f, NEW S, MarksOf(u, w, c, r, f, S)
  PROVE  MarksOf(u, v, c, Head(w).value, f, S)
<1>1. /\ v \in Seq(Writes) /\ Len(v) = Len(w) /\ v # <<>>
      /\ Head(v).phase = "applied" /\ Head(v).value = Head(w).value
      /\ \A i \in 1 .. Len(w) : v[i].value = w[i].value
      /\ \A i \in 2 .. Len(w) : v[i] = w[i]
  BY ChainApplies
<1>2. Len(w) \in 1 .. Len(w)
  BY EmptySeq
<1> QED
  BY <1>1, <1>2 DEF MarksOf

\* A write that was carried out ends: with its answer the mark is confirmed.
LEMMA TieSucceeds ==
  ASSUME NEW w \in Seq(Writes), w # <<>>, Head(w).phase = "applied", NEW v, v = Tail(w),
         NEW u, NEW c, NEW r, NEW f, NEW S, MarksOf(u, w, c, r, f, S)
  PROVE  MarksOf(u, v, Head(w).value, r, f, S \ {f})
<1>1. /\ v \in Seq(Writes) /\ Len(v) = Len(w) - 1 /\ Len(w) \in Nat
      /\ \A i \in 1 .. Len(v) : v[i] = w[i + 1]
      /\ (v = <<>>) <=> (Len(w) = 1)
      /\ w[1] = Head(w)
      /\ v # <<>> => Head(v) = w[2]
      /\ v # <<>> => v[Len(v)] = w[Len(w)]
  BY ChainShrinks
<1>2. v # <<>> => Head(v).phase = "sent"
  <2>1. v # <<>> => 2 \in 2 .. Len(w)
    BY <1>1, EmptySeq
  <2> QED
    BY <1>1, <2>1 DEF MarksOf
<1>3. \A i \in 2 .. Len(v) : v[i].phase = "sent"
  BY <1>1 DEF MarksOf
<1>4. Head(w).value = r
  BY DEF MarksOf
<1>5. v = <<>> => u = Head(w).value
  BY <1>1 DEF MarksOf
<1>6. v # <<>> => v[Len(v)].value = u
  BY <1>1 DEF MarksOf
<1> QED
  BY <1>2, <1>3, <1>4, <1>5, <1>6 DEF MarksOf

\* A write that fails is forgotten: the last one puts the confirmed mark back.
LEMMA TieFails ==
  ASSUME NEW w \in Seq(Writes), w # <<>>, NEW v, v = Tail(w),
         NEW u, NEW c, NEW r, NEW f, NEW S, NEW T, NEW x,
         f \notin T => f \notin S /\ Head(w).phase # "applied",
         Len(w) > 1 => x = u, ~(Len(w) > 1) => x = c,
         MarksOf(u, w, c, r, f, S)
  PROVE  MarksOf(x, v, c, r, f, T)
<1>1. /\ v \in Seq(Writes) /\ Len(v) = Len(w) - 1 /\ Len(w) \in Nat
      /\ \A i \in 1 .. Len(v) : v[i] = w[i + 1]
      /\ (v = <<>>) <=> (Len(w) = 1)
      /\ w[1] = Head(w)
      /\ v # <<>> => Head(v) = w[2]
      /\ v # <<>> => v[Len(v)] = w[Len(w)]
  BY ChainShrinks
<1>0. Len(w) # 0
  BY EmptySeq
<1>2. v # <<>> => Len(w) > 1
  BY <1>0, <1>1
<1>3. v # <<>> => Head(v).phase = "sent"
  <2>1. v # <<>> => 2 \in 2 .. Len(w)
    BY <1>1, <1>2
  <2> QED
    BY <1>1, <2>1 DEF MarksOf
<1>4. \A i \in 2 .. Len(v) : v[i].phase = "sent"
  BY <1>1 DEF MarksOf
<1>5. f \notin T => c = r
  BY DEF MarksOf
<1>6. v = <<>> => x = c
  BY <1>1
<1>7. v # <<>> => v[Len(v)].value = x
  BY <1>1, <1>2 DEF MarksOf
<1> QED
  BY <1>3, <1>4, <1>5, <1>6, <1>7 DEF MarksOf

\* The marks on the screen stay tied to the writes and to the server.
LEMMA TieStep ==
  ASSUME ViewTypes, ReloadAlone, MarksTie, [Next]_vars
  PROVE  MarksTie'
<1>0. /\ writes \in [Files -> Seq(Writes)] /\ confirmed \in [Files -> BOOLEAN]
      /\ remote \in [Files -> BOOLEAN] /\ unsure \subseteq Files
  BY DEF ViewTypes, TypeOK
<1>1. CASE MarksAlone
  BY <1>1 DEF MarksAlone, MarksTie
<1>2. CASE Restart
  BY <1>2 DEF Restart, FreshUi, MarksTie
<1>3. CASE OpenSucceeds
  <2>1. openJob # None /\ openJob.phase = "read" /\ openJob.phase # "await"
    BY <1>3 DEF OpenSucceeds
  <2>2. openJob.read.viewed = remote /\ \A f \in Files : writes[f] = <<>>
    BY <2>1 DEF ReloadAlone
  <2>3. ui'.pull = openJob.read
    BY <1>3, OpenSucceedsShows DEF OpenShown
  <2>4. confirmed' = openJob.read.viewed /\ writes' = writes /\ remote' = remote
    BY <1>3 DEF OpenSucceeds, github
  <2>5. \A f \in Files : MarksOf(remote[f], <<>>, remote[f], remote[f], f, unsure')
    BY EmptySeq DEF MarksOf
  <2> QED
    BY <2>2, <2>3, <2>4, <2>5 DEF MarksTie
<1>4. ASSUME NEW f \in Files, NEW m \in BOOLEAN, MarkStep(f, m)
      PROVE  MarksTie'
  <2>1. /\ ui.pull \in Snapshots /\ ui'.pull.viewed = [ui.pull.viewed EXCEPT ![f] = m]
        /\ writes' = [writes EXCEPT ![f] = Asked(writes[f], m)]
        /\ UNCHANGED <<confirmed, remote, unsure>>
    BY <1>4 DEF MarkStep, Marked, Loaded
  <2>2. ui.pull # None /\ ui.pull.viewed \in [Files -> BOOLEAN]
    BY <2>1, NoneIsApart DEF Snapshots
  <2> DEFINE v == Asked(writes[f], m)
  <2>3. MarksOf(ui.pull.viewed[f], writes[f], confirmed[f], remote[f], f, unsure)
    BY <2>2 DEF MarksTie
  <2>4. writes[f] \in Seq(Writes)
    BY <1>0
  <2>5. v = Asked(writes[f], m)
    OBVIOUS
  <2> HIDE DEF v
  <2>6. MarksOf(m, v, confirmed[f], remote[f], f, unsure)
    BY <2>3, <2>4, <2>5, TieGrows
  <2>7. ui'.pull.viewed[f] = m /\ writes'[f] = v
    BY <1>0, <2>1, <2>2, <2>5
  <2>8. \A g \in Files \ {f} : ui'.pull.viewed[g] = ui.pull.viewed[g] /\ writes'[g] = writes[g]
    BY <1>0, <2>1, <2>2
  <2>9. \A g \in Files : MarksOf(ui.pull.viewed[g], writes[g], confirmed[g], remote[g], g, unsure)
    BY <2>2 DEF MarksTie
  <2>10. ASSUME NEW g \in Files
         PROVE  MarksOf(ui'.pull.viewed[g], writes'[g], confirmed[g], remote[g], g, unsure)
    <3>1. CASE g = f
      BY <2>6, <2>7, <3>1
    <3>2. CASE g # f
      BY <2>8, <2>9, <3>2
    <3> QED
      BY <3>1, <3>2
  <2> QED
    BY <2>1, <2>10 DEF MarksTie
<1>5. ASSUME NEW f \in Files, WriteApplies(f)
      PROVE  MarksTie'
  <2>1. /\ Loaded /\ writes[f] \in Seq(Writes) /\ writes[f] # <<>>
        /\ \A g \in Files \ {f} : writes'[g] = writes[g]
        /\ remote' = [remote EXCEPT ![f] = Head(writes[f]).value]
    BY <1>5, WriteAppliesStep
  <2>2. writes'[f] = Carried(writes[f])
    BY <1>5, WriteAppliesStep
  <2>3. ui.pull # None /\ ui' = ui /\ confirmed' = confirmed /\ unsure' = unsure
    BY <1>5, <2>1, NoneIsApart DEF WriteApplies, Loaded
  <2> DEFINE w == writes[f]
             v == writes'[f]
  <2>4. MarksOf(ui.pull.viewed[f], w, confirmed[f], remote[f], f, unsure)
    BY <2>3 DEF MarksTie
  <2>5. w \in Seq(Writes) /\ w # <<>> /\ v = Carried(w)
    BY <2>1, <2>2
  <2> HIDE DEF v, w
  <2>6. MarksOf(ui.pull.viewed[f], v, confirmed[f], Head(w).value, f, unsure)
    BY <2>4, <2>5, TieApplies
  <2>7. remote'[f] = Head(w).value /\ \A g \in Files \ {f} : remote'[g] = remote[g]
    BY <1>0, <2>1 DEF w
  <2>8. \A g \in Files : MarksOf(ui.pull.viewed[g], writes[g], confirmed[g], remote[g], g, unsure)
    BY <2>3 DEF MarksTie
  <2>9. ASSUME NEW g \in Files
        PROVE  MarksOf(ui.pull.viewed[g], writes'[g], confirmed[g], remote'[g], g, unsure)
    <3>1. CASE g = f
      BY <2>6, <2>7, <3>1 DEF v
    <3>2. CASE g # f
      BY <2>1, <2>7, <2>8, <3>2
    <3> QED
      BY <3>1, <3>2
  <2> QED
    BY <2>3, <2>9 DEF MarksTie
<1>6. ASSUME NEW f \in Files, WriteSucceeds(f)
      PROVE  MarksTie'
  <2>1. /\ Loaded /\ writes[f] \in Seq(Writes) /\ writes[f] # <<>>
        /\ writes'[f] = Tail(writes[f])
        /\ \A g \in Files \ {f} : writes'[g] = writes[g]
    BY <1>6, WriteEndsStep
  <2>2. /\ ui' = ui /\ remote' = remote /\ unsure' = unsure \ {f}
        /\ confirmed' = [confirmed EXCEPT ![f] = Head(writes[f]).value]
        /\ Head(writes[f]).phase = "applied" /\ ui.pull # None
    BY <1>6, <2>1, NoneIsApart DEF WriteSucceeds, Applied, github, Loaded
  <2> DEFINE w == writes[f]
             v == writes'[f]
  <2>4. MarksOf(ui.pull.viewed[f], w, confirmed[f], remote[f], f, unsure)
    BY <2>2 DEF MarksTie
  <2>5. w \in Seq(Writes) /\ w # <<>> /\ v = Tail(w) /\ Head(w).phase = "applied"
    BY <2>1, <2>2
  <2> HIDE DEF v, w
  <2>6. MarksOf(ui.pull.viewed[f], v, Head(w).value, remote[f], f, unsure \ {f})
    BY <2>4, <2>5, TieSucceeds
  <2>7. confirmed'[f] = Head(w).value /\ \A g \in Files \ {f} : confirmed'[g] = confirmed[g]
    BY <1>0, <2>2 DEF w
  <2>8. \A g \in Files : MarksOf(ui.pull.viewed[g], writes[g], confirmed[g], remote[g], g, unsure)
    BY <2>2 DEF MarksTie
  <2>9. ASSUME NEW g \in Files
        PROVE  MarksOf(ui.pull.viewed[g], writes'[g], confirmed'[g], remote[g], g, unsure')
    <3>1. CASE g = f
      BY <2>2, <2>6, <2>7, <3>1 DEF v
    <3>2. CASE g # f
      <4>1. (g \in unsure') <=> (g \in unsure)
        BY <2>2, <3>2
      <4> QED
        BY <2>1, <2>7, <2>8, <3>2, <4>1 DEF MarksOf
    <3> QED
      BY <3>1, <3>2
  <2> QED
    BY <2>2, <2>9 DEF MarksTie
<1>7. ASSUME NEW f \in Files, WriteFails(f)
      PROVE  MarksTie'
  <2>1. /\ Loaded /\ writes[f] \in Seq(Writes) /\ writes[f] # <<>>
        /\ writes'[f] = Tail(writes[f])
        /\ \A g \in Files \ {f} : writes'[g] = writes[g]
    BY <1>7, WriteEndsStep
  <2>2. /\ remote' = remote /\ confirmed' = confirmed
        /\ unsure' = IF Applied(f) THEN unsure \cup {f} ELSE unsure
    BY <1>7 DEF WriteFails, github
  <2>3. ui.pull # None /\ ui.pull \in Snapshots /\ ui.pull.viewed \in [Files -> BOOLEAN]
    BY <2>1, NoneIsApart DEF Loaded, Snapshots
  <2>4. /\ Len(writes[f]) > 1 => ui' = ui
        /\ ~(Len(writes[f]) > 1) => ui'.pull.viewed = [ui.pull.viewed EXCEPT ![f] = confirmed[f]]
    BY <1>7, WriteFailsShows DEF Marked
  <2> DEFINE w == writes[f]
             v == writes'[f]
             u == ui.pull.viewed[f]
             x == ui'.pull.viewed[f]
  <2>5. MarksOf(u, w, confirmed[f], remote[f], f, unsure)
    BY <2>3 DEF MarksTie
  <2>6. w \in Seq(Writes) /\ w # <<>> /\ v = Tail(w)
    BY <2>1
  <2>7. (Len(w) > 1 => x = u) /\ (~(Len(w) > 1) => x = confirmed[f])
    BY <2>3, <2>4
  <2>8. f \notin unsure' => f \notin unsure /\ Head(w).phase # "applied"
    BY <2>2, <2>6 DEF Applied
  <2>9. \A g \in Files \ {f} : ui'.pull.viewed[g] = ui.pull.viewed[g]
    BY <2>3, <2>4
  <2> HIDE DEF v, w, u, x
  <2>10. MarksOf(x, v, confirmed[f], remote[f], f, unsure')
    BY <2>5, <2>6, <2>7, <2>8, TieFails
  <2>11. \A g \in Files : MarksOf(ui.pull.viewed[g], writes[g], confirmed[g], remote[g], g, unsure)
    BY <2>3 DEF MarksTie
  <2>12. ASSUME NEW g \in Files
         PROVE  MarksOf(ui'.pull.viewed[g], writes'[g], confirmed[g], remote[g], g, unsure')
    <3>1. CASE g = f
      BY <2>10, <3>1 DEF x, v
    <3>2. CASE g # f
      <4>1. (g \in unsure') <=> (g \in unsure)
        BY <2>2, <3>2
      <4> QED
        BY <2>1, <2>9, <2>11, <3>2, <4>1 DEF MarksOf
    <3> QED
      BY <3>1, <3>2
  <2> QED
    BY <2>2, <2>12 DEF MarksTie
<1> QED
  BY <1>1, <1>2, <1>3, <1>4, <1>5, <1>6, <1>7, MarkKinds

\* The marks of the file list settle on what GitHub has once no write and no
\* reload is under way, whatever writes failed, for a user who marks no file
\* while a reload runs (mutateViewed does not wait for one).
THEOREM MarksSettle == ASSUME Impatient = FALSE PROVE Spec => []ViewedSettles
<1>1. Init => MarkInv
  BY DEF Init, FreshUi, Calling, NoWrites, MarkInv, ReloadAlone, MarksTie
<1>2. ViewTypes /\ MarkInv /\ [Next]_vars => MarkInv'
  BY ReloadAloneStep, TieStep DEF MarkInv
<1>3. MarkInv => ViewedSettles
  BY DEF MarkInv, MarksTie, MarksOf, ViewedSettles
<1> QED
  BY <1>1, <1>2, <1>3, InitTypes, StepTypes, PTL DEF Spec
=============================================================================
