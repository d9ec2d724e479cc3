# A TLA+ model of Ramo

Ramo is a review tool for changesets: a terminal application (`src/`), a local
broker that lets agents talk to running terminals (`src/session/`), a server
that enriches pull requests with a locally generated Review Map
(`crates/ramo-server`), an Android app (`android/`) over a Rust core
(`crates/ramo-mobile`), and crates they share (`crates/ramo-core`,
`crates/ramo-github`). Paths below are relative to the repository; line
numbers are those of the modelled commit.

This directory holds one TLA+ module per modelled component, `MC*` modules and
`.cfg` files for TLC, and `*Proofs` modules for TLAPS. `PROJECT.json` maps each
definition to the lines it stands for and lists components, runs, mutants,
hazards, findings and theorems.

    tlc -workers 2 -config MCWatchRuntime.cfg MCWatchRuntime    # one run
    tlapm PartsProofs.tla                                       # one proof module

## Inventory

| component | state | operations | hard behaviour | module |
|---|---|---|---|---|
| Analysis coordinator (`ramo-server/src/analysis/coordinator.rs`) | jobs, `in_flight` by cache key, work channel of 64 | `resolve`, `retry`, `worker`, supersede on a new head | handlers interleave at every await; handler futures dropped on hang-up; model and head change meanwhile | `AnalysisCoordinator` |
| Session broker (`src/session/{daemon,registration,protocol}.rs`) | registry of live TUIs, pending requests, a connection and a registration thread per TUI | register, snapshot, ping, command with timeout, prune, exit, restart | threads, full queues, late answers, reconnects, kills | `SessionBroker` |
| Watch mode (`src/watch/*`, `apply_watch_update`) | deadlines, applied fingerprint, review on screen | event, poll, load, reload key, session reload | bursts, lost events, files that change during a load, failing loads | `WatchRuntime` |
| Review Map cache (`ramo-server/src/cache.rs`) | one file per key | `get`, `put`, `evict_locked`, `clear` | two processes on one directory, crash between steps, damaged files, ties of access time | `ReviewMapCache`, `LossyCache` |
| Android review screen (`ReviewViewModel.kt`, `DraftStore`, `ramo-mobile/src/lib.rs`, `ramo-github`) | screen, drafts and their store, session snapshot, marks on GitHub | open, select file, page, expand, toggle Viewed, draft, publish | coroutines that finish out of order or after cancellation, lost answers, process death, pushes | `ReviewViewModel` |
| Review controller (`src/review/*`), app loop (`src/app.rs`), session bridge (`src/session/bridge.rs`) | rows, cursor, notes, drafts, asks, viewed files, progress; screens, modes, prompts | key and mouse commands, reload, live comments, asks, publishing, quitting | a reload that takes away the row under the cursor; an agent's comment or an answer arriving while an editor is open; a post whose answer is lost; a quit from any mode | `ReviewNavigation`, `ReviewNotes`, `ReviewApp`, `DiffRows`, `ReviewGeometry` |
| Ask and chat (`src/ask`, `src/chat`) | conversations, one thread per question, transcript and pi session on disk | submit, answer, cancel, resume | answers for notes that are gone; a restart between a turn and its answer | `ReviewNotes`, `ChatPane` |
| Review Map in the TUI (`src/remote_review`, `src/review_map*`) | job poll, shown map, folding, marks | poll, merge, retry, filter | stale news of an earlier worker, a map of another head | `ReviewMapPane`, `SessionHttp` |
| GitHub publication from the TUI (`src/remote_review`) | notes to publish, verdict, body | head check, post | post accepted, answer lost; notes that change after the body was written | `ReviewApp` |
| Model back ends (`ramo-server/src/ollama`, `pi`, process executor) | attempt, child process, its pipes and output file | probe, ask, repair, kill | an attempt that reads the file of the one before; a deadline racing the exit | `ModelBackends` |
| Planner, batches, enrichment (`ramo-core`, `ramo-server/src/analysis`) | none | pure functions | limits hit exactly, partial and contradictory answers | `ReviewMapPlan` |
| Diff parser, cleaning of terminal text | none | pure functions | changed lines that look like headers, nested escapes | `DiffParser`, `TerminalText` |
| Version control (`src/vcs`, `src/loader`) | repository, index, work tree | git, jj, sapling commands, sources of context | ranges, staged and untracked files, large and binary files | `VcsInput` |
| Configuration and command line (`src/config`, `src/cli`) | user file, repository file | layering, migration, saving | a key spelled twice, sections written inline | `ConfigLayers` |
| Pairing (`ramo-server/src/pairing`, `auth`) | codes file, clients file, records in memory | issue, exchange, revoke, restart | two writers of one file without a lock, failed writes | `PairedClients` |
| Server setup (`ramo-server/src/setup`) | unit and endpoint files, running service | apply, roll back | any step failing, the roll back included | `ServerSetup` |
| Session command line and HTTP (`src/session/{http,client}.rs`) | none | read requests and answers, route, time out | messages cut anywhere, limits hit exactly | `SessionHttp` |
| Android inbox, notifications, Review Map and settings screens | pages, cursor, poll | refresh, page, notify | refresh racing a page | not modelled |
| GitHub API client, server routes and wire types, benchmark, markup, rendering, editor/tmux/pager/clipboard, Linear and startup notices | text, sockets | formatting, decoding, I/O | covered by unit tests, or outside the scope | not modelled |

How they interact. The TUI owns a `ReviewController`; its loop drains watch
updates, session requests and ask/chat answers between key presses. A TUI
registers with the broker over a local socket; a command-line call reaches the
daemon over HTTP, the daemon routes a `Command` frame to the TUI's connection,
the registration thread queues it for the app loop and the answer returns the
same way. The terminal and the phone both ask the server for a Review Map; the
server loads the pull request from GitHub, asks the analyzer for its identity,
looks in the cache, and otherwise queues one job for its single worker. The
phone reviews through `ramo-mobile`, which keeps an immutable session snapshot
per pull request and talks to GitHub.

What makes each part correct, in one sentence:
a coalesced request waits for a job of its own revision, and no map is shown
for another revision; an answer goes to the command it answers, and a TUI that
runs and is connected is listed; watch mode ends up showing the files; the cache
never answers with a map that was not stored for the key and stays within its
size; the phone loses no draft and shows what GitHub has; the terminal's cursor
is always on a row, and progress never goes back; an answer lands on the card of
its question, and text a reviewer wrote is saved or cancelled, never dropped; a
review is posted once and nobody leaves without having decided about it; a
resumed chat knows what was written; each attempt of a model stands by itself; a
credential works until it is revoked; a failed setup leaves what was there; a
diff, a configuration, a comparison and an HTTP message are read as they were
written.

## The modules

### AnalysisCoordinator

`calls[c]` is the future of one HTTP handler; its `pc` names the await it is
suspended at: loading the pull request, the analyzer's identity, the cache
read, the state lock, the send into the channel. `jobs`, `in_flight`, `queue`
and `worker` are the fields of the coordinator; `head` and `digest` are GitHub's
and Ollama's. What the code does under one lock is one action (`Coalesce`,
`Enqueue`, `WorkerBegin`, `WorkerFinish`); what it does across awaits is several.
`ClientDisconnect` drops a handler's future where it stands, which is what axum
does when the connection closes: between `Enqueue` and `SendWork` that leaves a
job nobody will run. The cache is abstracted to a function that may lose any
entry (`Evicted`); the real one is a module of its own. The analyzer is two
steps, the digest read and the answer, because a model can be replaced between
them (`ollama/client.rs:281`).

### SessionBroker

A connection `conns[c]` has an upward and a downward queue; `tuis[s]` is a
terminal with its app loop and registration thread, `registry[s]` the daemon's
entry for it and `callers[k]` a command-line request. `down` merges the route
channel (32 slots) with the socket behind it, a dead writer thread behaves like
a full route, and the `Registration` frame that follows a snapshot change is
folded into `Snapshot`. Time is abstract: `TtlPasses` marks a session that was
silent for 45 s, timeouts may fire whenever the answer has not arrived. Not
modelled: selectors by repository or path (they only read the registry),
oversized frames, partial reads, HTTP parsing.

### WatchRuntime

Time advances in ticks of the app loop; a deadline counts down to 0. A load
reads the files at one moment (`LoadReads`) and ends later (`LoadEnds`); files
may change in between. The load is synchronous inside `poll`, so `in_flight`
and `dirty` are as in the code but the branches that reject an outdated result
cannot be reached in the application today. `hinted` is a history variable: the
age of the oldest event no load has served.

### ReviewMapCache and LossyCache

`op` is the operation a process has under way with its program counter; every
file access is a step of its own, and `ClearRemoves` of another process, damage
and interruption may come between any two. Access times are whole seconds.
`LossyCache` is the promise: a map that forgets at will and never answers with
what was not the last map stored. `Kept` is the refinement mapping: the valid
entry in the file, or the one a lookup holds in memory and writes back.
`stored` and `bounded` are history variables. Only `clear` runs in the other
process; a second server on the same directory is not modelled.

### ReviewViewModel

`ui` is the state flow, with one variable per coroutine job (`openJob`,
`pageJob`, `expanding`, `writes`, `saving`, `publishJob`) and sets of stale jobs:
cancelling a coroutine does not stop the blocking call inside it, which still
replaces the session snapshot when it returns. `store` is the encrypted draft
file, `snapshot` the session of `ramo-mobile`, `head`, `remote` and `published`
GitHub. Line selection is the input of `OpenComment`; verdict, confirmation and
sheets are abstracted (`PublishRefused` may refuse). Marks on GitHub are changed
by this client only, sign-out is not modelled, and `reanchor` has no caller in the
app.

`Impatient = FALSE` is a user who waits for a reload, an expansion, a save and a
publication to end before the next tap that would race it. `DraftsArePersisted`
does not need it; see *What does not hold* for the others.

### ReviewNavigation

`view` is what the row plan is built from (the diff, filter, viewed and expanded
files, compaction of tests, cards), `cursor` the key of the selected row,
`reviewed` the changed lines that count as reviewed, `mapReviewed` the marks of the
Review Map. Each key, mouse or session command is one action; every change of
`view` ends in `rebuild`, which finds the cursor's new row in the order the code
tries: the same key, the nearest row of the hunk, of the file, the first row.
Each hunk has one changed line, so hunk and line numbers coincide; a file without
hunks has no selectable row. The viewport is any suffix-cut of the rows
(`observe_viewport_progress` chooses the lowest row on screen). Left out: context
lines and gaps, sides, wrapping, layout, scroll offsets, GitHub threads with their
trailer, pager mode, hiding agent notes.

### ReviewNotes

One turn of the application loop is four phases in the code's order: session
requests of agents, finished answers, one key or mouse event, a watch update;
`phase` says where the loop is and a worker thread may finish between any two
steps. `human`, `live` and `asks` are the notes by id (ids come from counters, so
the order of ids is the order of the vectors), `draft`, `askDraft`, `buf` and
`mode` the editor, `workers`, `updates` and `jobs` the ask runtime. Each session
command is one action, its refusal and the roll back of a half-added batch
included. The sanitiser of typed text is left out: a reviewer types printable text;
an agent's comment may be blank, malformed or made of control characters.

### ReviewApp

Screens and input modes with the keys each takes (`KeyActions` is what
`map_key_event` makes of a key), prompts, themes, preferences, chat draft, and the
way out: verdict, body, head check, post, discard, quit. A note is a number here;
`Push` moves the pull request, `AgentRemovesNote` is `comment rm` of a session. A
post may be accepted with its answer lost (`MaxLost`). Settings of the process
(local or pull request, own pull request, pager, preference prompt, Linear, chat)
are chosen initially.

### ChatPane

`convo` is the pane of the running process or `None`, `disk` the stored transcript,
`session` what pi's own session file has been told. A turn sends the delta of what
the reviewer wrote since the last turn and, after a lost session, a replay. The
process may stop at any step; entries on disk may be damaged. A text is its number.
`past` is history: `clean` until a call fails or is answered out of turn, `whole` until
a call that carried the thread fails, both good again after a restart without a session.
A pi child that outlives its process (`AskRuntime::drop` does not wait) is taken to be
gone, as if its deadline had come.

### ModelBackends

One analysis by `OllamaAnalyzer` or `PiAnalyzer`: probe, requests per batch and for
the synthesis, one repair, the child process with its stdin, its capture limit, its
deadline and its kill, and the file the extension writes. Whether an answer is
acceptable is `ReviewMapPlan`'s subject; here it is Good, Bad or Poor.

### ReviewMapPane

The controller of the pane (rows, folding, filter, selection, marks) and the
threads of the runtime that resolve and poll. The answers of ramo-server are
external: any status, a map of this head or another, any failure, in any order the
threads deliver them. `poll_review_map` takes its updates one step at a time, so that a
worker may send between two of them.

### PairedClients and ServerSetup

`PairedClients`: an operation on the codes file is a read and a later write, so that
command line and server interleave; the clients are under a mutex in one process;
any write may fail and the server restart at any time. `ServerSetup`: `apply_setup`
command by command, each of which may fail, and the roll back in its order.
systemd and Tailscale are external: a service is the unit it runs.

### DiffParser, DiffRows, TerminalText, ReviewGeometry, ReviewMapPlan, ConfigLayers, VcsInput, SessionHttp

Functions of their input, each with a reference definition of what it should
compute in the same module:

* `DiffParser`: `parse_unified_diff`; the reference renders a change the way git
  writes it and the parser must return it, line by line with numbers and paths.
* `DiffRows`: the rows of both layouts, gaps, comment ranges and the place of threads
  that come back from GitHub; the reference is the two texts in order.
* `TerminalText`: the three escape filters, and the moved marks from git's colours; the
  reference is the text the escapes were put into.
* `ReviewGeometry`: row heights and offsets, the anchor kept over a rebuild, wrapped
  notes with the caret, and copied selections.
* `ReviewMapPlan`: grouping, order, batches, validation, quality and merging.
* `ConfigLayers`: checks, layers, migration and saving; the reference is the last layer
  that names a setting.
* `VcsInput`: which system and commands, which files, which side context is read
  from; the reference compares two trees.
* `SessionHttp`: framing under any cut of the bytes, authority, routing, selectors and
  timeouts.

`Parts` composes the five state machines above: a behaviour is about one of them, and
the variables of the others stay unused. `MCAlgorithms` holds the bounded inputs of the
functions, `MCParts` the run: a behaviour of `Parts`, or a function that is given one
input.

## Runs

| run | bounds | shows |
|---|---|---|
| `analysis_safety` | 2 handlers, 1 pull request, 2 heads, 2 models, 2 jobs, channel of 1 | coalescing, provenance of maps, job life cycle |
| `analysis_live` | as above with 1 model; one client hangs up, one stays | every job of a client that stays is answered |
| `broker` | 1 TUI, 2 callers, 2 connections, 2 requests, 3 versions, queues of 1 and 2 | answers reach their own caller, no pending request leaks, the last snapshot arrives |
| `broker_link` | 1 TUI, 2 connections, 2 versions, a daemon restart | the registry routes to the connection that registered last until it is pruned; an exited TUI is unlisted in the end (3 connections with 1 version agree, in 3 minutes) |
| `watch` | quiet 1, maximum 5, safety 50 (10 when polling), loads of up to 12 ticks, 2 changes, 2 versions | bursts are served, the key is immediate, failures keep the review, it catches up |
| `cache` | 2 keys, 2 maps, sizes 1 and 2, limit 2, age 1, times 0..3 | refinement of `LossyCache`, size bound, no eviction of what was just used |
| `review` | 2 files (one of two pages), 2 heads, 2 texts, 7 inputs, 2 pending writes per file | drafts on disk, drafts kept, marks settle |
| `review_stale` | 1 file, 2 heads, 7 inputs | violation: an old draft is published on a newer revision |
| `navigation` | 2 diffs of 3 files (text, test, binary), up to 2 lines, 4 filters, 2 cards | the cursor has a row and keeps its place, progress is kept |
| `notes` | 2 files, 2 ranges (one inside the other), 1 note, 2 asks, 1 worker at a time, 2 cards, 1 request id | answers on their own cards, threads hold together, refused requests change nothing, text is saved or cancelled, questions settle |
| `app` | 5 settings, 1 note, 1 lost answer, 2 themes, 2 texts | every way out is decided, one review with the chosen body |
| `parts` | see below | thirteen parts, one property each |

Bounds of `parts`. Chat: 1 item of 1 version, 4 turns, 2 at a time, replay of 3.
Back ends: 2 batches and their synthesis, 1 chunk of output. Map pane: 2 groups, 1
retry, maps of 2 heads. Pairing: 2 codes, 2 clients, 2 operations at a time, expiry
after 1. Setup: with and without a previous unit and endpoint. Diffs: all scripts of
up to 5 lines with 0 to 2 lines of context, lines that begin with dashes, pairs of
all kinds of file, paths of up to 5 characters. Rows: scripts of up to 4 lines. Views,
plans, configurations, repositories and messages: the sets of `MCAlgorithms`, chosen
so that each limit is met exactly, passed by one and missed by one, and each pair of
layers, sides or cuts disagrees.

Why the bounds suffice for the interesting cases. Races between handlers need
two of them; superseding needs two heads, a stale result two digests, a blocked
sender a channel that one job fills. The broker's late answer needs two
requests, its late close two connections, a dropped
snapshot a queue shorter than the number of versions. In watch mode the
durations keep the order of the code's 200 ms, 1 s, 2 s and 10 s, with one
tick for the quiet delay, and loads may take longer than the maximum delay.
An eviction choice needs two entries that exceed the limit together, an expiry
and a tie three times. Seven inputs on the phone are enough to draft, edit,
lose an answer, reload after a push and publish. The caps `MaxHead`,
`MaxInputs`, `MaxVersion`, `MaxBoots`, `MaxConns`, `MaxRequests`, `MaxChanges`,
`MaxTime`, `WireBound` and `JobIds` stand in guards and name what they cap.
In `navigation` the second diff drops a file, adds one and takes away a line that
carries a card; the filters hide the test file, the others, or every file with lines.
In `notes` one worker at a time makes the second question a refused one, a range
inside the other makes it a follow-up, and a reload may take the file of either away.
In `app` one note is enough for a review to publish, and one lost answer for a retry.
`CHECK_DEADLOCK FALSE` is set where a run ends because such a bound is used up
or the system may rest: a broker with nobody running, a screen with no input
left, `analysis_live` with all job ids taken, an application that quit, a part that
has been given its input or whose setup, analysis or turns are over.

Fairness. `AnalysisCoordinator`: weak fairness of each handler and of the
worker; tokio polls every ready task, its channel wakes blocked senders, and
the analyzer is bounded by a timeout. Clients, pushes and model upgrades are
not fair. `SessionBroker`: threads run, a dead connection is noticed by its
reader, time passes, receivers use `recv_timeout`; users and the daemon's exit
are not fair. `WatchRuntime`: the loop polls, time passes and loads end; nobody
has to press the key and events may be lost. `ReviewNotes`: the loop keeps running
(its phases never block on anything but their own polls) and each worker sends,
because its pi process is killed at a deadline; nobody has to ask or to reload. The
other modules have safety properties only; "settles" on the
phone means: whenever nothing is under way.

Every property has a mutant in `PROJECT.json`: the definition as a plausible
mistake would have it, under which TLC reports the property violated.

## What does not hold

`review_stale` states what `docs/android.md:25` says, "publication is blocked and
drafts remain encrypted until you explicitly repair or delete them", and TLC refutes
it: `persistDrafts` stores drafts under the revision on screen, so the next save after
a push makes old drafts current.

Seen while modelling, without a run of their own (some of them are what a property is
restricted by):

*Server and broker*

* `docs/server.md:87`, "a newer head SHA removes older queued work":
  `cancel_stale_queued` cancels every queued job of another head, newer ones included,
  when the handler that loaded the old head takes the lock last (`coordinator.rs:424`).
* `QueuedJobsFinish` is restricted to clients that stay: the job of one that hangs up
  during the send stays queued, and `in_flight` keeps naming it.
* A model replaced between the digest read and the prompt yields a map cached under
  the old digest (`ollama/client.rs:281`); `EnrichmentMatchesKey` speaks of the digest
  the analyzer reported.
* `README.md:336`, the broker "prunes sessions silent for 45 seconds": a `Ping` does not
  refresh `last_seen` (`daemon.rs:565`), so an idle but connected TUI is pruned and, its
  connection being open, never registers again. `ConnectedIsListed` excludes pruning.
* `ConnectedIsListed` speaks of the connection that registered last: a `Register` frame
  served after its client gave up on the acknowledgement replaces the newer
  registration (`daemon.rs:57`).
* With `MaxBoots = 2`, `AnswerIsOwn` fails: request ids restart with the daemon
  (`daemon.rs:223`) and a TUI may still answer a command of the old one. Ids of live
  notes are made of them and collide as well.
* An HTTP head within three bytes of the limit is accepted or refused depending on how
  the reads are cut; the broker allows a body of 1 MiB, the client head and body together.
* Two clients that start the daemon at the same time: the shutdown of one can hit the
  compatible daemon the other just launched.
* The file of pairing codes is read and rewritten by command line and server without a
  lock: overlapping operations can lose or bring back a code. A revocation whose write
  fails leaves the record on disk.
* Setup: a failed write of the endpoint file is not undone; a previous file that cannot be
  read counts as absent and is removed by the roll back; a roll back starts a service
  that had been stopped. `FailedSetupIsUndone` excludes these.
* Analyzers: a poor answer is `AnalysisLowQuality` from Ollama and `AnalysisInvalid` from
  pi; the executor writes stdin before its deadline starts; descendants that hold the
  pipes delay the return past the deadline; an empty group is accepted.
* `enrichment_request` looks patches up by the raw path: a path with a backslash loses
  its patch while its coverage says Full.

*Phone*

* `docs/superpowers/specs/2026-07-27-android-pr-review-design.md:87`, "synced Viewed
  toggle": a screen loaded while a mark is being written keeps the old mark
  (`ReviewViewModel.kt:312`).
* With `Impatient = TRUE`, TLC breaks `ViewedSettles` (a reload reads the marks before a
  write lands) and `DraftsKept` (success clears a draft saved after Publish was pressed),
  and an expansion, never cancelled, replaces the screen of the file selected meanwhile.

*Terminal: moving about*

* `j` and `k` on a selected card continue from the first row of the review: `move_cursor`
  takes its position to be 0 (`state.rs:2303`; `README.md:348` says "next diff row").
* A click on the summary of a viewed file drops the effect of `expand_compacted_file`,
  and the map keeps its mark.
* `]` and `[` do not get past a collapsed file: its hunks are targets, the summary row
  they land on has no hunk, and the next press starts from the first target.
* A session's `navigate` to a file the filter hides answers Ok and lands elsewhere.
* A viewed file stays viewed after a reload that adds lines to it.
* `app.rs:2740` calls `set_screen` "the only writer of `screen` and `input_mode`":
  ToggleFocus in the map's filter sets the mode without the screen.
* A viewport captured with a header at the top is restored at the row below; with `-U0`
  gaps are numbered one off after a pure insertion.
* A caret after a trailing newline or space is drawn at the end of the last line; text of
  zero width is not shown in a wrapped note.

*Terminal: writing and leaving*

* With the tmux picker open, a click on a note replaces the draft: Enter then sends the
  old text and saves the other draft, Esc returns to Note mode without one.
* A reload that removes a file drops the open draft while the mode stays; saving an edit
  of a note removed meanwhile drops its text. `DraftSavedOrCancelled` names these cases.
* After Published, Esc in the save prompt returns to the review, and notes written then
  are never published; `DiscardRemoteReview` quits without asking about preferences.
* An agent's `comment rm` between the confirmation and the verdict makes the generated
  "N inline comments" stale; a lost answer of the post leads to a second review on retry.
* Ctrl-Q in an editor leaves the draft, or a previewed theme, behind.
* Chat, `README.md:414`, "ramo says so and replays the thread into the next question rather
  than pretending the model still remembers it": dispatching a turn switches the replay off
  (`app.rs:2010`). If that call fails, or the process ends while it runs, the next turn
  starts the session without the thread, and no restart replays it, since there is a
  session then. `ChatKeepsUp` held with three turns and failed with four; it now speaks of
  conversations in which no such call was lost (`past.whole`).
* Chat: up to three questions run at once against one session (`ask/runtime.rs:68`). pi may
  read an older prompt after a newer one, and the session is left with the old text of a
  note that the pane counts as told. A turn that fails has consumed its delta until a
  restart. `ChatKeepsUp` excludes both (`past.clean`), and damaged files.
* Chat: two terminals on one review overwrite each other's transcript; of more than 40
  fresh notes the newest are dropped yet counted as told.
* Review Map pane: a failed retry after an enriched map leaves "Analyzing" once the
  failure is dismissed; a retry joins the old worker and blocks until its read times out.

*Files*

* Migrating a configuration changes what it means when a setting is spelled twice, and a
  flat key whose section is an inline table is dropped; `set_value` saves nothing into an
  inline table. `ConfigIsHonoured` excludes inline sections for saving.
* `parse_git_patch` skips every line that starts with `--- ` or `+++ ` when it collects
  colours, so a removed line whose text begins with `-- ` shifts later moved marks
  (`git.rs:54`).
* `numstat -z` gives a rename an empty path: a very large rename becomes a placeholder
  with path "" ; a path removed from the index but on disk appears twice.
* Revisions and diff of a pull request are asked for separately: a push in between pairs
  a new diff with the old head.

## Proofs

TLAPS proves the safety properties of thirteen state machines for every value of
the constants. The assumptions are the named `ASSUME`s of the modules: bounds are
natural numbers, at least one question may run at a time and there is a batch to
analyse, `None`, `NoValue`, `NoRow`, `Damaged` and `Partial` lie outside the sets they are
added to, the empty text is a text, a diff is a sequence of files with a number of lines, and
the maps of the server are maps. Each
inductive invariant was checked by TLC on the run's instance before it was proved.
Every module has one lemma per action, and frame lemmas for the conjuncts a group of
actions leaves alone.

*AnalysisCoordinatorProofs.* `InFlightIsLive` is not inductive alone: that the
worker may clear `in_flight` for its job's key needs that the key names this very
job, which needs `OneAnalysis` (the only analyzing job is the worker's) and that
a job which is no longer queued is skipped. `EnrichmentMatchesKey` needs the
job's key to name its own pull request and head (`KeyOfJob`) and the worker's
outcome to be of the job's revision before it is published
(`WorkerCarriesData`); `TypeOK` needs what a handler has learnt before each
await (`CallsCarryData`). `CoordinatorInv` is their conjunction. `Invariance` gives
`TypeCorrect`, `CoalescingIsSound`, `SingleAnalysis` and `EnrichmentIsBound`;
`Monotonicity` (`JobsOnlyAdvance`) follows step by step from the same invariant.

*PartsProofs.* `PartsInvariant` says that each component of `Parts` keeps its own
inductive invariant.
`ChatIsTold` is the hardest: what a question can rely on is spread over the prompts under
way, the updates in the channel, the session and two copies of the transcript.
`ThreadIsKnown` says that every answered turn a replay would carry, on screen or on disk,
is in the session or in a prompt on its way there, and that a replay is due only before
the first call; `SentIsKnown` that each note, as it was last sent, is in the last prompt
under way that has it, or in the session with no prompt left to change it.
`AnswersStay` needs `JobsLand`: a job has one turn, waits in one place only, and its turn
is pending until the update is taken. The proof did not go through at first for a good
reason: TLC, with a fourth turn, showed the lost replay (*What does not hold*).
`AttemptsAreKeptApart` rests on `KeepsOwnAnswers` (one kept answer per finished request),
`OutputIsOwn` (the workspace holds what the attempt under way submitted),
`AttemptsAreCounted` and `ChildIsWatched`. `CredentialsLast` needs `DownIsIdle`: a server
that is down has no record in memory and no exchange under way. `SetupIsUndone` follows
`SetupProgress`, which says for each step of the run what has been written by then, and
`SetupRemembers`, that the roll back knows what there was.
`MapIsCurrent` holds for every map, not only those of the run. That the marked row is drawn
(`RowIsDrawn`) needs what the rows are for any groups: `FlattenType` says that
`FlattenSeq` of sequences of ids is one, with the solution of its recursion built by taking
a least length for which there is none (`FlatExists`). What the pane shows is `LastNewsShown`, which needs that a
worker at its end sent its outcome last (`WorkerOk`) and that the worker of the last
retry is the only one not cancelled, with all its updates still to be taken while the
one before is joined (`CurrentWorks`). `PercentIs` is arithmetic on finite sets: the
rounded percentage is 100 only for all files.
Watch mode is in the same module. `BurstsAreServed` bounds the age of an unserved event
after a poll; it needs that an unserved event keeps a maximum deadline, that age and
time left never exceed the maximum together (`HintIsTimed`), and that events
exist in observe mode only. `KeyIsTimed` does the same for the reload key, and
`ShownIsApplied` is inductive with `TypeOK`. `WatchInv` is their conjunction; the
theorems are `WatchTypeCorrect`, `BurstsServed`, `ManualServed` and `LastReviewStays`.
`RequestsArrive` and `ResponsesAreWhole` are the two properties of `SessionHttp` for
every limit, head, body and cut, where the run takes a few bytes of each. They assume that
the limits are numbers (`HttpLimits`), that bytes are those of the framing or others
(`Bytes`), and, for a request, that all of it is there in the end. `BlankFound` says where
the first blank line of a cut message is, `HeadIsRead` what the loop over the reads makes
of it.

*SessionBrokerProofs.* `LinkedIsListed` says that the late clean-up of an old
connection never removes a newer registration. It rests on generations: each is
given to one connection (`Generations`), a registration carries that of its
connection (`EntryOfConnection`), so the newest served connection is the one listed
(`NewestIsListed`). `QuietIsCurrent` follows a state on its way: the last thing
published is still in the outbound queue (`PublishedLast`), or the last frame that
carries a state has it, or the registry does (`Arrives`). `PendingIsWaitedFor` (a
pending request has its caller, and an answer the id of the request) holds for any
number of daemon processes. `AnswersAreOwn` assumes `MaxBoots = 1`, since ids start
again with the next process and the property then fails. `BrokerTyped` is `TypeOK`,
with the capacities of all queues.

*ReviewMapCacheProofs.* `CacheFits` (`SizeBounded`) is about `evict_locked`, whose list
of files is read one at a time while another process clears the directory. `Counted`
(every file is listed with its size or still to be read) bounds the directory by the
list; for `CacheKeepsJustUsed`, `Listing` and `OwnIsListed` make the operation's own
file the newest of the list, and `NoneIsNewer` says why. Facts about sums over finite
sets are proved from the library's fold over a set without an induction scheme, by
taking a minimal subset for which the claim fails. `CacheIsLossyMap` is the
refinement of `LossyCache`: initial states map to initial states and every step to
a step or a stutter, with `HeldIsFiled` (what a lookup holds is what its file says).

*ReviewViewModelProofs.* `DraftsOnDisk` (`DraftsArePersisted`) holds for every user.
`DraftsSurvive` and `MarksSettle` assume `Impatient = FALSE`: for a user who does not
wait they fail, as *What does not hold* says. `PublicationExact` says what that user
gives: a publication runs on the drafts that are on screen, and no save is under way
when success clears them. The marks need `MarksTie`, which says for one file how the
mark on screen, the chain of writes, the confirmed mark and GitHub's agree, and
`ReloadAlone`, that a reload past its wait reads what no write changes any more.
`ReviewTyped` needs `LoadedFirst`: nothing reads the pull request before it is loaded.

*ReviewNavigationProofs.* `NavInv` has the cursor on a row of the plan, and the
reviewed lines among those of the diff. `CursorStaysOnRow` needs that a non-empty plan
has a first, a last and a nearest row, so the module proves that finite sets of
numbers have a least and a greatest element and that rows are ordered by a position no
two of them share, also when test files come last. `PlaceIsKept` is the action
property `PlaceAndProgressKept`; `NavigationTyped` is `TypeOK`.

*ReviewNotesProofs.* `AnswersGoHome` needs ids that are given out once
(`IdsAreFresh`) and that a job names the card of its worker's question until its one
update is taken (`JobsAreKnown`). `ThreadsHold` needs that the question that waits is
the newest of its thread (`PendingIsNewest`) and that the question being written
fits its thread (`DraftFits`), although notes are deleted and files leave meanwhile.
`RefusalIsClean` and `NoTextIsLost` are the action properties `RefusedChangesNothing`
and `DraftSavedOrCancelled`; their invariant `NoteInv` says that the buffer of an
open editor is the text of its draft, also behind the pane picker. `NotesTyped` is
`TypeOK`, from both invariants and the type of the answers offered to the jump key,
which are the solution of a recursion (`KeptExists`, `OfferedTyped`).

*ReviewAppProofs.* `QuitDecided` and `ReviewOnce` need to know which prompts can be
open once the review was published or discarded (`SubmittedOnce`, `AskedInOrder`), and
that a saved text stays the text of the review (`ChosenStands`). `AppTypes` is `TypeOK`.

Only model-checked: liveness (`QueuedJobsFinish`, `ExitedIsUnlisted`, `CatchesUp`,
`QuestionsSettle`), which TLAPS cannot do under fairness; and the
properties of the parts that are functions, `SessionHttp` apart (above). What these compute for every input would
be inductions over data: the library's induction theorems take an operator as a parameter,
which none of the installed provers can instantiate. A least counterexample stands in for
induction where one is needed (`LeastNat`), which is out of proportion for whole
algorithms.

## Not modelled

* The GitHub API client, the server's routes and wire types: requests, status codes
  and decoding. Their outcomes are choices of the components that call them.
* Rendering, markup of notes, key tables and colours: what a row looks like. Its
  place and height are in `ReviewGeometry`.
* The editor, tmux, pager and clipboard programs, Linear look-ups, startup notices
  and the benchmark: I/O with other programs and no state shared with the rest.
* The phone's inbox, notification cursor, settings and Review Map screens; sign-out.
* `reanchor` (`drafts.rs`) and confinement of session paths: the first has no caller in
  the app, the second is a look-up in the file system.
* The start of a daemon by a session client, and the projection of a review to JSON.
* Quoting of paths in diffs, syntax highlighting, the path patterns of the planner and
  code owners: text functions; the planner takes the marks they give.

## Plan

1. The phone's inbox, notification cursor and Review Map screens, and the start of a
   daemon by a client.
2. Facts about the functions of the parts for every input, where they do not rest on an
   induction over data.
