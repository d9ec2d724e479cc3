----------------------------- MODULE WatchRuntime ------------------------------
(***************************************************************************)
(* Watch mode of the terminal review: WatchCoordinator                     *)
(* (src/watch/coordinator.rs) decides when to reload, WatchRuntime         *)
(* (src/watch/runtime.rs) loads the review and decides what of the result  *)
(* is shown, NativeObserver (src/watch/observer.rs) queues file events.    *)
(*                                                                         *)
(* Time is counted in units; a deadline is kept as the time left to it, 0  *)
(* once it is reached. The loop of the TUI polls in every unit, except     *)
(* that a load takes time, during which nothing else of the TUI runs.      *)
(* Errors only decide whether a toast is repeated and are left out.        *)
(***************************************************************************)
EXTENDS Integers, FiniteSets

CONSTANTS
  Quiet,        \* WatchIntervals.quiet: 200 ms
  Maximum,      \* WatchIntervals.maximum: 1 s
  Safety,       \* WatchIntervals.safety: 10 s
  PollSafety,   \* the safety interval without a native observer: 2 s
  MaxLoad,      \* bound: units a load takes
  MaxChanges,   \* bound: changes of the files under review
  Contents,     \* versions of the diff
  Empty,        \* a diff without files
  Broken,       \* files that cannot be loaded
  None

Loadable == Contents \cup {Empty}
Disk == Loadable \cup {Broken}
Deadlines(n) == 0..n \cup {None}

\* Without --watch only the reload key loads; with it, events of the native
\* observer and the safety interval do, or the safety interval alone.
Modes == {"manual", "poll", "observe"}

ASSUME WatchAssumption ==
  /\ {Quiet, Maximum, Safety, PollSafety} \subseteq Nat \ {0}
  /\ Quiet <= Maximum
  /\ MaxLoad \in Nat /\ MaxChanges \in Nat
  /\ Empty # Broken /\ Empty \notin Contents /\ Broken \notin Contents
  /\ None \notin Nat /\ None \notin Disk

VARIABLES
  disk,      \* what a load would find now
  changes,   \* how often the disk changed
  mode,
  events,    \* an unread event of the observer
  in_flight, dirty, quiet, maximum, safety,  \* WatchCoordinator
  manual_pending,
  applied,   \* applied_fingerprint
  shown,     \* the review on screen
  phase,     \* the TUI: "due" to poll in this unit, "polled", or "loading"
  loaded,    \* what the load in progress has read
  elapsed,   \* units since the poll that is loading
  hinted     \* history: units since the first event that no load has served

coordinator == <<in_flight, dirty, quiet, maximum, safety>>
world == <<disk, changes, mode>>
vars == <<world, events, coordinator, manual_pending, applied, shown,
          phase, loaded, elapsed, hinted>>

\* The value of every variable; a load is in flight exactly while poll runs it.
TypeOK ==
  /\ disk \in Disk /\ changes \in 0..MaxChanges /\ mode \in Modes
  /\ events \in BOOLEAN
  /\ in_flight \in BOOLEAN /\ dirty \in BOOLEAN
  /\ quiet \in Deadlines(Quiet) /\ maximum \in Deadlines(Maximum)
  /\ safety \in 0..Safety \cup 0..PollSafety
  /\ manual_pending \in BOOLEAN
  /\ applied \in Loadable /\ shown \in Loadable
  /\ phase \in {"due", "polled", "loading"}
  /\ loaded \in Disk \cup {None}
  /\ elapsed \in 0..MaxLoad
  /\ hinted \in Nat \cup {None}
  /\ in_flight <=> phase = "loading"

SafetyOf(m) == IF m = "poll" THEN PollSafety ELSE Safety

Init ==
  /\ shown \in Contents /\ disk = shown /\ applied = shown
  /\ changes = 0 /\ mode \in Modes /\ events = FALSE
  /\ in_flight = FALSE /\ dirty = FALSE
  /\ quiet = None /\ maximum = None /\ safety = SafetyOf(mode)
  /\ manual_pending = FALSE
  /\ phase = "due" /\ loaded = None /\ elapsed = 0
  /\ hinted = None

-----------------------------------------------------------------------------
\* Environment.

\* The files change; the observer may miss it.
FilesChange(d) ==
  /\ changes < MaxChanges
  /\ d # disk
  /\ disk' = d /\ changes' = changes + 1
  /\ events' \in IF mode = "observe" THEN {events, TRUE} ELSE {events}
  /\ UNCHANGED <<mode, coordinator, manual_pending, applied, shown, phase, loaded,
                 elapsed, hinted>>

\* Events of watched files that do not change the diff.
UnrelatedEvent ==
  /\ mode = "observe" /\ ~events
  /\ events' = TRUE
  /\ UNCHANGED <<world, coordinator, manual_pending, applied, shown, phase, loaded,
                 elapsed, hinted>>

TimeLeft(deadline) ==
  IF deadline = None THEN None ELSE IF deadline = 0 THEN 0 ELSE deadline - 1

\* One unit of time, which the loop of the TUI does not spend without a poll.
TimePasses ==
  /\ phase = "polled" \/ (phase = "loading" /\ elapsed < MaxLoad)
  /\ phase' = IF phase = "polled" THEN "due" ELSE phase
  /\ elapsed' = IF phase = "loading" THEN elapsed + 1 ELSE elapsed
  /\ quiet' = TimeLeft(quiet) /\ maximum' = TimeLeft(maximum) /\ safety' = TimeLeft(safety)
  /\ hinted' = IF hinted = None THEN None ELSE hinted + 1
  /\ UNCHANGED <<world, events, in_flight, dirty, manual_pending, applied, shown, loaded>>

-----------------------------------------------------------------------------
\* WatchCoordinator.

\* Mutant: every event pushes the maximum deadline back.
MaximumPushed == Maximum

\* event_hint, get_or_insert: the first event of a burst sets the maximum deadline.
MaximumAfterEvent == IF maximum = None THEN Maximum ELSE maximum

\* Mutant: the reload key only moves the quiet deadline.
ManualMaximumKept == MaximumAfterEvent

\* manual_hint sets both deadlines to now.
ManualMaximum == 0

\* manual_hint
ManualHint ==
  IF in_flight
    THEN dirty' = TRUE /\ UNCHANGED <<quiet, maximum>>
    ELSE quiet' = 0 /\ maximum' = ManualMaximum /\ UNCHANGED dirty

\* Mutant: without an event there is no reload.
EventDueOnly(q, x) == q = 0 \/ x = 0

\* tick is due: an event deadline or the safety deadline is reached.
Due(q, x) == q = 0 \/ x = 0 \/ safety = 0

\* finish, with the time of the poll that started the load.
Finish ==
  /\ in_flight' = FALSE
  /\ safety' = IF SafetyOf(mode) > elapsed THEN SafetyOf(mode) - elapsed ELSE 0
  /\ quiet' = IF dirty THEN 0 ELSE quiet
  /\ maximum' = IF dirty THEN 0 ELSE maximum
  /\ dirty' = FALSE

-----------------------------------------------------------------------------
\* WatchRuntime.

\* manual_reload, from the reload key of the loop.
ManualReload ==
  /\ phase # "loading"
  /\ ~manual_pending
  /\ manual_pending' = TRUE
  /\ ManualHint
  /\ UNCHANGED <<world, events, in_flight, safety, applied, shown, phase, loaded,
                 elapsed, hinted>>

\* poll up to the load: events are drained and become one hint; tick decides.
Poll ==
  LET quietNow == IF events THEN Quiet ELSE quiet
      maximumNow == IF events THEN MaximumAfterEvent ELSE maximum
      starts == (mode # "manual" \/ manual_pending) /\ Due(quietNow, maximumNow)
  IN /\ phase = "due"
     /\ events' = FALSE
     /\ \/ /\ starts
           /\ in_flight' = TRUE
           /\ quiet' = None /\ maximum' = None
           /\ manual_pending' = FALSE
           /\ phase' = "loading" /\ elapsed' = 0
           /\ hinted' = None
        \/ /\ ~starts
           /\ quiet' = quietNow /\ maximum' = maximumNow
           /\ hinted' = IF events /\ hinted = None THEN 0 ELSE hinted
           /\ phase' = "polled"
           /\ UNCHANGED <<in_flight, manual_pending, elapsed>>
     /\ UNCHANGED <<world, dirty, safety, applied, shown, loaded>>

\* reload_with_agent reads the files at some moment of the load.
LoadReads ==
  /\ phase = "loading" /\ loaded = None
  /\ loaded' = disk
  /\ UNCHANGED <<world, events, coordinator, manual_pending, applied, shown, phase,
                 elapsed, hinted>>

\* The fingerprint after a load.
AppliedAfter(found) == IF found = Broken THEN applied ELSE found

\* Mutant: a diff the files have already left behind is dropped, after its
\* fingerprint was recorded.
ShownIfCurrent(found) ==
  IF found \in {Broken, Empty, applied} \/ found # disk THEN shown ELSE found

\* A failure and an empty diff are only announced: the last review stays on
\* screen. A diff with the applied fingerprint is dropped.
ShownAfter(found) == IF found \in {Broken, Empty, applied} THEN shown ELSE found

\* The end of poll, and apply_watch_update.
LoadEnds ==
  /\ phase = "loading" /\ loaded # None
  /\ Finish
  /\ phase' = "polled" /\ elapsed' = 0 /\ loaded' = None
  /\ applied' = AppliedAfter(loaded)
  /\ shown' = ShownAfter(loaded)
  /\ UNCHANGED <<world, events, manual_pending, hinted>>

\* replace_input: a session reload loads another input, shows it, empty or not,
\* and replaces the runtime by a fresh one; when the load fails nothing changes.
ReplaceInput(d, m) ==
  /\ phase # "loading"
  /\ changes < MaxChanges /\ changes' = changes + 1
  /\ disk' = d /\ shown' = d /\ applied' = d
  /\ mode' = m
  /\ events' = FALSE /\ dirty' = FALSE
  /\ quiet' = None /\ maximum' = None /\ safety' = SafetyOf(m)
  /\ manual_pending' = FALSE
  /\ hinted' = None
  /\ UNCHANGED <<in_flight, phase, loaded, elapsed>>

-----------------------------------------------------------------------------
Next ==
  \/ \E d \in Disk : FilesChange(d)
  \/ UnrelatedEvent
  \/ TimePasses
  \/ ManualReload
  \/ Poll
  \/ LoadReads
  \/ LoadEnds
  \/ \E d \in Loadable, m \in Modes : ReplaceInput(d, m)

\* The loop of the TUI goes on and loads end. Nobody has to press the key.
Fairness == WF_vars(TimePasses) /\ WF_vars(Poll) /\ WF_vars(LoadReads) /\ WF_vars(LoadEnds)

Spec == Init /\ [][Next]_vars /\ Fairness

-----------------------------------------------------------------------------
\* Properties.

\* A burst of events cannot starve the reload: after a poll, an event that no
\* load has served yet is younger than the maximum delay (event_hint keeps the
\* maximum deadline of the first event, whatever follows).
BurstsAreServed == phase = "polled" /\ hinted # None => hinted < Maximum

\* The reload key is immediate: when a poll leaves it pending, the key was
\* pressed after that poll and the next one loads, even if events that poll
\* drains push the quiet deadline back.
ManualIsImmediate == manual_pending => Due(Quiet, maximum)

\* "Failures leave the last valid review visible": the review on screen is the
\* one the applied fingerprint stands for, unless that is the empty diff.
ShownIsApplied == shown = applied \/ applied = Empty

\* Watch mode catches up: once the files stay as they are, and can be loaded,
\* the review shows them, whether events were delivered or lost.
CatchesUp == <>[](mode # "manual" /\ disk \in Contents => shown = disk)
=============================================================================
