-------------------------- MODULE ReviewNotesProofs --------------------------
(***************************************************************************)
(* Proofs about notes, questions and answers: an answer goes to its own    *)
(* card, threads hold together, a refused request changes nothing and no   *)
(* text of a note vanishes, for any files, lines, texts, agents and bounds.*)
(***************************************************************************)
EXTENDS ReviewNotes, SequenceTheorems, WellFoundedInduction, NaturalsInduction, TLAPS

Humans == [file : Files, body : Text]
Asks == [question : AskIds, thread : AskIds, file : Files, range : Ranges, state : States]
Jobs == [question : AskIds, st : {"running", "sent", "done"}]
Updates == [job : AskIds, question : AskIds, ok : BOOLEAN]

\* The partial functions are functions, and of their types.
IsFunction(f, S, T) == f \in [DOMAIN f -> T] /\ DOMAIN f \subseteq S

NoteTypes ==
  /\ IsFunction(human, NoteIds, Humans)
  /\ IsFunction(live, LiveIds, Files)
  /\ draft \in {None} \cup Drafts
  /\ buf \in Text
  /\ nextNote \in 1 .. MaxNotes + 1

AskTypes ==
  /\ files \subseteq Files
  /\ IsFunction(asks, AskIds, Asks)
  /\ askDraft \in {None} \cup AskDrafts
  /\ nextAsk \in 1 .. MaxAsks + 1
  /\ nextJob \in 1 .. nextAsk
  /\ IsFunction(workers, AskIds, Jobs)
  /\ updates \in Seq(Updates)
  /\ IsFunction(jobs, AskIds, AskIds)

\* Ids are given out once: what there is, is older than the counters.
IdsAreFresh ==
  /\ \A n \in DOMAIN asks : asks[n].question = n /\ n < nextAsk
  /\ askDraft # None =>
       /\ askDraft.question = askDraft.id /\ askDraft.id < nextAsk
       /\ nextJob < nextAsk
       /\ \A n \in DOMAIN asks : n < askDraft.id
  /\ \A j \in DOMAIN jobs \cup DOMAIN workers : j < nextJob
  /\ \A i \in 1 .. Len(updates) : updates[i].job < nextJob

\* A job names the card of the question its worker was given, until its one
\* update is taken from the channel.
JobsAreKnown ==
  /\ \A j \in DOMAIN workers : workers[j].st = "running" =>
       /\ j \in DOMAIN jobs /\ jobs[j] = workers[j].question
       /\ \A i \in 1 .. Len(updates) : updates[i].job # j
  /\ \A i \in 1 .. Len(updates) :
       updates[i].job \in DOMAIN jobs /\ jobs[updates[i].job] = updates[i].question
  /\ \A i, k \in 1 .. Len(updates) : updates[i].job = updates[k].job => i = k

\* The question that waits is the newest of its thread.
PendingIsNewest ==
  \A n, k \in DOMAIN asks :
    asks[n].state = Pending /\ asks[k].thread = asks[n].thread => k <= n

\* The question being written starts a thread, or follows up one that is not
\* waiting, about the same lines.
DraftFits ==
  askDraft # None =>
    \/ askDraft.thread = askDraft.id
    \/ /\ askDraft.thread \in DOMAIN asks /\ asks[askDraft.thread].thread = askDraft.thread
       /\ asks[askDraft.thread].file = askDraft.file /\ asks[askDraft.thread].range = askDraft.range
       /\ \A n \in DOMAIN asks : asks[n].thread = askDraft.thread => asks[n].state # Pending

AnswerInv == IdsAreFresh /\ JobsAreKnown /\ AnswersOwnQuestion
ThreadInv == ThreadsHoldTogether /\ PendingIsNewest /\ DraftFits

\* The buffer of an open note editor is the text of its draft, also while the
\* pane picker stands in for the editor; no question is asked meanwhile.
BufferIsDraft ==
  /\ mode \in {"Normal", "Note", "Ask"}
  /\ tmux \in [picking : BOOLEAN, note : BOOLEAN]
  /\ tmux.note => tmux.picking
  /\ mode = "Ask" => ~tmux.picking
  /\ (mode = "Note" \/ tmux.note) /\ draft # None => draft.body = buf

\* The answer to a request is gone before the loop leaves the requests.
ReplyIsTaken == phase # "requests" => reply = None

-----------------------------------------------------------------------------
(* Partial functions *)

\* A value is put under a key.
LEMMA WithIs ==
  ASSUME NEW f, NEW x, NEW v
  PROVE  /\ DOMAIN With(f, x, v) = DOMAIN f \cup {x}
         /\ With(f, x, v)[x] = v
         /\ \A y \in DOMAIN f \ {x} : With(f, x, v)[y] = f[y]
BY DEF With

\* Putting a value under a key keeps the type of a function.
LEMMA WithTyped ==
  ASSUME NEW S, NEW T, NEW f, IsFunction(f, S, T), NEW x \in S, NEW v \in T
  PROVE  IsFunction(With(f, x, v), S, T)
BY DEF With, IsFunction

\* Keys are taken away.
LEMMA RestrictedIs ==
  ASSUME NEW f, NEW K
  PROVE  /\ DOMAIN Restricted(f, K) = DOMAIN f \cap K
         /\ \A y \in DOMAIN f \cap K : Restricted(f, K)[y] = f[y]
BY DEF Restricted

\* So does taking keys away.
LEMMA RestrictedTyped ==
  ASSUME NEW S, NEW T, NEW f, IsFunction(f, S, T), NEW K
  PROVE  IsFunction(Restricted(f, K), S, T)
BY DEF Restricted, IsFunction

\* Taking away keys that are not there changes nothing.
LEMMA RestrictedAll ==
  ASSUME NEW S, NEW T, NEW f, IsFunction(f, S, T), NEW K, DOMAIN f \subseteq K
  PROVE  Restricted(f, K) = f
BY DEF Restricted, IsFunction

-----------------------------------------------------------------------------
(* The steps, as questions and answers see them *)

AskSame == UNCHANGED <<files, asks, askDraft, nextAsk, nextJob, workers, updates, jobs>>

\* A reload drops the cards of the files that left.
Dropping(fs) ==
  /\ files' = fs
  /\ asks' = Restricted(asks, {n \in AskIds : n \in DOMAIN asks /\ asks[n].file \in fs})
  /\ askDraft' = IF askDraft # None /\ askDraft.file \notin fs THEN None ELSE askDraft
  /\ UNCHANGED <<nextAsk, nextJob, workers, updates, jobs>>

Beginning(f, r, card) ==
  /\ f \in files /\ r \in Ranges
  /\ begin_ask(f, r, card)
  /\ UNCHANGED <<files, asks, nextJob, workers, updates, jobs>>

Discarding == askDraft' = None /\ UNCHANGED <<files, asks, nextAsk, nextJob, workers, updates, jobs>>

Dispatching(spawned) ==
  /\ askDraft # None /\ askDraft' = None
  /\ dispatch_ask(askDraft, spawned)
  /\ UNCHANGED <<files, nextAsk, updates>>

\* Every step is one of these to the questions.
LEMMA AskSteps ==
  ASSUME [Next]_vars
  PROVE  \/ AskSame \/ Discarding \/ poll_ask
         \/ \E fs \in SUBSET Files : Dropping(fs)
         \/ \E f, r, card : Beginning(f, r, card)
         \/ \E spawned \in BOOLEAN : Dispatching(spawned)
         \/ \E j : WorkerSends(j) \/ WorkerEnds(j)
<1>1. CASE UNCHANGED vars
  BY <1>1 DEF vars, asking, runtime, AskSame
<1>2. CASE apply_session_request
  <2>1. UNCHANGED <<nextAsk, nextJob, jobs, workers, updates>>
    BY <1>2 DEF apply_session_request, runtime
  <2>2. CASE apply_session_reload
    <3>1. \/ \E fs \in SUBSET Files : replace_files(fs)
          \/ UNCHANGED <<files, asks, askDraft>>
      BY <2>2 DEF apply_session_reload
    <3> QED
      BY <2>1, <3>1 DEF replace_files, Dropping, AskSame
  <2>3. CASE UNCHANGED <<files, asks, askDraft>>
    BY <2>1, <2>3 DEF AskSame
  <2> QED
    BY <1>2, <2>2, <2>3 DEF apply_session_request
<1>3. CASE apply_session_requests
  BY <1>3 DEF apply_session_requests, asking, runtime, AskSame
<1>4. CASE apply_watch_update
  <2>1. UNCHANGED <<nextAsk, nextJob, jobs, workers, updates>>
    BY <1>4 DEF apply_watch_update, runtime
  <2>2. \/ \E fs \in SUBSET Files : replace_files(fs)
        \/ UNCHANGED <<files, asks, askDraft>>
    BY <1>4 DEF apply_watch_update
  <2> QED
    BY <2>1, <2>2 DEF replace_files, Dropping, AskSame
<1>5. CASE handle_event
  <2>1. CASE StartNote \/ edit_focused_buffer \/ close_overlay \/ ClickNote \/ SendNote
             \/ SendSelection \/ handle_tmux_pick_key \/ jump_to_ask_answer \/ NoEvent
    BY <2>1 DEF StartNote, edit_focused_buffer, close_overlay, ClickNote, SendNote, SendSelection,
       handle_tmux_pick_key, jump_to_ask_answer, NoEvent, asking, runtime, AskSame
  <2>2. CASE start_ask
    BY <2>2 DEF start_ask, Beginning, runtime
  <2>3. CASE confirm_input
    <3>1. CASE ConfirmNote
      BY <2>3, <3>1 DEF confirm_input, ConfirmNote, AskSame
    <3>2. CASE ConfirmAsk
      BY <2>3, <3>2 DEF confirm_input, ConfirmAsk, Dispatching, Discarding
    <3> QED
      BY <2>3, <3>1, <3>2 DEF confirm_input
  <2>4. CASE cancel_input
    <3>1. askDraft' = None \/ askDraft' = askDraft
      BY <2>4 DEF cancel_input
    <3> QED
      BY <2>4, <3>1 DEF cancel_input, Discarding, AskSame, runtime
  <2> QED
    BY <1>5, <2>1, <2>2, <2>3, <2>4 DEF handle_event
<1> QED
  BY <1>1, <1>2, <1>3, <1>4, <1>5 DEF Next, Loop, Workers

-----------------------------------------------------------------------------
(* Types of the questions *)

\* A question joins the thread of a card there is, or starts one.
LEMMA RootIsCard ==
  ASSUME ThreadsHoldTogether, NEW f, NEW r, NEW card
  PROVE  \/ ask_thread_root(f, r, card) = 0
         \/ /\ ask_thread_root(f, r, card) \in DOMAIN asks
            /\ asks[ask_thread_root(f, r, card)].thread = ask_thread_root(f, r, card)
<1> DEFINE covering == {n \in DOMAIN asks : asks[n].file = f /\ asks[n].range[1] <= r[1] /\ r[1] <= asks[n].range[2]}
           matched == IF card \in DOMAIN asks THEN {card}
                      ELSE {n \in covering : \A k \in covering : k <= n}
           m == CHOOSE n \in matched : TRUE
<1>0. ask_thread_root(f, r, card) =
        IF \E n \in matched : asks[n].thread \in DOMAIN asks THEN asks[m].thread ELSE 0
  BY Zenon DEF ask_thread_root
<1>1. matched \subseteq DOMAIN asks
  OBVIOUS
<1> HIDE DEF matched
<1>2. CASE matched = {}
  BY <1>0, <1>2
<1>3. CASE matched # {}
  <2>1. m \in matched
    BY Zenon, <1>3
  <2> HIDE DEF m
  <2>2. m \in DOMAIN asks
    BY <1>1, <2>1
  <2>3. asks[m].thread \in DOMAIN asks /\ asks[asks[m].thread].thread = asks[m].thread
    BY <2>2 DEF ThreadsHoldTogether
  <2>4. ask_thread_root(f, r, card) = asks[m].thread
    BY <1>0, <2>1, <2>3
  <2> QED
    BY <2>3, <2>4
<1> QED
  BY <1>2, <1>3

AskInv == AskTypes /\ AnswerInv /\ ThreadInv

\* The three states of a card are apart.
LEMMA StatesApart ==
  /\ Pending # Failed /\ Pending \in States /\ Failed \in States
  /\ \A n \in AskIds : Answered(n) # Pending /\ Answered(n) \in States
BY DEF Pending, Failed, Answered, States

\* The updates in the channel name jobs and questions.
LEMMA UpdatesTyped ==
  ASSUME AskTypes
  PROVE  \A i \in 1 .. Len(updates) :
           updates[i] \in Updates /\ updates[i].job \in AskIds /\ updates[i].job \in Nat /\ updates[i].question \in AskIds
<1>1. updates \in Seq(Updates)
  BY DEF AskTypes
<1>2. \A i \in 1 .. Len(updates) : updates[i] \in Updates
  BY <1>1, ElementOfSeq
<1> QED
  BY <1>2 DEF Updates, AskIds

\* The invariant of the questions holds at the start.
LEMMA AskInit == Init => AskInv
<1> SUFFICES ASSUME Init PROVE AskInv
  OBVIOUS
<1>1. DOMAIN << >> = {} /\ Len(<< >>) = 0
  OBVIOUS
<1>2. IsFunction(asks, AskIds, Asks) /\ IsFunction(workers, AskIds, Jobs) /\ IsFunction(jobs, AskIds, AskIds)
  BY <1>1 DEF Init, IsFunction
<1>3. AskTypes
  BY <1>2, BoundsAreNatural DEF Init, AskTypes
<1>4. AnswerInv
  BY <1>1 DEF Init, AnswerInv, IdsAreFresh, JobsAreKnown, AnswersOwnQuestion, PendingIsAwaited
<1>5. ThreadInv
  BY <1>1 DEF Init, ThreadInv, ThreadsHoldTogether, PendingIsNewest, DraftFits
<1> QED
  BY <1>3, <1>4, <1>5 DEF AskInv

\* It is kept by a step that does not touch the questions,
LEMMA AskSameKept == ASSUME AskInv, AskSame PROVE AskInv'
<1>1. AskTypes'
  BY DEF AskInv, AskSame, AskTypes
<1>2. AnswerInv'
  BY DEF AskInv, AskSame, AnswerInv, IdsAreFresh, JobsAreKnown, AnswersOwnQuestion, PendingIsAwaited
<1>3. ThreadInv'
  BY DEF AskInv, AskSame, ThreadInv, ThreadsHoldTogether, PendingIsNewest, DraftFits
<1> QED
  BY <1>1, <1>2, <1>3 DEF AskInv

\* by discarding the question being written,
LEMMA DiscardingKept == ASSUME AskInv, Discarding PROVE AskInv'
<1>1. AskTypes'
  BY DEF AskInv, Discarding, AskTypes
<1>2. AnswerInv'
  BY DEF AskInv, Discarding, AnswerInv, IdsAreFresh, JobsAreKnown, AnswersOwnQuestion, PendingIsAwaited
<1>3. ThreadInv'
  BY DEF AskInv, Discarding, ThreadInv, ThreadsHoldTogether, PendingIsNewest, DraftFits
<1> QED
  BY <1>1, <1>2, <1>3 DEF AskInv

\* by a reload that drops files with their cards,
LEMMA DroppingKept == ASSUME AskInv, NEW fs \in SUBSET Files, Dropping(fs) PROVE AskInv'
<1>1. DOMAIN asks \subseteq AskIds
  BY DEF AskInv, AskTypes, IsFunction
<1>2. /\ DOMAIN asks' = {n \in DOMAIN asks : asks[n].file \in fs}
      /\ \A n \in DOMAIN asks' : asks'[n] = asks[n]
  <2> DEFINE K == {n \in AskIds : n \in DOMAIN asks /\ asks[n].file \in fs}
  <2>1. asks' = Restricted(asks, K) /\ DOMAIN asks \cap K = {n \in DOMAIN asks : asks[n].file \in fs}
    BY <1>1 DEF Dropping
  <2> HIDE DEF K
  <2> QED
    BY <2>1, RestrictedIs
<1>3. IsFunction(asks', AskIds, Asks)
  BY RestrictedTyped DEF Dropping, AskInv, AskTypes
<1>4. askDraft' # None => askDraft' = askDraft /\ askDraft # None /\ askDraft.file \in fs
  BY DEF Dropping
<1>5. AskTypes'
  BY <1>3, <1>4 DEF Dropping, AskInv, AskTypes
<1>6. UNCHANGED <<nextAsk, nextJob, workers, updates, jobs>>
  BY DEF Dropping
<1>7. IdsAreFresh' /\ JobsAreKnown'
  BY <1>2, <1>4, <1>6 DEF AskInv, AnswerInv, IdsAreFresh, JobsAreKnown
<1>8. AnswersOwnQuestion'
  BY <1>2, <1>6 DEF AskInv, AnswerInv, AnswersOwnQuestion, PendingIsAwaited
<1>9. ThreadsHoldTogether'
  BY <1>2 DEF AskInv, ThreadInv, ThreadsHoldTogether
<1>10. PendingIsNewest'
  BY <1>2 DEF AskInv, ThreadInv, PendingIsNewest
<1>11. DraftFits'
  BY <1>2, <1>4 DEF AskInv, ThreadInv, DraftFits
<1> QED
  BY <1>5, <1>7, <1>8, <1>9, <1>10, <1>11 DEF AskInv, AnswerInv, ThreadInv

\* by beginning a question or a follow-up,
LEMMA BeginningKept == ASSUME AskInv, NEW f, NEW r, NEW card, Beginning(f, r, card) PROVE AskInv'
<1> DEFINE root == ask_thread_root(f, r, card)
           thread == IF root = 0 THEN nextAsk ELSE root
           file == IF root = 0 THEN f ELSE asks[root].file
           range == IF root = 0 THEN r ELSE asks[root].range
<1>1. /\ nextAsk <= MaxAsks /\ (root = 0 \/ ~thread_is_pending(root))
      /\ askDraft' = [id |-> nextAsk, question |-> nextAsk, thread |-> thread, file |-> file, range |-> range]
      /\ nextAsk' = nextAsk + 1
  BY DEF Beginning, begin_ask
<1>2. root = 0 \/ (root \in DOMAIN asks /\ asks[root].thread = root)
  BY RootIsCard DEF AskInv, ThreadInv
<1>3. f \in Files /\ r \in Ranges
  BY DEF Beginning, AskInv, AskTypes
<1> HIDE DEF root
<1>4. nextAsk \in AskIds /\ nextAsk' \in 1 .. MaxAsks + 1 /\ nextJob \in 1 .. nextAsk' /\ nextJob < nextAsk'
  BY <1>1, BoundsAreNatural DEF AskInv, AskTypes, AskIds
<1>5. thread \in AskIds /\ file \in Files /\ range \in Ranges
  BY <1>2, <1>3, <1>4 DEF AskInv, AskTypes, IsFunction, Asks
<1> HIDE DEF thread, file, range
<1>6. askDraft' \in AskDrafts
  BY <1>1, <1>4, <1>5 DEF AskDrafts
<1>7. UNCHANGED <<files, asks, nextJob, workers, updates, jobs>>
  BY DEF Beginning
<1>8. AskTypes'
  BY <1>4, <1>6, <1>7 DEF AskInv, AskTypes
<1>9. askDraft'.id = nextAsk /\ askDraft'.question = nextAsk /\ askDraft'.thread = thread
      /\ askDraft'.file = file /\ askDraft'.range = range
  BY <1>1
<1>10. IdsAreFresh'
  <2>1. DOMAIN asks \subseteq Nat /\ nextAsk \in Nat
    BY <1>4 DEF AskInv, AskTypes, IsFunction, AskIds
  <2>2. \A n \in DOMAIN asks : asks[n].question = n /\ n < nextAsk' /\ n < nextAsk
    BY <1>1, <2>1 DEF AskInv, AnswerInv, IdsAreFresh
  <2>3. nextAsk < nextAsk'
    BY <1>1, <2>1
  <2> QED
    BY <1>4, <1>7, <1>9, <2>2, <2>3 DEF AskInv, AnswerInv, IdsAreFresh
<1>11. JobsAreKnown' /\ AnswersOwnQuestion'
  BY <1>7 DEF AskInv, AnswerInv, JobsAreKnown, AnswersOwnQuestion, PendingIsAwaited
<1>12. ThreadsHoldTogether' /\ PendingIsNewest'
  BY <1>7 DEF AskInv, ThreadInv, ThreadsHoldTogether, PendingIsNewest
<1>13. DraftFits'
  <2>1. CASE root = 0
    <3>1. thread = nextAsk
      BY <2>1 DEF thread
    <3> QED
      BY <1>9, <3>1 DEF DraftFits
  <2>2. CASE root # 0
    <3>1. thread = root /\ file = asks[root].file /\ range = asks[root].range
      BY <2>2 DEF thread, file, range
    <3>2. ASSUME NEW n \in DOMAIN asks, asks[n].thread = root PROVE asks[n].state # Pending
      <4>1. SUFFICES ASSUME asks[n].state = Pending PROVE FALSE
        OBVIOUS
      <4>2. \A k \in DOMAIN asks : asks[k].thread = root => k <= n
        BY <3>2, <4>1 DEF AskInv, ThreadInv, PendingIsNewest
      <4> QED
        BY <1>1, <2>2, <3>2, <4>1, <4>2 DEF thread_is_pending
    <3> QED
      BY <1>2, <1>7, <1>9, <2>2, <3>1, <3>2 DEF DraftFits
  <2> QED
    BY <2>1, <2>2
<1> QED
  BY <1>8, <1>10, <1>11, <1>12, <1>13 DEF AskInv, AnswerInv, ThreadInv

\* The card of a dispatched question.
Card(d, st) == [question |-> d.question, thread |-> d.thread, file |-> d.file, range |-> d.range, state |-> st]

\* The dispatched question has its card: it waits with a new job and a worker,
\* or it failed and nothing was started.
Dispatched(st) ==
  /\ asks' = With(asks, askDraft.id, Card(askDraft, st))
  /\ \/ /\ st = Pending
        /\ workers' = With(reap(workers), nextJob, [question |-> askDraft.question, st |-> "running"])
        /\ jobs' = With(jobs, nextJob, askDraft.id) /\ nextJob' = nextJob + 1
     \/ st = Failed /\ workers' = reap(workers) /\ jobs' = jobs /\ nextJob' = nextJob

\* A dispatched question waits with a worker, or has failed without one.
LEMMA DispatchedIs ==
  ASSUME NEW spawned \in BOOLEAN, Dispatching(spawned)
  PROVE  Dispatched(Pending) \/ Dispatched(Failed)
<1> DEFINE ok == spawned /\ Cardinality(DOMAIN reap(workers)) < MAX_CONCURRENT_ASKS
<1>1. dispatch_ask(askDraft, spawned)
  BY DEF Dispatching
<1>2. /\ asks' = With(asks, askDraft.id, Card(askDraft, IF ok THEN Pending ELSE Failed))
      /\ workers' = IF ok THEN With(reap(workers), nextJob, [question |-> askDraft.question, st |-> "running"])
                    ELSE reap(workers)
      /\ jobs' = IF ok THEN With(jobs, nextJob, askDraft.id) ELSE jobs
      /\ nextJob' = IF ok THEN nextJob + 1 ELSE nextJob
  BY <1>1 DEF dispatch_ask, Card
<1> HIDE DEF ok
<1>3. CASE ok
  BY <1>2, <1>3 DEF Dispatched
<1>4. CASE ~ok
  BY <1>2, <1>4 DEF Dispatched
<1> QED
  BY <1>3, <1>4

\* Workers that are done are forgotten, no others.
LEMMA Reaped ==
  ASSUME AskTypes
  PROVE  /\ DOMAIN reap(workers) = {j \in DOMAIN workers : workers[j].st # "done"}
         /\ \A j \in DOMAIN reap(workers) : reap(workers)[j] = workers[j]
         /\ IsFunction(reap(workers), AskIds, Jobs)
<1> DEFINE K == {j \in DOMAIN workers : workers[j].st # "done"}
<1>1. reap(workers) = Restricted(workers, K) /\ DOMAIN workers \cap K = K
  BY DEF reap
<1>2. IsFunction(reap(workers), AskIds, Jobs)
  BY <1>1, RestrictedTyped DEF AskTypes
<1>3. DOMAIN reap(workers) = K
  BY <1>1, RestrictedIs
<1>4. \A j \in K : reap(workers)[j] = workers[j]
  <2> HIDE DEF K
  <2> QED
    BY <1>1 DEF Restricted
<1> QED
  BY <1>2, <1>3, <1>4

\* The invariant is kept by dispatching a question,
LEMMA DispatchingKept == ASSUME AskInv, NEW spawned \in BOOLEAN, Dispatching(spawned) PROVE AskInv'
<1>0. AskTypes /\ IdsAreFresh /\ JobsAreKnown /\ AnswersOwnQuestion /\ ThreadsHoldTogether
      /\ PendingIsNewest /\ DraftFits
  BY DEF AskInv, AnswerInv, ThreadInv
<1>1. PICK st \in {Pending, Failed} : Dispatched(st)
  BY DispatchedIs
<1>2. askDraft # None /\ askDraft' = None /\ UNCHANGED <<files, nextAsk, updates>>
  BY DEF Dispatching
<1> DEFINE id == askDraft.id
           card == Card(askDraft, st)
<1>3. askDraft \in AskDrafts
  BY <1>0, <1>2 DEF AskTypes
<1>4. /\ id \in AskIds /\ askDraft.question = id /\ id < nextAsk /\ nextJob < nextAsk
      /\ \A n \in DOMAIN asks : n < id
  BY <1>0, <1>2, <1>3 DEF IdsAreFresh, AskDrafts
<1>5. DOMAIN asks \subseteq Nat /\ id \in Nat /\ nextAsk \in Nat /\ nextJob \in Nat /\ DOMAIN asks \subseteq AskIds
      /\ nextJob \in AskIds
  BY <1>0, <1>4, BoundsAreNatural DEF AskTypes, IsFunction, AskIds
<1>6. id \notin DOMAIN asks
  BY <1>4, <1>5
<1>7. card \in Asks
  BY <1>1, <1>3, StatesApart DEF Card, Asks, AskDrafts
<1>8. /\ card.question = id /\ card.thread = askDraft.thread /\ card.file = askDraft.file
      /\ card.range = askDraft.range /\ card.state = st
  BY <1>4 DEF Card
<1>9. asks' = With(asks, id, card)
  BY <1>1 DEF Dispatched
<1>10. id = askDraft.id
  OBVIOUS
<1> HIDE DEF id, card
<1>11. /\ DOMAIN asks' = DOMAIN asks \cup {id} /\ asks'[id] = card
       /\ \A n \in DOMAIN asks : asks'[n] = asks[n]
  BY <1>6, <1>9 DEF With
<1>12. IsFunction(asks', AskIds, Asks)
  BY <1>0, <1>4, <1>7, <1>9, WithTyped DEF AskTypes
<1>13. /\ \A j \in DOMAIN workers : workers[j].st = "running" => j \in DOMAIN workers' /\ workers'[j] = workers[j]
       /\ \A j \in DOMAIN workers' \ {nextJob} : j \in DOMAIN workers /\ workers'[j] = workers[j]
       /\ IsFunction(workers', AskIds, Jobs)
       /\ \A j \in DOMAIN jobs : j \in DOMAIN jobs' /\ jobs'[j] = jobs[j]
       /\ \A j \in DOMAIN jobs' \ {nextJob} : j \in DOMAIN jobs
       /\ IsFunction(jobs', AskIds, AskIds)
       /\ nextJob \in DOMAIN workers' => st = Pending
       /\ st = Pending =>
            /\ nextJob \in DOMAIN workers' /\ workers'[nextJob].st = "running" /\ workers'[nextJob].question = id
            /\ nextJob \in DOMAIN jobs' /\ jobs'[nextJob] = id
       /\ nextJob \in DOMAIN jobs' => nextJob' = nextJob + 1
       /\ nextJob' \in {nextJob, nextJob + 1}
       /\ st = Pending => nextJob' = nextJob + 1
  <2>1. nextJob \notin DOMAIN jobs /\ nextJob \notin DOMAIN workers
    BY <1>0, <1>5 DEF IdsAreFresh
  <2>2. /\ DOMAIN reap(workers) = {j \in DOMAIN workers : workers[j].st # "done"}
        /\ \A j \in DOMAIN reap(workers) : reap(workers)[j] = workers[j]
        /\ IsFunction(reap(workers), AskIds, Jobs)
    BY <1>0, Reaped
  <2>3. CASE st = Failed
    <3>1. workers' = reap(workers) /\ jobs' = jobs /\ nextJob' = nextJob
      BY <1>1, <2>3, StatesApart DEF Dispatched
    <3> QED
      BY <1>0, <2>1, <2>2, <2>3, <3>1, StatesApart DEF AskTypes
  <2>4. CASE st = Pending
    <3> DEFINE job == [question |-> askDraft.question, st |-> "running"]
    <3>1. workers' = With(reap(workers), nextJob, job) /\ jobs' = With(jobs, nextJob, id) /\ nextJob' = nextJob + 1
      BY <1>1, <1>10, <2>4, StatesApart DEF Dispatched
    <3>2. job \in Jobs /\ job.st = "running" /\ job.question = id
      BY <1>4, <1>10 DEF Jobs
    <3> HIDE DEF job
    <3>3. /\ DOMAIN workers' = DOMAIN reap(workers) \cup {nextJob} /\ workers'[nextJob] = job
          /\ \A j \in DOMAIN reap(workers) \ {nextJob} : workers'[j] = reap(workers)[j]
      BY <3>1 DEF With
    <3>4. /\ DOMAIN jobs' = DOMAIN jobs \cup {nextJob} /\ jobs'[nextJob] = id
          /\ \A j \in DOMAIN jobs \ {nextJob} : jobs'[j] = jobs[j]
      BY <3>1 DEF With
    <3>5. IsFunction(workers', AskIds, Jobs)
      BY <1>5, <2>2, <3>1, <3>2, WithTyped
    <3>6. IsFunction(jobs', AskIds, AskIds)
      BY <1>0, <1>4, <1>5, <3>1, WithTyped DEF AskTypes
    <3>7. \A j \in DOMAIN workers : workers[j].st = "running" => j \in DOMAIN workers' /\ workers'[j] = workers[j]
      BY <2>1, <2>2, <3>3
    <3>8. \A j \in DOMAIN workers' \ {nextJob} : j \in DOMAIN workers /\ workers'[j] = workers[j]
      BY <2>2, <3>3
    <3> QED
      BY <2>1, <2>4, <3>1, <3>2, <3>3, <3>4, <3>5, <3>6, <3>7, <3>8
  <2> QED
    BY <1>1, <2>3, <2>4
<1>14. AskTypes'
  BY <1>2, <1>4, <1>5, <1>12, <1>13 DEF AskTypes, AskInv
<1>15. IdsAreFresh'
  <2>1. \A n \in DOMAIN asks' : asks'[n].question = n /\ n < nextAsk'
    BY <1>0, <1>2, <1>4, <1>8, <1>11 DEF IdsAreFresh
  <2>2. DOMAIN jobs \subseteq Nat /\ DOMAIN workers \subseteq Nat
    BY <1>0 DEF AskTypes, IsFunction, AskIds
  <2>3. \A j \in DOMAIN jobs' \cup DOMAIN workers' : j < nextJob'
    BY <1>0, <1>5, <1>13, <2>2 DEF IdsAreFresh
  <2>4. \A i \in 1 .. Len(updates) : updates[i].job \in Nat
    BY <1>0, UpdatesTyped
  <2>5. \A i \in 1 .. Len(updates) : updates[i].job < nextJob'
    BY <1>0, <1>5, <1>13, <2>4 DEF IdsAreFresh
  <2> QED
    BY <1>2, <2>1, <2>3, <2>5 DEF IdsAreFresh
<1>16. JobsAreKnown'
  <2>1. \A i \in 1 .. Len(updates) : updates[i].job # nextJob
    <3>1. \A i \in 1 .. Len(updates) : updates[i].job \in Nat
      BY <1>0, UpdatesTyped
    <3> QED
      BY <1>0, <1>5, <3>1 DEF IdsAreFresh
  <2>2. ASSUME NEW j \in DOMAIN workers', workers'[j].st = "running"
        PROVE  /\ j \in DOMAIN jobs' /\ jobs'[j] = workers'[j].question
               /\ \A i \in 1 .. Len(updates) : updates[i].job # j
    <3>1. CASE j = nextJob
      BY <1>13, <2>1, <3>1
    <3>2. CASE j # nextJob
      <4>1. j \in DOMAIN workers /\ workers'[j] = workers[j]
        BY <1>13, <2>2, <3>2
      <4> QED
        BY <1>0, <1>13, <2>2, <4>1 DEF JobsAreKnown
    <3> QED
      BY <3>1, <3>2
  <2>3. \A i \in 1 .. Len(updates) :
          updates[i].job \in DOMAIN jobs' /\ jobs'[updates[i].job] = updates[i].question
    BY <1>0, <1>13 DEF JobsAreKnown
  <2> QED
    BY <1>0, <1>2, <2>2, <2>3 DEF JobsAreKnown
<1>17. AnswersOwnQuestion'
  <2>1. \A n \in DOMAIN asks' : asks'[n].state \in {Pending, Failed, Answered(asks'[n].question)}
    BY <1>0, <1>1, <1>8, <1>11 DEF AnswersOwnQuestion
  <2>2. ASSUME NEW n \in DOMAIN asks', asks'[n].state = Pending
        PROVE  \E j \in DOMAIN jobs' : /\ jobs'[j] = n
                           /\ \/ j \in DOMAIN workers' /\ workers'[j].st = "running"
                              \/ \E i \in DOMAIN updates' : updates'[i].job = j
    <3>1. CASE n = id
      BY <1>8, <1>11, <1>13, <2>2, <3>1
    <3>2. CASE n # id
      <4>1. n \in DOMAIN asks /\ asks[n].state = Pending
        BY <1>11, <2>2, <3>2
      <4>2. PICK j \in DOMAIN jobs : /\ jobs[j] = n
                           /\ \/ j \in DOMAIN workers /\ workers[j].st = "running"
                              \/ \E i \in DOMAIN updates : updates[i].job = j
        BY <1>0, <4>1 DEF AnswersOwnQuestion, PendingIsAwaited
      <4> QED
        BY <1>2, <1>13, <4>2
    <3> QED
      BY <3>1, <3>2
  <2> QED
    BY <2>1, <2>2 DEF AnswersOwnQuestion, PendingIsAwaited
<1>18. ThreadsHoldTogether' /\ PendingIsNewest'
  <2>1. DraftFits /\ ThreadsHoldTogether /\ PendingIsNewest
    BY <1>0
  <2>2. \/ card.thread = id
        \/ /\ card.thread \in DOMAIN asks /\ asks[card.thread].thread = card.thread
           /\ asks[card.thread].file = card.file /\ asks[card.thread].range = card.range
           /\ \A n \in DOMAIN asks : asks[n].thread = card.thread => asks[n].state # Pending
    BY <1>2, <1>8, <1>10, <2>1 DEF DraftFits
  <2>3. \A n \in DOMAIN asks : asks[n].thread \in DOMAIN asks /\ asks[n].thread # id
    BY <1>6, <2>1 DEF ThreadsHoldTogether
  <2>4. \A n \in DOMAIN asks : asks[n].thread = card.thread => asks[n].state # Pending
    BY <2>2, <2>3
  <2>5. ThreadsHoldTogether'
    BY <1>6, <1>8, <1>11, <2>1, <2>2, <2>3, <2>4 DEF ThreadsHoldTogether
  <2>6. PendingIsNewest'
    BY <1>4, <1>5, <1>8, <1>11, <2>1, <2>4 DEF PendingIsNewest
  <2> QED
    BY <2>5, <2>6
<1>19. DraftFits'
  BY <1>2 DEF DraftFits
<1> QED
  BY <1>14, <1>15, <1>16, <1>17, <1>18, <1>19 DEF AskInv, AnswerInv, ThreadInv

\* A worker moves on to another stage.
LEMMA WorkerMoves ==
  ASSUME AskTypes, NEW j \in DOMAIN workers, NEW st \in {"sent", "done"},
         workers' = [workers EXCEPT ![j].st = st]
  PROVE  /\ DOMAIN workers' = DOMAIN workers /\ IsFunction(workers', AskIds, Jobs)
         /\ workers'[j].st = st
         /\ \A k \in DOMAIN workers \ {j} : workers'[k] = workers[k]
<1>1. workers \in [DOMAIN workers -> Jobs] /\ DOMAIN workers \subseteq AskIds
  BY DEF AskTypes, IsFunction
<1>2. workers[j] \in Jobs
  BY <1>1
<1> DEFINE w == [workers[j] EXCEPT !.st = st]
<1>3. w \in Jobs /\ w.st = st
  BY <1>2 DEF Jobs
<1>4. workers' = [workers EXCEPT ![j] = w]
  OBVIOUS
<1> HIDE DEF w
<1> QED
  BY <1>1, <1>3, <1>4 DEF IsFunction

\* by a worker thread that ends,
LEMMA WorkerEndsKept == ASSUME AskInv, NEW j, WorkerEnds(j) PROVE AskInv'
<1>0. AskTypes /\ IdsAreFresh /\ JobsAreKnown /\ AnswersOwnQuestion /\ ThreadInv
  BY DEF AskInv, AnswerInv
<1>1. /\ j \in DOMAIN workers /\ workers[j].st = "sent"
      /\ workers' = [workers EXCEPT ![j].st = "done"]
      /\ UNCHANGED <<files, asks, askDraft, nextAsk, nextJob, updates, jobs>>
  BY DEF WorkerEnds, asking
<1>2. /\ DOMAIN workers' = DOMAIN workers /\ IsFunction(workers', AskIds, Jobs)
      /\ workers'[j].st = "done"
      /\ \A k \in DOMAIN workers \ {j} : workers'[k] = workers[k]
  BY <1>0, <1>1, WorkerMoves
<1>3. \A k \in DOMAIN workers : (workers'[k].st = "running" \/ workers[k].st = "running")
        => workers'[k] = workers[k]
  BY <1>1, <1>2
<1>4. AskTypes'
  BY <1>0, <1>1, <1>2 DEF AskTypes
<1>5. IdsAreFresh'
  BY <1>0, <1>1, <1>2 DEF IdsAreFresh
<1>6. JobsAreKnown'
  BY <1>0, <1>1, <1>2, <1>3 DEF JobsAreKnown
<1>7. AnswersOwnQuestion'
  BY <1>0, <1>1, <1>2, <1>3 DEF AnswersOwnQuestion, PendingIsAwaited
<1>8. ThreadInv'
  BY <1>0, <1>1 DEF ThreadInv, ThreadsHoldTogether, PendingIsNewest, DraftFits
<1> QED
  BY <1>4, <1>5, <1>6, <1>7, <1>8 DEF AskInv, AnswerInv

\* and by a worker that sends its update.
LEMMA WorkerSendsKept == ASSUME AskInv, NEW j, WorkerSends(j) PROVE AskInv'
<1>0. AskTypes /\ IdsAreFresh /\ JobsAreKnown /\ AnswersOwnQuestion /\ ThreadInv
  BY DEF AskInv, AnswerInv
<1>1. /\ j \in DOMAIN workers /\ workers[j].st = "running"
      /\ workers' = [workers EXCEPT ![j].st = "sent"]
      /\ UNCHANGED <<files, asks, askDraft, nextAsk, nextJob, jobs>>
  BY DEF WorkerSends, asking
<1>2. /\ DOMAIN workers' = DOMAIN workers /\ IsFunction(workers', AskIds, Jobs)
      /\ workers'[j].st = "sent"
      /\ \A k \in DOMAIN workers \ {j} : workers'[k] = workers[k]
  BY <1>0, <1>1, WorkerMoves
<1>3. PICK ok \in BOOLEAN : updates' = Append(updates, [job |-> j, question |-> workers[j].question, ok |-> ok])
  BY DEF WorkerSends
<1> DEFINE u == [job |-> j, question |-> workers[j].question, ok |-> ok]
<1>4. updates \in Seq(Updates) /\ Len(updates) \in Nat
  BY <1>0 DEF AskTypes
<1>5. u \in Updates /\ u.job = j /\ u.question = workers[j].question
  <2>1. workers[j] \in Jobs /\ j \in AskIds
    BY <1>0, <1>1 DEF AskTypes, IsFunction
  <2> QED
    BY <2>1 DEF Updates, Jobs
<1>6. updates' = Append(updates, u)
  BY <1>3
<1> HIDE DEF u
<1>7. /\ updates' \in Seq(Updates) /\ Len(updates') = Len(updates) + 1
      /\ \A i \in 1 .. Len(updates) : updates'[i] = updates[i]
      /\ updates'[Len(updates) + 1] = u
  BY <1>4, <1>5, <1>6
<1>8. \A i \in 1 .. Len(updates') : i \in 1 .. Len(updates) \/ i = Len(updates) + 1
  BY <1>4, <1>7
<1>9. AskTypes'
  BY <1>0, <1>1, <1>2, <1>7 DEF AskTypes
<1>10. j \in DOMAIN jobs /\ jobs[j] = u.question /\ \A i \in 1 .. Len(updates) : updates[i].job # j
  BY <1>0, <1>1, <1>5 DEF JobsAreKnown
<1>11. IdsAreFresh'
  <2>1. \A i \in 1 .. Len(updates') : updates'[i].job < nextJob'
    BY <1>0, <1>1, <1>5, <1>7, <1>8 DEF IdsAreFresh
  <2> QED
    BY <1>0, <1>1, <1>2, <2>1 DEF IdsAreFresh
<1>12. JobsAreKnown'
  <2>1. ASSUME NEW k \in DOMAIN workers', workers'[k].st = "running"
        PROVE  /\ k \in DOMAIN jobs' /\ jobs'[k] = workers'[k].question
               /\ \A i \in 1 .. Len(updates') : updates'[i].job # k
    <3>1. k # j /\ k \in DOMAIN workers /\ workers'[k] = workers[k]
      BY <1>2, <2>1
    <3>2. /\ k \in DOMAIN jobs /\ jobs[k] = workers[k].question
          /\ \A i \in 1 .. Len(updates) : updates[i].job # k
      BY <1>0, <2>1, <3>1 DEF JobsAreKnown
    <3> QED
      BY <1>1, <1>5, <1>7, <1>8, <3>1, <3>2
  <2>2. \A i \in 1 .. Len(updates') :
          updates'[i].job \in DOMAIN jobs' /\ jobs'[updates'[i].job] = updates'[i].question
    BY <1>0, <1>1, <1>5, <1>7, <1>8, <1>10 DEF JobsAreKnown
  <2>3. \A i, k \in 1 .. Len(updates') : updates'[i].job = updates'[k].job => i = k
    BY <1>0, <1>5, <1>7, <1>8, <1>10 DEF JobsAreKnown
  <2> QED
    BY <2>1, <2>2, <2>3 DEF JobsAreKnown
<1>13. AnswersOwnQuestion'
  <2>1. DOMAIN updates = 1 .. Len(updates) /\ DOMAIN updates' = 1 .. Len(updates')
    BY <1>4, <1>7
  <2>2. Len(updates) + 1 \in DOMAIN updates' /\ \A i \in DOMAIN updates : i \in DOMAIN updates' /\ updates'[i] = updates[i]
    BY <1>4, <1>7, <2>1
  <2>3. ASSUME NEW n \in DOMAIN asks, asks[n].state = Pending
        PROVE  \E k \in DOMAIN jobs : /\ jobs[k] = n
                           /\ \/ k \in DOMAIN workers' /\ workers'[k].st = "running"
                              \/ \E i \in DOMAIN updates' : updates'[i].job = k
    <3>1. PICK k \in DOMAIN jobs : /\ jobs[k] = n
                           /\ \/ k \in DOMAIN workers /\ workers[k].st = "running"
                              \/ \E i \in DOMAIN updates : updates[i].job = k
      BY <1>0, <2>3 DEF AnswersOwnQuestion, PendingIsAwaited
    <3>2. CASE k = j
      BY <1>5, <1>7, <2>2, <3>1, <3>2
    <3>3. CASE k # j
      BY <1>2, <2>2, <3>1, <3>3
    <3> QED
      BY <3>2, <3>3
  <2> QED
    BY <1>0, <1>1, <2>3 DEF AnswersOwnQuestion, PendingIsAwaited
<1>14. ThreadInv'
  BY <1>0, <1>1 DEF ThreadInv, ThreadsHoldTogether, PendingIsNewest, DraftFits
<1> QED
  BY <1>9, <1>11, <1>12, <1>13, <1>14 DEF AskInv, AnswerInv

\* What one poll does: the first m updates leave the channel with their jobs,
\* and their cards get an answer to their own question, or fail.
Polled(m) ==
  /\ m \in 0 .. Len(updates)
  /\ Len(updates') = Len(updates) - m /\ updates' \in Seq(Updates)
  /\ \A i \in 1 .. Len(updates') : updates'[i] = updates[i + m]
  /\ DOMAIN jobs' = {j \in DOMAIN jobs : \A i \in 1 .. m : updates[i].job # j}
  /\ \A j \in DOMAIN jobs' : jobs'[j] = jobs[j]
  /\ IsFunction(jobs', AskIds, AskIds)
  /\ DOMAIN asks' = DOMAIN asks /\ IsFunction(asks', AskIds, Asks)
  /\ \A n \in DOMAIN asks :
       \/ asks'[n] = asks[n] /\ \A i \in 1 .. m : jobs[updates[i].job] # n
       \/ /\ asks'[n].state \in {Failed, Answered(n)}
          /\ asks'[n].question = asks[n].question /\ asks'[n].thread = asks[n].thread
          /\ asks'[n].file = asks[n].file /\ asks'[n].range = asks[n].range

\* One poll takes the first updates of the channel, as Polled says.
LEMMA PollIs == ASSUME AskInv, poll_ask PROVE \E m \in Nat : Polled(m)
<1>0. AskTypes /\ JobsAreKnown
  BY DEF AskInv, AnswerInv
<1>1. updates \in Seq(Updates) /\ Len(updates) \in Nat /\ PollBudget \in Nat
  BY <1>0, BoundsAreNatural DEF AskTypes
<1> DEFINE m == IF Len(updates) < PollBudget THEN Len(updates) ELSE PollBudget
<1>2. m \in 0 .. Len(updates) /\ Taken = SubSeq(updates, 1, m)
  BY <1>1 DEF Taken
<1> HIDE DEF m
<1>3. /\ Len(Taken) = m /\ DOMAIN Taken = 1 .. m
      /\ \A i \in 1 .. m : Taken[i] = updates[i]
  BY <1>1, <1>2
<1>4. /\ Len(updates') = Len(updates) - m /\ updates' \in Seq(Updates)
      /\ \A i \in 1 .. Len(updates') : updates'[i] = updates[i + m]
  <2>1. updates' = SubSeq(updates, m + 1, Len(updates))
    BY <1>3 DEF poll_ask
  <2> QED
    BY <1>1, <1>2, <2>1
<1> DEFINE known == {i \in DOMAIN Taken : Taken[i].job \in DOMAIN jobs}
           about == [i \in known |-> jobs[Taken[i].job]]
           done  == [n \in {about[i] : i \in known} |->
                       LET u == Taken[CHOOSE i \in known : about[i] = n]
                       IN  IF u.ok THEN Answered(u.question) ELSE Failed]
<1>5. asks' = resolve_ask(done) /\ jobs' = Restricted(jobs, DOMAIN jobs \ {Taken[i].job : i \in known})
  BY DEF poll_ask
<1>6. \A i \in 1 .. m : i \in 1 .. Len(updates)
  BY <1>1, <1>2
<1>7. known = 1 .. m
  BY <1>0, <1>3, <1>6 DEF JobsAreKnown
<1>8. \A i \in 1 .. m : about[i] = jobs[updates[i].job] /\ about[i] = updates[i].question
  BY <1>0, <1>3, <1>6, <1>7 DEF JobsAreKnown
<1>9. {Taken[i].job : i \in known} = {updates[i].job : i \in 1 .. m}
  BY <1>3, <1>7
<1>10. /\ DOMAIN jobs' = {j \in DOMAIN jobs : \A i \in 1 .. m : updates[i].job # j}
       /\ \A j \in DOMAIN jobs' : jobs'[j] = jobs[j]
       /\ IsFunction(jobs', AskIds, AskIds)
  <2> DEFINE K == DOMAIN jobs \ {updates[i].job : i \in 1 .. m}
  <2>1. jobs' = Restricted(jobs, K)
    BY <1>5, <1>9
  <2>2. DOMAIN jobs \cap K = {j \in DOMAIN jobs : \A i \in 1 .. m : updates[i].job # j}
    OBVIOUS
  <2> HIDE DEF K
  <2>3. DOMAIN jobs' = DOMAIN jobs \cap K /\ \A j \in DOMAIN jobs' : jobs'[j] = jobs[j]
    BY <2>1 DEF Restricted
  <2>4. IsFunction(jobs', AskIds, AskIds)
    BY <1>0, <2>1, RestrictedTyped DEF AskTypes
  <2> QED
    BY <2>2, <2>3, <2>4
<1>11. ASSUME NEW n \in DOMAIN done
       PROVE  done[n] \in {Failed, Answered(n)} /\ \E i \in 1 .. m : jobs[updates[i].job] = n
  <2> DEFINE i == CHOOSE k \in known : about[k] = n
  <2>1. \E k \in known : about[k] = n
    BY <1>11
  <2>2. i \in known /\ about[i] = n
    BY Zenon, <2>1
  <2>3. done[n] = IF Taken[i].ok THEN Answered(Taken[i].question) ELSE Failed
    BY Zenon, <1>11
  <2> HIDE DEF i, known, about, done
  <2>4. Taken[i].question = n /\ jobs[updates[i].job] = n /\ i \in 1 .. m
    BY <1>3, <1>7, <1>8, <2>2
  <2> QED
    BY <2>3, <2>4
<1>12. \A n : n \notin DOMAIN done => \A i \in 1 .. m : jobs[updates[i].job] # n
  <2>1. DOMAIN done = {about[i] : i \in known}
    OBVIOUS
  <2> HIDE DEF done, about, known
  <2> QED
    BY <1>7, <1>8, <2>1
<1> HIDE DEF known, about, done
<1>13. DOMAIN asks' = DOMAIN asks /\ \A n \in DOMAIN asks :
          asks'[n] = IF n \in DOMAIN done THEN [asks[n] EXCEPT !.state = done[n]] ELSE asks[n]
  BY <1>5 DEF resolve_ask
<1>14. asks \in [DOMAIN asks -> Asks] /\ DOMAIN asks \subseteq AskIds
  BY <1>0 DEF AskTypes, IsFunction
<1>15. ASSUME NEW n \in DOMAIN asks, n \in DOMAIN done
       PROVE  /\ asks'[n] \in Asks /\ asks'[n].state \in {Failed, Answered(n)}
              /\ asks'[n].question = asks[n].question /\ asks'[n].thread = asks[n].thread
              /\ asks'[n].file = asks[n].file /\ asks'[n].range = asks[n].range
  <2> DEFINE st == done[n]
             a == asks[n]
  <2>1. asks'[n] = [a EXCEPT !.state = st]
    BY <1>13, <1>15
  <2>2. st \in {Failed, Answered(n)} /\ st \in States /\ a \in Asks
    BY <1>11, <1>14, <1>15, StatesApart
  <2> HIDE DEF st, a
  <2>3. asks'[n] \in Asks /\ asks'[n].state = st
      /\ asks'[n].question = a.question /\ asks'[n].thread = a.thread
      /\ asks'[n].file = a.file /\ asks'[n].range = a.range
    BY <2>1, <2>2 DEF Asks
  <2> QED
    BY <2>2, <2>3 DEF a
<1>16. IsFunction(asks', AskIds, Asks)
  <2>1. \A n \in DOMAIN asks : asks'[n] \in Asks
    BY <1>13, <1>14, <1>15
  <2>2. asks' = [n \in DOMAIN asks |-> asks'[n]]
    BY <1>5, <1>13 DEF resolve_ask
  <2> QED
    BY <1>13, <1>14, <2>1, <2>2 DEF IsFunction
<1>17. Polled(m)
  BY <1>2, <1>4, <1>10, <1>12, <1>13, <1>15, <1>16 DEF Polled
<1> QED
  BY <1>2, <1>17

\* Taking updates from the channel keeps every job of a worker that runs and of
\* an update that is still in the channel.
LEMMA PollKept == ASSUME AskInv, poll_ask PROVE AskInv'
<1>0. AskTypes /\ IdsAreFresh /\ JobsAreKnown /\ AnswersOwnQuestion /\ ThreadsHoldTogether
      /\ PendingIsNewest /\ DraftFits
  BY DEF AskInv, AnswerInv, ThreadInv
<1>1. PICK m \in Nat : Polled(m)
  BY PollIs
<1>2. UNCHANGED <<files, askDraft, nextAsk, nextJob>> /\ workers' = reap(workers)
  BY DEF poll_ask
<1>3. /\ DOMAIN workers' = {j \in DOMAIN workers : workers[j].st # "done"}
      /\ \A j \in DOMAIN workers' : workers'[j] = workers[j]
      /\ IsFunction(workers', AskIds, Jobs)
  BY <1>0, <1>2, Reaped
<1>4. /\ m \in 0 .. Len(updates) /\ Len(updates) \in Nat
      /\ Len(updates') = Len(updates) - m /\ updates' \in Seq(Updates)
      /\ \A i \in 1 .. Len(updates') : updates'[i] = updates[i + m]
  BY <1>0, <1>1 DEF Polled, AskTypes
<1>5. /\ DOMAIN jobs' = {j \in DOMAIN jobs : \A i \in 1 .. m : updates[i].job # j}
      /\ \A j \in DOMAIN jobs' : jobs'[j] = jobs[j]
      /\ IsFunction(jobs', AskIds, AskIds)
  BY <1>1 DEF Polled
<1>6. DOMAIN asks' = DOMAIN asks /\ IsFunction(asks', AskIds, Asks) /\ DOMAIN asks \subseteq AskIds
  BY <1>0, <1>1 DEF Polled, AskTypes, IsFunction
<1>7. \A n \in DOMAIN asks :
        /\ asks'[n].question = asks[n].question /\ asks'[n].thread = asks[n].thread
        /\ asks'[n].file = asks[n].file /\ asks'[n].range = asks[n].range
        /\ asks'[n].state \in {asks[n].state, Failed, Answered(n)}
  BY <1>1 DEF Polled
<1>8. \A n \in DOMAIN asks : asks'[n].state = Pending =>
        asks[n].state = Pending /\ \A i \in 1 .. m : jobs[updates[i].job] # n
  <2>1. \A n \in DOMAIN asks : Pending \notin {Failed, Answered(n)}
    BY <1>6, StatesApart
  <2> QED
    BY <1>1, <2>1 DEF Polled
<1>9. \A i \in 1 .. Len(updates') : i + m \in 1 .. Len(updates) /\ i + m \notin 1 .. m
  BY <1>4
<1>10. \A i \in 1 .. m : i \in 1 .. Len(updates)
  BY <1>4
<1>11. AskTypes'
  BY <1>0, <1>2, <1>3, <1>4, <1>5, <1>6 DEF AskTypes
<1>12. IdsAreFresh'
  <2>1. \A n \in DOMAIN asks' : asks'[n].question = n /\ n < nextAsk'
    BY <1>0, <1>2, <1>6, <1>7 DEF IdsAreFresh
  <2>2. \A j \in DOMAIN jobs' \cup DOMAIN workers' : j < nextJob'
    BY <1>0, <1>2, <1>3, <1>5 DEF IdsAreFresh
  <2>3. \A i \in 1 .. Len(updates') : updates'[i].job < nextJob'
    BY <1>0, <1>2, <1>4, <1>9 DEF IdsAreFresh
  <2> QED
    BY <1>0, <1>2, <1>6, <2>1, <2>2, <2>3 DEF IdsAreFresh
<1>13. JobsAreKnown'
  <2>1. ASSUME NEW j \in DOMAIN workers', workers'[j].st = "running"
        PROVE  /\ j \in DOMAIN jobs' /\ jobs'[j] = workers'[j].question
               /\ \A i \in 1 .. Len(updates') : updates'[i].job # j
    <3>1. j \in DOMAIN workers /\ workers'[j] = workers[j]
      BY <1>3
    <3>2. /\ j \in DOMAIN jobs /\ jobs[j] = workers[j].question
          /\ \A i \in 1 .. Len(updates) : updates[i].job # j
      BY <1>0, <2>1, <3>1 DEF JobsAreKnown
    <3> QED
      BY <1>4, <1>5, <1>9, <1>10, <3>1, <3>2
  <2>2. ASSUME NEW i \in 1 .. Len(updates')
        PROVE  updates'[i].job \in DOMAIN jobs' /\ jobs'[updates'[i].job] = updates'[i].question
    <3>1. updates'[i] = updates[i + m] /\ i + m \in 1 .. Len(updates) /\ i + m \notin 1 .. m
      BY <1>4, <1>9
    <3>2. updates[i + m].job \in DOMAIN jobs /\ jobs[updates[i + m].job] = updates[i + m].question
      BY <1>0, <3>1 DEF JobsAreKnown
    <3>3. \A k \in 1 .. m : updates[k].job # updates[i + m].job
      BY <1>0, <1>10, <3>1 DEF JobsAreKnown
    <3> QED
      BY <1>5, <3>1, <3>2, <3>3
  <2>3. \A i, k \in 1 .. Len(updates') : updates'[i].job = updates'[k].job => i = k
    <3>1. ASSUME NEW i \in 1 .. Len(updates'), NEW k \in 1 .. Len(updates'), updates'[i].job = updates'[k].job
          PROVE  i = k
      <4>1. i + m = k + m
        BY <1>0, <1>4, <1>9, <3>1 DEF JobsAreKnown
      <4> QED
        BY <1>4, <4>1
    <3> QED
      BY <3>1
  <2> QED
    BY <2>1, <2>2, <2>3 DEF JobsAreKnown
<1>14. AnswersOwnQuestion'
  <2>1. \A n \in DOMAIN asks' : asks'[n].state \in {Pending, Failed, Answered(asks'[n].question)}
    <3>1. \A n \in DOMAIN asks : asks[n].question = n /\ asks[n].state \in {Pending, Failed, Answered(n)}
      BY <1>0 DEF IdsAreFresh, AnswersOwnQuestion
    <3> QED
      BY <1>6, <1>7, <3>1
  <2>2. DOMAIN updates = 1 .. Len(updates) /\ DOMAIN updates' = 1 .. Len(updates')
    BY <1>0, <1>4 DEF AskTypes
  <2>3. ASSUME NEW n \in DOMAIN asks', asks'[n].state = Pending
        PROVE  \E j \in DOMAIN jobs' : /\ jobs'[j] = n
                           /\ \/ j \in DOMAIN workers' /\ workers'[j].st = "running"
                              \/ \E i \in DOMAIN updates' : updates'[i].job = j
    <3>1. n \in DOMAIN asks /\ asks[n].state = Pending /\ \A i \in 1 .. m : jobs[updates[i].job] # n
      BY <1>6, <1>8, <2>3
    <3>2. PICK j \in DOMAIN jobs : /\ jobs[j] = n
                           /\ \/ j \in DOMAIN workers /\ workers[j].st = "running"
                              \/ \E i \in DOMAIN updates : updates[i].job = j
      BY <1>0, <3>1 DEF AnswersOwnQuestion, PendingIsAwaited
    <3>3. j \in DOMAIN jobs' /\ jobs'[j] = n /\ \A i \in 1 .. m : updates[i].job # j
      BY <1>5, <3>1, <3>2
    <3>4. CASE j \in DOMAIN workers /\ workers[j].st = "running"
      <4>1. j \in DOMAIN workers' /\ workers'[j] = workers[j]
        BY <1>3, <3>4
      <4> QED
        BY <3>3, <3>4, <4>1
    <3>5. CASE \E i \in DOMAIN updates : updates[i].job = j
      <4>1. PICK i \in 1 .. Len(updates) : updates[i].job = j
        BY <2>2, <3>5
      <4>2. i \notin 1 .. m
        BY <3>3, <4>1
      <4>3. i - m \in 1 .. Len(updates') /\ (i - m) + m = i
        BY <1>4, <4>2
      <4>4. updates'[i - m] = updates[i]
        BY <1>4, <4>3
      <4> QED
        BY <2>2, <3>3, <4>1, <4>3, <4>4
    <3> QED
      BY <3>2, <3>4, <3>5
  <2> QED
    BY <2>1, <2>3 DEF AnswersOwnQuestion, PendingIsAwaited
<1>15. ThreadsHoldTogether'
  BY <1>0, <1>6, <1>7, <1>8 DEF ThreadsHoldTogether
<1>16. PendingIsNewest'
  BY <1>0, <1>6, <1>7, <1>8 DEF PendingIsNewest
<1>17. DraftFits'
  BY <1>0, <1>2, <1>6, <1>7, <1>8 DEF DraftFits
<1> QED
  BY <1>11, <1>12, <1>13, <1>14, <1>15, <1>16, <1>17 DEF AskInv, AnswerInv, ThreadInv

\* Every step keeps the invariant of the questions.
LEMMA AskStep == AskInv /\ [Next]_vars => AskInv'
<1> SUFFICES ASSUME AskInv, [Next]_vars PROVE AskInv'
  OBVIOUS
<1>1. CASE AskSame
  BY <1>1, AskSameKept
<1>2. CASE Discarding
  BY <1>2, DiscardingKept
<1>3. CASE poll_ask
  BY <1>3, PollKept
<1>4. CASE \E fs \in SUBSET Files : Dropping(fs)
  BY <1>4, DroppingKept
<1>5. CASE \E f, r, card : Beginning(f, r, card)
  BY <1>5, BeginningKept
<1>6. CASE \E spawned \in BOOLEAN : Dispatching(spawned)
  BY <1>6, DispatchingKept
<1>7. CASE \E j : WorkerSends(j) \/ WorkerEnds(j)
  BY <1>7, WorkerSendsKept, WorkerEndsKept
<1> QED
  BY <1>1, <1>2, <1>3, <1>4, <1>5, <1>6, <1>7, AskSteps

\* An answer is shown on the card of its own question, and a card that waits
\* is awaited, however questions, reloads and answers interleave.
THEOREM AnswersGoHome == Spec => []AnswersOwnQuestion
<1>1. AskInv => AnswersOwnQuestion
  BY DEF AskInv, AnswerInv
<1> QED
  BY <1>1, AskInit, AskStep, PTL DEF Spec

\* A thread keeps its first question, its lines and at most one question that
\* waits, however questions, reloads and answers interleave.
THEOREM ThreadsHold == Spec => []ThreadsHoldTogether
<1>1. AskInv => ThreadsHoldTogether
  BY DEF AskInv, ThreadInv
<1> QED
  BY <1>1, AskInit, AskStep, PTL DEF Spec

-----------------------------------------------------------------------------
(* The reviewer's notes and the comments of agents *)

NoteInv == files \subseteq Files /\ NoteTypes /\ BufferIsDraft /\ ReplyIsTaken

Edited(d, t) == [d EXCEPT !.body = t]

\* An edit changes the text of a draft and nothing else of it.
LEMMA EditedIs ==
  ASSUME NEW d \in Drafts, NEW t \in Text
  PROVE  /\ Edited(d, t) \in Drafts /\ Edited(d, t) # None /\ Edited(d, t).body = t
         /\ Edited(d, t).id = d.id /\ Edited(d, t).file = d.file /\ Edited(d, t).editing = d.editing
<1>1. /\ Edited(d, t) \in Drafts /\ Edited(d, t).body = t
      /\ Edited(d, t).id = d.id /\ Edited(d, t).file = d.file /\ Edited(d, t).editing = d.editing
  BY DEF Edited, Drafts
<1> QED
  BY <1>1, NoneIsApart

\* A saved draft is the note, unless its text is empty or its note is gone.
LEMMA SavedIs ==
  ASSUME NoteTypes, NEW d \in {None} \cup Drafts, save_human_note_draft(d)
  PROVE  /\ draft' = None /\ IsFunction(human', NoteIds, Humans)
         /\ (d # None /\ d.body # EmptyText /\ (d.editing => d.id \in DOMAIN human))
              => d.id \in DOMAIN human' /\ human'[d.id].body = d.body
<1>0. IsFunction(human, NoteIds, Humans) /\ draft' = None
  BY DEF NoteTypes, save_human_note_draft
<1>1. CASE d = None
  BY <1>0, <1>1 DEF save_human_note_draft
<1>2. CASE d # None /\ d.body = EmptyText
  <2> DEFINE K == DOMAIN human \ (IF d.editing THEN {d.id} ELSE {})
  <2>1. human' = Restricted(human, K)
    BY <1>2 DEF save_human_note_draft
  <2> HIDE DEF K
  <2> QED
    BY <1>0, <1>2, <2>1, RestrictedTyped
<1>3. CASE d # None /\ d.body # EmptyText /\ d.editing /\ d.id \notin DOMAIN human
  BY <1>0, <1>3 DEF save_human_note_draft
<1>4. CASE d # None /\ d.body # EmptyText /\ ~(d.editing /\ d.id \notin DOMAIN human)
  <2> DEFINE v == [file |-> d.file, body |-> d.body]
  <2>1. human' = With(human, d.id, v)
    BY <1>4 DEF save_human_note_draft
  <2>2. d.id \in NoteIds /\ v \in Humans /\ v.body = d.body
    BY <1>4 DEF Drafts, Humans
  <2> HIDE DEF v
  <2>3. IsFunction(human', NoteIds, Humans)
    BY <1>0, <2>1, <2>2, WithTyped
  <2>4. d.id \in DOMAIN human' /\ human'[d.id] = v
    BY <2>1 DEF With
  <2> QED
    BY <1>0, <2>2, <2>3, <2>4
<1> QED
  BY <1>1, <1>2, <1>3, <1>4

\* The comments of a batch are added under the ids of its request.
LEMMA BatchIs ==
  ASSUME NoteTypes, NEW cs \in [1 .. 2 -> Comments], NEW r \in RequestIds, NEW k \in 0 .. 2
  PROVE  /\ IsFunction(AddedBatch(cs, r, k), LiveIds, Files)
         /\ DOMAIN AddedBatch(cs, r, k) = DOMAIN live \cup {<<r, i>> : i \in 1 .. k}
         /\ \A id \in DOMAIN live : AddedBatch(cs, r, k)[id] = live[id]
<1>1. live \in [DOMAIN live -> Files] /\ DOMAIN live \subseteq LiveIds
  BY DEF NoteTypes, IsFunction
<1>2. \A i \in 1 .. k : i \in 1 .. 2 /\ <<r, i>> \in LiveIds
  BY DEF LiveIds
<1>3. \A i \in 1 .. 2 : cs[i].file \in Files
  BY BoundsAreNatural
<1>4. \A id \in DOMAIN live \cup {<<r, i>> : i \in 1 .. k} :
        (IF id \in DOMAIN live THEN live[id] ELSE cs[id[2]].file) \in Files
  BY <1>1, <1>2, <1>3
<1> QED
  BY <1>1, <1>2, <1>4 DEF AddedBatch, IsFunction

\* A batch that is rolled back leaves the comments there were, when none of
\* its ids was taken.
LEMMA RolledBackIs ==
  ASSUME NoteTypes, NEW cs \in [1 .. 2 -> Comments], NEW r \in RequestIds, NEW k \in 0 .. 2,
         \A i \in 1 .. 2 : <<r, i>> \notin DOMAIN live
  PROVE  RolledBack(AddedBatch(cs, r, k), r, k) = live
<1> DEFINE l == AddedBatch(cs, r, k)
           ids == {<<r, i>> : i \in 1 .. k}
<1>1. DOMAIN l = DOMAIN live \cup ids /\ \A id \in DOMAIN live : l[id] = live[id]
  BY BatchIs
<1>2. RolledBack(l, r, k) = Restricted(l, DOMAIN l \ ids)
  BY DEF RolledBack
<1>3. DOMAIN live \cap ids = {}
  <2>1. \A i \in 1 .. k : i \in 1 .. 2
    OBVIOUS
  <2> QED
    BY <2>1
<1> HIDE DEF l, ids
<1>4. DOMAIN l \cap (DOMAIN l \ ids) = DOMAIN live
  BY <1>1, <1>3
<1>5. live = [id \in DOMAIN live |-> live[id]]
  BY DEF NoteTypes, IsFunction
<1>6. Restricted(l, DOMAIN l \ ids) = [id \in DOMAIN live |-> l[id]]
  BY <1>4 DEF Restricted
<1>7. [id \in DOMAIN live |-> l[id]] = [id \in DOMAIN live |-> live[id]]
  BY <1>1
<1> QED
  BY <1>2, <1>5, <1>6, <1>7 DEF l

\* A request to add comments adds all of them or changes nothing.
LEMMA AddingIs ==
  ASSUME NoteTypes, add_comment \/ apply_comments
  PROVE  IsFunction(live', LiveIds, Files) /\ (reply' = "error" => live' = live)
<1>0. IsFunction(live, LiveIds, Files)
  BY DEF NoteTypes
<1>1. CASE add_comment
  <2>1. PICK c \in Comments, r \in RequestIds :
          LET id == <<r, 0>>
              ok == parse_comment(c) /\ validate_comment(c, id) /\ add_live_note(c, id)
          IN  /\ live' = IF ok THEN With(live, id, c.file) ELSE live
              /\ reply' = IF ok THEN "ok" ELSE "error"
    BY <1>1 DEF add_comment, Respond
  <2> DEFINE id == <<r, 0>>
  <2>2. \/ live' = With(live, id, c.file) /\ reply' = "ok"
        \/ live' = live
    BY <2>1
  <2>3. id \in LiveIds /\ c.file \in Files
    BY BoundsAreNatural DEF LiveIds
  <2> HIDE DEF id
  <2> QED
    BY <1>0, <2>2, <2>3, WithTyped
<1>2. CASE apply_comments
  <2>1. PICK cs \in [1 .. 2 -> Comments], r \in RequestIds :
          LET valid == \A i \in 1 .. 2 : parse_comment(cs[i]) /\ validate_comment(cs[i], <<r, i>>)
              bad   == {i \in 1 .. 2 : ~add_live_note(cs[i], <<r, i>>)}
              first == CHOOSE i \in bad : \A j \in bad : i <= j
          IN  IF valid /\ bad = {}
              THEN live' = AddedBatch(cs, r, 2) /\ reply' = "ok"
              ELSE /\ live' = IF ~valid THEN live ELSE RolledBack(AddedBatch(cs, r, first - 1), r, first - 1)
                   /\ reply' = "error"
    BY <1>2 DEF apply_comments, Respond
  <2> DEFINE valid == \A i \in 1 .. 2 : parse_comment(cs[i]) /\ validate_comment(cs[i], <<r, i>>)
             bad   == {i \in 1 .. 2 : ~add_live_note(cs[i], <<r, i>>)}
             first == CHOOSE i \in bad : \A j \in bad : i <= j
  <2>2. CASE valid /\ bad = {}
    <3>1. live' = AddedBatch(cs, r, 2) /\ reply' = "ok"
      BY <2>1, <2>2
    <3>2. 2 \in 0 .. 2
      OBVIOUS
    <3>3. IsFunction(AddedBatch(cs, r, 2), LiveIds, Files)
      BY <3>2, BatchIs
    <3> QED
      BY <3>1, <3>3
  <2>3. CASE ~valid
    BY <1>0, <2>1, <2>3
  <2>4. CASE valid /\ bad # {}
    <3>1. live' = RolledBack(AddedBatch(cs, r, first - 1), r, first - 1)
      BY <2>1, <2>4
    <3>2. \A i \in 1 .. 2 : <<r, i>> \notin DOMAIN live
      BY <2>4 DEF validate_comment
    <3>3. bad \subseteq 1 .. 2
      OBVIOUS
    <3> HIDE DEF bad
    <3>4. \E i \in bad : \A j \in bad : i <= j
      <4>1. PICK i \in bad : TRUE
        BY <2>4
      <4> QED
        BY <3>3, <4>1
    <3>5. first \in bad
      BY Zenon, <3>4
    <3> HIDE DEF first
    <3>6. first - 1 \in 0 .. 2
      BY <3>3, <3>5
    <3>7. live' = live
      BY <3>1, <3>2, <3>6, RolledBackIs
    <3> QED
      BY <1>0, <3>7
  <2> QED
    BY <2>2, <2>3, <2>4
<1> QED
  BY <1>1, <1>2

\* A request to remove comments that is refused changes nothing.
LEMMA RemovingIs ==
  ASSUME NoteTypes, remove_comment \/ clear_comments
  PROVE  /\ IsFunction(live', LiveIds, Files) /\ IsFunction(human', NoteIds, Humans)
         /\ reply' = "error" => live' = live /\ human' = human
<1>0. IsFunction(live, LiveIds, Files) /\ IsFunction(human, NoteIds, Humans)
  BY DEF NoteTypes
<1>1. CASE remove_comment
  <2>1. CASE \E id \in LiveIds :
               /\ live' = Restricted(live, DOMAIN live \ {id})
               /\ Respond(IF id \in DOMAIN live THEN "ok" ELSE "error")
               /\ UNCHANGED human
    <3>1. PICK id \in LiveIds : /\ live' = Restricted(live, DOMAIN live \ {id})
                                /\ reply' = IF id \in DOMAIN live THEN "ok" ELSE "error"
                                /\ human' = human
      BY <2>1 DEF Respond
    <3>2. IsFunction(live', LiveIds, Files)
      BY <1>0, <3>1, RestrictedTyped
    <3>3. reply' = "error" => live' = live
      <4>1. reply' = "error" => DOMAIN live \subseteq DOMAIN live \ {id}
        BY <3>1
      <4> QED
        BY <1>0, <3>1, <4>1, RestrictedAll
    <3> QED
      BY <1>0, <3>1, <3>2, <3>3
  <2>2. CASE \E n \in NoteIds :
               /\ human' = Restricted(human, DOMAIN human \ {n})
               /\ Respond(IF n \in DOMAIN human THEN "ok" ELSE "error")
               /\ UNCHANGED live
    <3>1. PICK n \in NoteIds : /\ human' = Restricted(human, DOMAIN human \ {n})
                               /\ reply' = IF n \in DOMAIN human THEN "ok" ELSE "error"
                               /\ live' = live
      BY <2>2 DEF Respond
    <3>2. IsFunction(human', NoteIds, Humans)
      BY <1>0, <3>1, RestrictedTyped
    <3>3. reply' = "error" => human' = human
      <4>1. reply' = "error" => DOMAIN human \subseteq DOMAIN human \ {n}
        BY <3>1
      <4> QED
        BY <1>0, <3>1, <4>1, RestrictedAll
    <3> QED
      BY <1>0, <3>1, <3>2, <3>3
  <2> QED
    BY <1>1, <2>1, <2>2 DEF remove_comment
<1>2. CASE clear_comments
  <2>1. \/ human' = human /\ live' = live
        \/ /\ reply' = "ok"
           /\ \E K : live' = Restricted(live, K)
           /\ human' = human \/ \E K : human' = Restricted(human, K)
    <3>1. PICK f \in Files \cup {None}, includeUser \in BOOLEAN :
            IF f = None \/ f \in files
            THEN clear_session_notes(IF f = None THEN Files ELSE {f}, includeUser) /\ reply' = "ok"
            ELSE UNCHANGED <<human, live>> /\ reply' = "error"
      BY <1>2 DEF clear_comments, Respond
    <3> QED
      BY <3>1 DEF clear_session_notes
  <2> QED
    BY <1>0, <2>1, RestrictedTyped
<1> QED
  BY <1>1, <1>2

\* The text and the editor of the reviewer, which no agent and no reload types into.
Editor == <<buf, nextNote, mode, tmux>>

\* A reload leaves the draft alone or drops it with its file.
LEMMA ReplacedIs ==
  ASSUME NoteInv, NEW fs \in SUBSET Files, replace_files(fs), UNCHANGED Editor
  PROVE  /\ files' \subseteq Files /\ NoteTypes' /\ BufferIsDraft'
         /\ draft # None /\ draft' = None => draft.file \notin files'
<1>1. draft' = draft \/ (draft' = None /\ draft.file \notin fs)
  BY DEF replace_files
<1>2. IsFunction(human', NoteIds, Humans) /\ IsFunction(live', LiveIds, Files)
  BY RestrictedTyped DEF NoteInv, NoteTypes, replace_files
<1>3. NoteTypes'
  BY <1>1, <1>2 DEF NoteInv, NoteTypes, Editor
<1>4. BufferIsDraft'
  BY <1>1 DEF NoteInv, BufferIsDraft, Editor
<1> QED
  BY <1>1, <1>3, <1>4 DEF replace_files

\* What an agent asks for leaves the reviewer's draft and editor alone.
LEMMA CommentedIs ==
  ASSUME NoteInv, \/ (add_comment \/ apply_comments) /\ UNCHANGED human
                  \/ remove_comment \/ clear_comments,
         UNCHANGED <<files, draft, buf, nextNote, mode, tmux>>
  PROVE  /\ files' \subseteq Files /\ NoteTypes' /\ BufferIsDraft'
         /\ reply' = "error" => UNCHANGED <<human, live>>
<1>1. IsFunction(human', NoteIds, Humans) /\ IsFunction(live', LiveIds, Files)
      /\ (reply' = "error" => UNCHANGED <<human, live>>)
  <2>1. CASE (add_comment \/ apply_comments) /\ UNCHANGED human
    BY <2>1, AddingIs DEF NoteInv, NoteTypes
  <2>2. CASE remove_comment \/ clear_comments
    BY <2>2, RemovingIs DEF NoteInv, NoteTypes
  <2> QED
    BY <2>1, <2>2
<1>2. NoteTypes' /\ BufferIsDraft'
  BY <1>1 DEF NoteInv, NoteTypes, BufferIsDraft
<1> QED
  BY <1>1, <1>2 DEF NoteInv

\* A request of an agent: refused, it has changed nothing; it drops no draft of
\* a file that stays.
LEMMA RequestIs ==
  ASSUME NoteInv, apply_session_request
  PROVE  /\ NoteInv'
         /\ reply' = "error" => UNCHANGED <<files, human, live, draft, asks, askDraft>>
         /\ draft # None /\ draft' = None => draft.file \notin files'
<1>1. phase' = "requests" /\ UNCHANGED <<mode, tmux>>
  BY DEF apply_session_request
<1>2. ReplyIsTaken'
  BY <1>1 DEF ReplyIsTaken
<1>3. CASE (add_comment \/ apply_comments) /\ UNCHANGED <<files, notes, asks, askDraft>>
  BY <1>1, <1>2, <1>3, CommentedIs DEF NoteInv, notes
<1>4. CASE (remove_comment \/ clear_comments) /\ UNCHANGED <<files, draft, buf, nextNote, asks, askDraft>>
  BY <1>1, <1>2, <1>4, CommentedIs DEF NoteInv
<1>5. CASE apply_session_reload /\ UNCHANGED <<buf, nextNote>>
  <2>1. \/ reply' = "ok" /\ \E fs \in SUBSET Files : replace_files(fs)
        \/ UNCHANGED <<files, human, live, draft, asks, askDraft>>
    BY <1>5 DEF apply_session_reload, Respond
  <2>2. CASE reply' = "ok" /\ \E fs \in SUBSET Files : replace_files(fs)
    <3>1. PICK fs \in SUBSET Files : replace_files(fs)
      BY <2>2
    <3>2. UNCHANGED Editor
      BY <1>1, <1>5 DEF Editor
    <3> QED
      BY <1>2, <2>2, <3>1, <3>2, ReplacedIs DEF NoteInv
  <2>3. CASE UNCHANGED <<files, human, live, draft, asks, askDraft>>
    <3>1. NoteTypes' /\ BufferIsDraft'
      BY <1>1, <1>5, <2>3 DEF NoteInv, NoteTypes, BufferIsDraft
    <3> QED
      BY <1>2, <2>3, <3>1 DEF NoteInv
  <2> QED
    BY <2>1, <2>2, <2>3
<1> QED
  BY <1>3, <1>4, <1>5 DEF apply_session_request

\* A draft that goes with its text has become its note.
SavedOrKept ==
  (/\ draft # None /\ draft' = None /\ draft.body # EmptyText
   /\ draft.editing => draft.id \in DOMAIN human)
  => draft.id \in DOMAIN human' /\ human'[draft.id].body = draft.body

\* What one event may do to the notes.
NoteKept == NoteTypes' /\ BufferIsDraft' /\ SavedOrKept

\* Events that leave the text alone, or make a draft, keep it.
LEMMA DraftMade ==
  ASSUME NoteInv, StartNote \/ start_ask \/ edit_focused_buffer \/ close_overlay \/ ClickNote
         \/ jump_to_ask_answer \/ NoEvent
  PROVE  NoteKept
<1>0. NoteTypes /\ BufferIsDraft /\ files \subseteq Files
  BY DEF NoteInv
<1>1. CASE StartNote
  <2>1. PICK f \in files : begin_human_note(f)
    BY <1>1 DEF StartNote
  <2>2. UNCHANGED <<human, live, tmux>> /\ buf' = EmptyText /\ mode' = "Note" /\ mode = "Normal"
    BY <1>1 DEF StartNote, Keys
  <2>3. draft' \in Drafts /\ draft'.body = EmptyText /\ nextNote' \in 1 .. MaxNotes + 1
    BY <1>0, <2>1, TextMayBeEmpty, BoundsAreNatural DEF begin_human_note, Drafts, NoteIds, NoteTypes
  <2>4. NoteTypes' /\ draft' # None
    BY <1>0, <2>2, <2>3, TextMayBeEmpty, NoneIsApart DEF NoteTypes
  <2>5. BufferIsDraft'
    BY <1>0, <2>2, <2>3 DEF BufferIsDraft
  <2> QED
    BY <2>4, <2>5 DEF NoteKept, SavedOrKept
<1>2. CASE start_ask
  <2>1. UNCHANGED <<human, live, draft, nextNote, tmux>> /\ buf' = EmptyText /\ mode' = "Ask" /\ ~tmux.picking
    BY <1>2 DEF start_ask, Keys
  <2>2. NoteTypes'
    BY <1>0, <2>1, TextMayBeEmpty DEF NoteTypes
  <2>3. BufferIsDraft'
    BY <1>0, <2>1 DEF BufferIsDraft
  <2> QED
    BY <2>1, <2>2, <2>3 DEF NoteKept, SavedOrKept
<1>3. CASE edit_focused_buffer
  <2>1. PICK s \in Text : /\ buf' = s
                          /\ draft' = IF mode = "Note" /\ draft # None THEN Edited(draft, s) ELSE draft
    BY <1>3 DEF edit_focused_buffer, Edited
  <2>2. UNCHANGED <<human, live, nextNote, mode, tmux>> /\ mode \in {"Note", "Ask"}
    BY <1>3 DEF edit_focused_buffer
  <2>3. draft # None => draft' \in Drafts /\ draft' # None /\ (mode = "Note" => draft'.body = s)
    BY <1>0, <2>1, EditedIs DEF NoteTypes
  <2>4. draft = None => draft' = None
    BY <2>1
  <2>5. NoteTypes'
    BY <1>0, <2>1, <2>2, <2>3, <2>4 DEF NoteTypes
  <2>6. BufferIsDraft'
    BY <1>0, <2>1, <2>2, <2>3, <2>4 DEF BufferIsDraft
  <2> QED
    BY <2>3, <2>5, <2>6 DEF NoteKept, SavedOrKept
<1>4. CASE close_overlay \/ jump_to_ask_answer \/ NoEvent
  <2>1. UNCHANGED <<human, live, draft, buf, nextNote, tmux>> /\ (mode' = mode \/ mode' = "Normal")
    BY <1>4 DEF close_overlay, jump_to_ask_answer, NoEvent, notes
  <2>2. NoteTypes' /\ BufferIsDraft'
    BY <1>0, <2>1 DEF NoteTypes, BufferIsDraft
  <2> QED
    BY <2>1, <2>2 DEF NoteKept, SavedOrKept
<1>5. CASE ClickNote
  <2>1. PICK n \in DOMAIN human : edit_human_note(n) /\ buf' = human[n].body
    BY <1>5 DEF ClickNote
  <2>2. UNCHANGED <<human, live, nextNote, tmux>> /\ mode' = "Note" /\ mode = "Normal"
    BY <1>5 DEF ClickNote
  <2>3. n \in NoteIds /\ human[n] \in Humans
    BY <1>0, <2>1 DEF NoteTypes, IsFunction
  <2>4. draft' \in Drafts /\ draft'.body = buf' /\ buf' \in Text
    BY <2>1, <2>3 DEF edit_human_note, Drafts, Humans
  <2>5. NoteTypes' /\ draft' # None
    BY <1>0, <2>2, <2>4, NoneIsApart DEF NoteTypes
  <2>6. BufferIsDraft'
    BY <1>0, <2>2, <2>4 DEF BufferIsDraft
  <2> QED
    BY <2>5, <2>6 DEF NoteKept, SavedOrKept
<1> QED
  BY <1>1, <1>2, <1>3, <1>4, <1>5

\* What a send through tmux comes to: the draft is saved, or it is back in the
\* editor, or it waits behind the pane picker.
Sent(d) == save_human_note_draft(d) /\ buf' = EmptyText /\ mode' = "Normal" /\ tmux' = NoPick
Returned(d, m) == draft' = d /\ UNCHANGED <<human, buf>> /\ tmux' = NoPick /\ mode' = m

Pickers == [picking : BOOLEAN, note : BOOLEAN]

\* The pickers there can be.
LEMMA PickersAre ==
  /\ NoPick \in Pickers /\ ~NoPick.note
  /\ [picking |-> TRUE, note |-> FALSE] \in Pickers /\ ~[picking |-> TRUE, note |-> FALSE].note
  /\ [picking |-> TRUE, note |-> TRUE] \in Pickers /\ [picking |-> TRUE, note |-> TRUE].picking
  /\ \A p \in Pickers : [p EXCEPT !.note = FALSE] \in Pickers /\ ~[p EXCEPT !.note = FALSE].note
<1>1. ASSUME NEW p \in Pickers
      PROVE  [p EXCEPT !.note = FALSE] \in Pickers /\ ~[p EXCEPT !.note = FALSE].note
  <2>1. [p EXCEPT !.note = FALSE] \in Pickers
    BY Zenon DEF Pickers
  <2>2. ~[p EXCEPT !.note = FALSE].note
    BY Zenon DEF Pickers
  <2> QED
    BY <2>1, <2>2
<1> QED
  BY <1>1 DEF NoPick, Pickers

\* An open draft is as the editor has it, whatever is sent.
LEMMA DraftSent ==
  ASSUME NoteInv, SendNote \/ SendSelection \/ handle_tmux_pick_key
  PROVE  NoteKept
<1>0. NoteTypes /\ BufferIsDraft
  BY DEF NoteInv
<1>1. UNCHANGED <<live, nextNote>>
  BY DEF SendNote, SendSelection, handle_tmux_pick_key
<1>2. ASSUME NEW d \in {None} \cup Drafts, Sent(d),
             draft # None => d # None /\ d.id = draft.id /\ d.body = draft.body /\ d.editing = draft.editing
      PROVE  NoteKept
  <2>1. /\ draft' = None /\ IsFunction(human', NoteIds, Humans)
        /\ (d # None /\ d.body # EmptyText /\ (d.editing => d.id \in DOMAIN human))
              => d.id \in DOMAIN human' /\ human'[d.id].body = d.body
    BY <1>0, <1>2, SavedIs DEF Sent
  <2>2. NoteTypes'
    BY <1>0, <1>1, <1>2, <2>1, TextMayBeEmpty DEF NoteTypes, Sent
  <2>3. BufferIsDraft'
    BY <1>2, <2>1 DEF BufferIsDraft, Sent, NoPick
  <2>4. SavedOrKept
    BY <1>2, <2>1 DEF SavedOrKept
  <2> QED
    BY <2>2, <2>3, <2>4 DEF NoteKept
<1>6. tmux \in Pickers
  BY <1>0 DEF BufferIsDraft, Pickers
<1>3. CASE SendNote
  <2>1. mode = "Note" /\ draft # None /\ draft \in Drafts /\ draft.body = buf /\ buf \in Text
    BY <1>0, <1>3 DEF SendNote, NoteTypes, BufferIsDraft
  <2> DEFINE d == Edited(draft, buf)
  <2>2. /\ d \in Drafts /\ d # None /\ d.body = buf
        /\ d.id = draft.id /\ d.editing = draft.editing
    BY <2>1, EditedIs
  <2>3. \/ Sent(d)
        \/ Returned(d, "Note")
        \/ /\ draft' = d /\ UNCHANGED <<human, buf>>
           /\ tmux' = [picking |-> TRUE, note |-> TRUE] /\ mode' = "Normal"
        \/ /\ draft' = d /\ UNCHANGED <<human, buf>>
           /\ tmux' = [tmux EXCEPT !.note = FALSE] /\ mode' = mode
    BY <1>3 DEF SendNote, request_tmux_send, dispatch_tmux_send, open_tmux_picker, Sent, Returned, Edited
  <2>4. CASE Sent(d)
    <3> HIDE DEF d
    <3> QED
      BY <1>2, <2>1, <2>2, <2>4
  <2>5. CASE ~Sent(d)
    <3> HIDE DEF d
    <3>1. draft' = d /\ UNCHANGED <<human, buf>> /\ mode' \in {"Note", "Normal"}
      BY <2>1, <2>3, <2>5 DEF Returned
    <3>2. tmux' \in Pickers /\ (tmux'.note => tmux'.picking)
      BY <1>6, <2>3, <2>5, PickersAre DEF Returned
    <3>3. NoteTypes' /\ BufferIsDraft'
      BY <1>0, <1>1, <2>2, <3>1, <3>2 DEF NoteTypes, BufferIsDraft, Pickers
    <3> QED
      BY <2>2, <3>1, <3>3 DEF NoteKept, SavedOrKept
  <2> QED
    BY <2>4, <2>5
<1>4. CASE SendSelection
  <2>1. /\ mode = "Normal" /\ mode' = mode /\ UNCHANGED <<human, buf, draft>>
        /\ \/ tmux' = NoPick
           \/ tmux' = [picking |-> TRUE, note |-> FALSE]
           \/ tmux' = [tmux EXCEPT !.note = FALSE]
    BY <1>4 DEF SendSelection, Keys, request_tmux_send, dispatch_tmux_send, open_tmux_picker
  <2>2. tmux' \in Pickers /\ ~tmux'.note
    BY <1>6, <2>1, PickersAre
  <2>3. NoteTypes' /\ BufferIsDraft'
    BY <1>0, <1>1, <2>1, <2>2 DEF NoteTypes, BufferIsDraft, Pickers
  <2> QED
    BY <2>1, <2>3 DEF NoteKept, SavedOrKept
<1>5. CASE handle_tmux_pick_key
  <2>1. /\ mode = "Normal"
        /\ \/ tmux.note /\ Sent(draft)
           \/ Returned(draft, IF tmux.note THEN "Note" ELSE mode)
    BY <1>5 DEF handle_tmux_pick_key, dispatch_tmux_send, cancel_tmux_picker, Sent, Returned
  <2>2. CASE Sent(draft)
    BY <1>0, <1>2, <2>2 DEF NoteTypes
  <2>3. CASE Returned(draft, IF tmux.note THEN "Note" ELSE mode)
    <3>1. NoteTypes' /\ BufferIsDraft'
      BY <1>0, <1>1, <2>1, <2>3 DEF NoteTypes, BufferIsDraft, Returned, NoPick
    <3> QED
      BY <2>3, <3>1 DEF NoteKept, SavedOrKept, Returned
  <2> QED
    BY <2>1, <2>2, <2>3
<1> QED
  BY <1>3, <1>4, <1>5

\* Confirming saves the open draft as the editor has it; of the two editors,
\* cancelling drops the draft of the one it leaves.
LEMMA InputLeft ==
  ASSUME NoteInv, confirm_input \/ cancel_input
  PROVE  NoteTypes' /\ BufferIsDraft' /\ (~cancel_input => SavedOrKept)
<1>0. NoteTypes /\ BufferIsDraft
  BY DEF NoteInv
<1>1. UNCHANGED <<live, nextNote, tmux>> /\ buf' = EmptyText /\ mode' = "Normal"
  BY DEF confirm_input, cancel_input
<1>2. CASE confirm_input /\ ConfirmNote
  <2> DEFINE d == IF draft = None THEN None ELSE Edited(draft, buf)
  <2>1. mode = "Note" /\ save_human_note_draft(d)
    BY <1>2 DEF ConfirmNote, Edited
  <2>2. draft # None => draft \in Drafts /\ draft.body = buf /\ buf \in Text
    BY <1>0, <2>1 DEF NoteTypes, BufferIsDraft
  <2>3. d \in {None} \cup Drafts
    BY <2>2, EditedIs
  <2>4. draft # None => d # None /\ d.body = draft.body /\ d.id = draft.id /\ d.editing = draft.editing
    BY <2>2, EditedIs
  <2> HIDE DEF d
  <2>5. /\ draft' = None /\ IsFunction(human', NoteIds, Humans)
        /\ (d # None /\ d.body # EmptyText /\ (d.editing => d.id \in DOMAIN human))
              => d.id \in DOMAIN human' /\ human'[d.id].body = d.body
    BY <1>0, <2>1, <2>3, SavedIs
  <2>6. NoteTypes' /\ BufferIsDraft'
    BY <1>0, <1>1, <2>5, TextMayBeEmpty DEF NoteTypes, BufferIsDraft
  <2>7. SavedOrKept
    BY <2>4, <2>5 DEF SavedOrKept
  <2> QED
    BY <2>6, <2>7
<1>3. CASE confirm_input /\ ConfirmAsk
  <2>1. mode = "Ask" /\ UNCHANGED <<human, draft>>
    BY <1>3 DEF ConfirmAsk
  <2>2. NoteTypes' /\ BufferIsDraft'
    BY <1>0, <1>1, <2>1, TextMayBeEmpty DEF NoteTypes, BufferIsDraft
  <2> QED
    BY <2>1, <2>2 DEF SavedOrKept
<1>4. CASE cancel_input
  <2>1. /\ UNCHANGED human /\ mode \in {"Note", "Ask"}
        /\ draft' = IF mode = "Note" THEN None ELSE draft
    BY <1>4 DEF cancel_input
  <2>2. NoteTypes' /\ BufferIsDraft'
    BY <1>0, <1>1, <2>1, TextMayBeEmpty DEF NoteTypes, BufferIsDraft
  <2> QED
    BY <1>4, <2>2
<1> QED
  BY <1>2, <1>3, <1>4 DEF confirm_input

\* One event keeps the invariant, and no text vanishes in it.
LEMMA EventIs ==
  ASSUME NoteInv, handle_event
  PROVE  NoteInv' /\ (~cancel_input => SavedOrKept)
<1>1. UNCHANGED reply /\ phase = "event" /\ phase' = "watch"
  BY DEF handle_event
<1>2. ReplyIsTaken'
  BY <1>1 DEF NoteInv, ReplyIsTaken
<1>3. files' = files
  BY DEF handle_event, StartNote, start_ask, edit_focused_buffer, confirm_input, cancel_input, close_overlay,
     ClickNote, SendNote, SendSelection, handle_tmux_pick_key, jump_to_ask_answer, NoEvent
<1>4. CASE StartNote \/ start_ask \/ edit_focused_buffer \/ close_overlay \/ ClickNote
           \/ jump_to_ask_answer \/ NoEvent
  BY <1>2, <1>3, <1>4, DraftMade DEF NoteInv, NoteKept
<1>5. CASE SendNote \/ SendSelection \/ handle_tmux_pick_key
  BY <1>2, <1>3, <1>5, DraftSent DEF NoteInv, NoteKept
<1>6. CASE confirm_input \/ cancel_input
  BY <1>2, <1>3, <1>6, InputLeft DEF NoteInv
<1> QED
  BY <1>4, <1>5, <1>6 DEF handle_event

\* The other steps of the loop and of the workers leave the notes alone, except
\* that a watch update drops what belongs to the files that left.
LEMMA OtherIs ==
  ASSUME NoteInv, apply_session_requests \/ poll_ask \/ apply_watch_update \/ Workers \/ UNCHANGED vars
  PROVE  /\ NoteInv' /\ (draft # None /\ draft' = None => draft.file \notin files')
         /\ phase' = "requests" /\ reply' = "error" =>
              UNCHANGED <<files, human, live, draft, asks, askDraft>>
<1>1. CASE apply_session_requests \/ poll_ask
  <2>1. /\ UNCHANGED <<files, human, live, draft, buf, nextNote, mode, tmux>>
        /\ phase' # "requests" /\ (reply' = None \/ (phase = "poll" /\ reply' = reply))
    BY <1>1 DEF apply_session_requests, poll_ask, notes
  <2>2. ReplyIsTaken'
    BY <2>1 DEF NoteInv, ReplyIsTaken
  <2>3. NoteTypes' /\ BufferIsDraft' /\ files' \subseteq Files
    BY <2>1 DEF NoteInv, NoteTypes, BufferIsDraft
  <2> QED
    BY <2>1, <2>2, <2>3 DEF NoteInv
<1>2. CASE apply_watch_update
  <2>1. phase = "watch" /\ phase' = "requests" /\ reply' = reply /\ UNCHANGED Editor
    BY <1>2 DEF apply_watch_update, Editor
  <2>2. ReplyIsTaken' /\ reply' # "error"
    BY <2>1, NoneIsApart DEF NoteInv, ReplyIsTaken
  <2>3. CASE \E fs \in SUBSET Files : replace_files(fs)
    BY <2>1, <2>2, <2>3, ReplacedIs DEF NoteInv
  <2>4. CASE UNCHANGED <<files, human, live, draft, asks, askDraft>>
    <3>1. NoteTypes' /\ BufferIsDraft'
      BY <2>1, <2>4 DEF NoteInv, NoteTypes, BufferIsDraft, Editor
    <3> QED
      BY <2>2, <2>4, <3>1 DEF NoteInv
  <2> QED
    BY <1>2, <2>3, <2>4 DEF apply_watch_update
<1>3. CASE Workers \/ UNCHANGED vars
  <2>1. UNCHANGED <<files, human, live, draft, buf, nextNote, mode, tmux, asks, askDraft, phase, reply>>
    BY <1>3 DEF Workers, WorkerSends, WorkerEnds, vars, notes, asking
  <2>2. ReplyIsTaken' /\ NoteTypes' /\ BufferIsDraft'
    BY <2>1 DEF NoteInv, ReplyIsTaken, NoteTypes, BufferIsDraft
  <2> QED
    BY <2>1, <2>2 DEF NoteInv
<1> QED
  BY <1>1, <1>2, <1>3

\* The review starts with no note and no open editor.
LEMMA NoteInit == Init => NoteInv
<1> SUFFICES ASSUME Init PROVE NoteInv
  OBVIOUS
<1>1. IsFunction(human, NoteIds, Humans) /\ IsFunction(live, LiveIds, Files)
  BY DEF Init, IsFunction
<1>2. NoteTypes
  BY <1>1, TextMayBeEmpty, BoundsAreNatural DEF Init, NoteTypes
<1>3. BufferIsDraft /\ ReplyIsTaken /\ files \subseteq Files
  BY DEF Init, BufferIsDraft, NoPick, ReplyIsTaken
<1> QED
  BY <1>2, <1>3 DEF NoteInv

\* Every step keeps the invariant of the notes.
LEMMA NoteStep == NoteInv /\ [Next]_vars => NoteInv'
BY RequestIs, EventIs, OtherIs DEF Next, Loop

\* A request of an agent that is answered with an error has changed nothing, a
\* batch refused at its second comment included.
THEOREM RefusalIsClean == Spec => RefusedChangesNothing
<1>1. NoteInv /\ [Next]_vars =>
        [reply' = "error" /\ phase' = "requests" =>
           UNCHANGED <<files, human, live, draft, asks, askDraft>>]_vars
  <2> SUFFICES ASSUME NoteInv, [Next]_vars, reply' = "error", phase' = "requests"
               PROVE  UNCHANGED <<files, human, live, draft, asks, askDraft>>
    OBVIOUS
  <2>1. CASE apply_session_request
    BY <2>1, RequestIs
  <2>2. CASE handle_event
    BY <2>2 DEF handle_event
  <2>3. CASE apply_session_requests \/ poll_ask \/ apply_watch_update \/ Workers \/ UNCHANGED vars
    BY <2>3, OtherIs
  <2> QED
    BY <2>1, <2>2, <2>3 DEF Next, Loop
<1> QED
  BY <1>1, NoteInit, NoteStep, PTL DEF Spec, RefusedChangesNothing

\* The text of an open note editor is saved when its draft goes, unless the
\* reviewer cancels, its file leaves or an agent removed its note.
THEOREM NoTextIsLost == Spec => DraftSavedOrCancelled
<1> DEFINE A == (/\ draft # None /\ draft' = None /\ ~cancel_input
                 /\ draft.file \in files' /\ (draft.editing => draft.id \in DOMAIN human)
                 /\ draft.body # EmptyText)
                => draft.id \in DOMAIN human' /\ human'[draft.id].body = draft.body
<1>1. NoteInv /\ [Next]_vars => [A]_vars
  <2> SUFFICES ASSUME NoteInv, [Next]_vars PROVE A
    OBVIOUS
  <2>1. CASE apply_session_request
    BY <2>1, RequestIs
  <2>2. CASE handle_event
    BY <2>2, EventIs DEF SavedOrKept
  <2>3. CASE apply_session_requests \/ poll_ask \/ apply_watch_update \/ Workers \/ UNCHANGED vars
    BY <2>3, OtherIs
  <2> QED
    BY <2>1, <2>2, <2>3 DEF Next, Loop
<1> QED
  BY <1>1, NoteInit, NoteStep, PTL DEF Spec, DraftSavedOrCancelled

-----------------------------------------------------------------------------
(* Types.  What SelectSeq would return is the solution of a recursion.     *)

\* Every set of numbers has a least one.
LEMMA LeastNat ==
  ASSUME NEW T, T \subseteq Nat, T # {}
  PROVE  \E n \in T : \A m \in T : n <= m
<1> DEFINE less == {ss \in Nat \X Nat : ss[1] < ss[2]}
<1>1. IsWellFoundedOn(less, Nat)
  BY NatLessThanWellFounded DEF OpToRel
<1> HIDE DEF less
<1>2. PICK n \in T : \A m \in T : ~(<<m, n>> \in less)
  BY <1>1, WFMin
<1>3. \A m \in T : ~(m < n)
  BY <1>2 DEF less
<1> QED BY <1>3

\* What is kept of the first k ids.
KeptOf(ids, f, k) == IF k = 0 THEN <<>> ELSE IF ids[k] \in DOMAIN asks THEN Append(f[k - 1], ids[k]) ELSE f[k - 1]
IsKept(ids, f, n) == f = [k \in 0 .. n |-> KeptOf(ids, f, k)]

\* The ids offered are a solution of the recursion.
LEMMA OfferedIsChosen ==
  ASSUME NEW ids
  PROVE  Offered(ids) = (CHOOSE f : IsKept(ids, f, Len(ids)))[Len(ids)]
BY DEF Offered, IsKept, KeptOf

\* It has one, for any number of ids.
LEMMA KeptExists ==
  ASSUME NEW ids, NEW n \in Nat
  PROVE  \E f : IsKept(ids, f, n)
<1> DEFINE T == {k \in Nat : ~\E f : IsKept(ids, f, k)}
<1>1. SUFFICES ASSUME T # {} PROVE FALSE
  OBVIOUS
<1>2. PICK k \in T : \A m \in T : k <= m
  <2>1. T \subseteq Nat
    OBVIOUS
  <2> HIDE DEF T
  <2> QED BY <1>1, <2>1, LeastNat
<1>3. k # 0
  <2>1. IsKept(ids, [i \in 0 .. 0 |-> <<>>], 0)
    BY DEF IsKept, KeptOf
  <2> QED BY <2>1
<1>4. k - 1 \in Nat /\ k \in Nat
  BY <1>3
<1>5. PICK f : IsKept(ids, f, k - 1)
  BY <1>2, <1>4
<1> DEFINE g == [i \in 0 .. k |-> IF i = k THEN KeptOf(ids, f, k) ELSE f[i]]
<1>6. \A i \in 0 .. k - 1 : f[i] = KeptOf(ids, f, i)
  BY <1>5 DEF IsKept
<1>7. \A i \in 0 .. k : g[i] = KeptOf(ids, g, i)
  BY <1>4, <1>6 DEF KeptOf
<1>8. g = [i \in 0 .. k |-> KeptOf(ids, g, i)]
  <2>1. g = [i \in 0 .. k |-> g[i]]
    OBVIOUS
  <2> HIDE DEF g
  <2> QED BY <1>7, <2>1
<1>9. IsKept(ids, g, k)
  BY <1>8 DEF IsKept
<1> QED BY <1>9

\* What is offered are ids of cards.
LEMMA OfferedTyped ==
  ASSUME NEW ids \in Seq(Int), DOMAIN asks \subseteq AskIds
  PROVE  Offered(ids) \in Seq(AskIds)
<1> DEFINE f == CHOOSE h : IsKept(ids, h, Len(ids))
           T == {k \in Nat : k \in 0 .. Len(ids) /\ f[k] \notin Seq(AskIds)}
<1>1. Len(ids) \in Nat
  OBVIOUS
<1>2. IsKept(ids, f, Len(ids))
  BY <1>1, KeptExists
<1>3. Offered(ids) = f[Len(ids)]
  BY OfferedIsChosen
<1> HIDE DEF f
<1>4. \A k \in 0 .. Len(ids) : f[k] = KeptOf(ids, f, k)
  BY <1>2 DEF IsKept
<1>5. SUFFICES ASSUME T # {} PROVE FALSE
  BY <1>1, <1>3
<1>6. PICK k \in T : \A m \in T : k <= m
  <2>1. T \subseteq Nat
    OBVIOUS
  <2> HIDE DEF T
  <2> QED BY <1>5, <2>1, LeastNat
<1>7. CASE k = 0
  <2>1. f[k] = <<>>
    BY <1>1, <1>4, <1>6, <1>7 DEF KeptOf
  <2>2. <<>> \in Seq(AskIds)
    OBVIOUS
  <2> QED BY <1>6, <2>1, <2>2
<1>8. CASE k # 0
  <2>1. k - 1 \in 0 .. Len(ids) /\ k \in 0 .. Len(ids) /\ ~(k <= k - 1)
    BY <1>1, <1>6, <1>8
  <2>2. f[k - 1] \in Seq(AskIds)
    BY <1>6, <2>1
  <2>3. f[k] = IF ids[k] \in DOMAIN asks THEN Append(f[k - 1], ids[k]) ELSE f[k - 1]
    BY <1>4, <1>8, <2>1 DEF KeptOf
  <2>4. \A x \in AskIds : Append(f[k - 1], x) \in Seq(AskIds)
    BY <2>2
  <2>5. f[k] \in Seq(AskIds)
    BY <2>2, <2>3, <2>4
  <2> QED BY <1>6, <2>5
<1> QED BY <1>7, <1>8

\* What is left of the state.
RestTypes ==
  /\ unseen \in Seq(AskIds)
  /\ phase \in {"requests", "poll", "event", "watch"} /\ reply \in {None, "ok", "error"}

\* A poll adds the cards of its updates, and offers those that are there.
LEMMA PollOffers == ASSUME AskInv, unseen \in Seq(AskIds), poll_ask PROVE unseen' \in Seq(AskIds)
<1>1. DOMAIN asks \subseteq AskIds /\ IsFunction(jobs, AskIds, AskIds) /\ updates \in Seq(Updates) /\ AskIds \subseteq Int
  BY DEF AskInv, AskTypes, IsFunction, AskIds
<1>2. PollBudget \in Nat /\ Len(updates) \in Nat
  BY <1>1, BoundsAreNatural
<1>3. Len(Taken) \in Nat /\ DOMAIN Taken = 1 .. Len(Taken)
  BY <1>1, <1>2 DEF Taken
<1> DEFINE known == {i \in DOMAIN Taken : Taken[i].job \in DOMAIN jobs}
           about == [i \in known |-> jobs[Taken[i].job]]
           cards == [i \in DOMAIN Taken |-> IF i \in known THEN about[i] ELSE 0]
<1>4. \A i \in DOMAIN Taken : cards[i] \in Int
  BY <1>1 DEF IsFunction
<1>5. unseen' = Offered(unseen \o cards)
  BY Zenon DEF poll_ask
<1>6. DOMAIN cards = DOMAIN Taken /\ cards = [i \in DOMAIN Taken |-> cards[i]]
  OBVIOUS
<1> HIDE DEF cards
<1>7. cards \in Seq(Int)
  BY <1>3, <1>4, <1>6
<1>8. unseen \in Seq(Int)
  <2>1. Len(unseen) \in Nat /\ unseen = [i \in 1 .. Len(unseen) |-> unseen[i]]
        /\ \A i \in 1 .. Len(unseen) : unseen[i] \in AskIds
    OBVIOUS
  <2> QED BY <1>1, <2>1
<1>9. unseen \o cards \in Seq(Int)
  BY <1>7, <1>8
<1> QED BY <1>1, <1>5, <1>9, OfferedTyped

\* The rest of the state keeps its type.
LEMMA RestStep == ASSUME AskInv, RestTypes, [Next]_vars PROVE RestTypes'
<1>1. CASE UNCHANGED vars
  BY <1>1 DEF RestTypes, vars, asking
<1>2. CASE apply_session_request
  <2>1. UNCHANGED <<unseen, phase>>
    BY <1>2 DEF apply_session_request
  <2>2. reply' \in {"ok", "error"}
    <3>1. CASE add_comment \/ apply_comments
      BY <3>1 DEF add_comment, apply_comments, Respond
    <3>2. CASE remove_comment \/ clear_comments
      BY <3>2 DEF remove_comment, clear_comments, Respond
    <3>3. CASE apply_session_reload
      BY <3>3 DEF apply_session_reload, Respond
    <3> QED BY <1>2, <3>1, <3>2, <3>3 DEF apply_session_request
  <2> QED BY <2>1, <2>2 DEF RestTypes
<1>3. CASE apply_session_requests
  BY <1>3 DEF apply_session_requests, asking, RestTypes
<1>4. CASE poll_ask
  <2>1. phase' = "event" /\ UNCHANGED reply
    BY <1>4 DEF poll_ask
  <2> QED BY <1>4, <2>1, PollOffers DEF RestTypes
<1>5. CASE handle_event
  <2>1. phase' = "watch" /\ UNCHANGED reply
    BY <1>5 DEF handle_event
  <2>2. UNCHANGED unseen \/ (unseen # <<>> /\ unseen' = Tail(unseen))
    BY <1>5 DEF handle_event, StartNote, start_ask, edit_focused_buffer, confirm_input, cancel_input, close_overlay,
       ClickNote, SendNote, SendSelection, handle_tmux_pick_key, jump_to_ask_answer, NoEvent, asking
  <2>3. unseen' \in Seq(AskIds)
    BY <2>2 DEF RestTypes
  <2> QED BY <2>1, <2>3 DEF RestTypes
<1>6. CASE apply_watch_update
  BY <1>6 DEF apply_watch_update, RestTypes
<1>7. CASE Workers
  BY <1>7 DEF Workers, WorkerSends, WorkerEnds, asking, RestTypes
<1> QED BY <1>1, <1>2, <1>3, <1>4, <1>5, <1>6, <1>7 DEF Next, Loop

\* The whole state has its type, for any files, texts, agents and bounds: an editor has its
\* draft or none, and the answers offered to the jump key are of cards.
THEOREM NotesTyped == Spec => []TypeOK
<1>1. Init => RestTypes
  BY NoneIsApart DEF Init, RestTypes
<1>2. AskInv /\ NoteInv /\ RestTypes => TypeOK
  <2> SUFFICES ASSUME AskInv, NoteInv, RestTypes PROVE TypeOK
    OBVIOUS
  <2>1. AskTypes /\ NoteTypes /\ BufferIsDraft
    BY DEF AskInv, NoteInv
  <2>2. \A f, S, T : IsFunction(f, S, T) => IsPartial(f, S, T)
    BY DEF IsFunction, IsPartial
  <2>3. /\ IsPartial(human, NoteIds, [file : Files, body : Text])
        /\ IsPartial(live, LiveIds, Files)
        /\ IsPartial(asks, AskIds, [question : AskIds, thread : AskIds, file : Files, range : Ranges, state : States])
        /\ IsPartial(workers, AskIds, [question : AskIds, st : {"running", "sent", "done"}])
        /\ IsPartial(jobs, AskIds, AskIds)
    BY <2>1, <2>2 DEF NoteTypes, AskTypes, Humans, Asks, Jobs
  <2>4. nextJob \in 1 .. MaxAsks + 1
    BY <2>1, BoundsAreNatural DEF AskTypes
  <2>5. updates \in Seq([job : AskIds, question : AskIds, ok : BOOLEAN])
    BY <2>1 DEF AskTypes, Updates
  <2> QED BY <2>1, <2>3, <2>4, <2>5 DEF NoteTypes, AskTypes, BufferIsDraft, RestTypes, TypeOK
<1>3. AskInv /\ NoteInv /\ RestTypes /\ [Next]_vars => (AskInv /\ NoteInv /\ RestTypes)'
  BY AskStep, NoteStep, RestStep
<1> QED BY <1>1, <1>2, <1>3, AskInit, NoteInit, PTL DEF Spec
=============================================================================
