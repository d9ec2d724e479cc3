------------------------------ MODULE ChatPane ------------------------------
(***************************************************************************)
(* The chat pane: a conversation about the review that outlives the        *)
(* process.  Each turn runs pi on a thread of its own (AskRuntime) with a  *)
(* prompt that carries what the model has not been told yet; pi keeps the  *)
(* rest in a session file of its own.  The transcript is stored on disk.   *)
(*                                                                         *)
(* A text is its number: a question is the number of its turn, a note its  *)
(* version (0: there is none).  pi is external: what its session knows is  *)
(* modelled from the prompts it was given.                                 *)
(***************************************************************************)
EXTENDS Integers, Sequences, FiniteSets

CONSTANTS Items,          \* notes, answered asks, the overall comment
          MaxVersion,     \* bound on the versions of one of them
          MaxTurns,       \* bound on questions
          MaxConcurrent,  \* MAX_CONCURRENT_ASKS
          MaxReplay,      \* MAX_REPLAY_TURNS
          None, Damaged   \* no entry on disk; one that cannot be read

VARIABLES convo,   \* the pane of the running process, or None
          work,    \* what the reviewer has written
          disk,    \* the stored conversation
          session, \* what pi's session file holds, or None
          past     \* history: answers shown, what may have gone wrong

chatVars == <<convo, work, disk, session, past>>

Versions == 0..MaxVersion
Turns == 1..MaxTurns
NothingSent == [i \in Items |-> 0]
Forgetful == [header |-> FALSE, items |-> NothingSent, turns |-> {}]

\* ChatTurn, a prompt, ChatPaneState, and what a session holds.
Transcripts == Seq([q : Turns, state : {"Pending", "Failed", "Answered"}, answer : Turns \union {None}])
Prompts == [header : BOOLEAN, items : UNION {[changed -> Versions] : changed \in SUBSET Items}, turns : SUBSET Turns]
Panes ==
  [turns : Transcripts, jobs : UNION {[ids -> Nat] : ids \in SUBSET Turns}, running : SUBSET [id : Turns, prompt : Prompts],
   threads : SUBSET Turns, inbox : Seq([id : Turns, state : {"Failed", "Answered"}]),
   sent : [header : BOOLEAN, items : [Items -> Versions]], replay : BOOLEAN, dirty : BOOLEAN]
Sessions == [header : BOOLEAN, items : [Items -> Versions], turns : SUBSET Turns]
Pasts == [asked : 0 .. MaxTurns, shown : SUBSET Turns, lost : BOOLEAN, clean : BOOLEAN, whole : BOOLEAN, informed : BOOLEAN]

\* ChatPaneState::new.
Fresh == [turns |-> <<>>, jobs |-> <<>>, running |-> {}, threads |-> {}, inbox |-> <<>>,
          sent |-> [header |-> FALSE, items |-> NothingSent], replay |-> FALSE, dirty |-> FALSE]

Init ==
  /\ convo = None /\ work = NothingSent /\ disk = None /\ session = None
  /\ past = [asked |-> 0, shown |-> {}, lost |-> FALSE, clean |-> TRUE, whole |-> TRUE, informed |-> TRUE]

\* A pending turn can only be read back as interrupted.
Interrupted(turns) ==
  [i \in DOMAIN turns |-> IF turns[i].state = "Pending" THEN [turns[i] EXCEPT !.state = "Failed"] ELSE turns[i]]

Answered(turns) == {turns[i].q : i \in {j \in DOMAIN turns : turns[j].state = "Answered"}}
-----------------------------------------------------------------------------
(* The store.                                                              *)

\* ChatStore::load: any doubt is a miss, and the doubtful file is removed.
load(d) == IF d \in {None, Damaged} THEN None ELSE Interrupted(d)

\* ChatStore::save replaces the entry in one rename, or fails and leaves what
\* load made of it; either way the pane is clean again (persist_chat).
save(d, turns, ok) == IF ok THEN Interrupted(turns) ELSE load(d)
persist_chat(c, d, ok) == IF c.dirty THEN save(d, c.turns, ok) ELSE d

\* restore_chat: a transcript pi cannot resume is replayed with the next prompt.
restore_chat(d) ==
  IF load(d) = None THEN Fresh
  ELSE [Fresh EXCEPT !.turns = load(d), !.replay = (session = None)]

Start ==
  /\ convo = None
  /\ convo' = restore_chat(disk)
  /\ disk' = IF disk = Damaged THEN None ELSE disk
  /\ LET whole == past.whole \/ session = None
     IN  past' = [past EXCEPT !.clean = whole, !.whole = whole, !.lost = FALSE,
                    !.shown = IF past.lost THEN Answered(convo'.turns) ELSE @]
  /\ work' = NothingSent /\ UNCHANGED session

\* History: no prompt under way has a thread to replay.
CarriesNoThread(running) == \A job \in running : job.prompt.turns = {}

\* The end of run_loop: the transcript is written whatever happened before, and
\* threads are not joined (AskRuntime::drop).
Quit ==
  /\ convo # None
  /\ \E ok \in BOOLEAN : /\ disk' = persist_chat([convo EXCEPT !.dirty = TRUE], disk, ok)
                         /\ past' = [past EXCEPT !.lost = ~ok, !.whole = @ /\ CarriesNoThread(convo.running)]
  /\ convo' = None
  /\ UNCHANGED <<work, session>>

Kill ==
  /\ convo # None /\ convo' = None
  /\ past' = [past EXCEPT !.whole = @ /\ CarriesNoThread(convo.running)]
  /\ UNCHANGED <<work, disk, session>>

-----------------------------------------------------------------------------
(* Prompts.                                                                *)

\* The last MaxReplay turns that were answered.
Replayed(turns) ==
  {turns[i].q : i \in {j \in DOMAIN turns : turns[j].state = "Answered" /\ j > Len(turns) - MaxReplay}}

\* What is new since the last dispatched prompt: fresh and changed items, removed ones.
Delta(sent) == {i \in Items : sent.items[i] # work[i]}

\* compose_prompt: the prompt, and the watermark that follows from sending it.
compose_prompt(c) ==
  [prompt |-> [header |-> ~c.sent.header, items |-> [i \in Delta(c.sent) |-> work[i]],
               turns |-> IF c.replay THEN Replayed(c.turns) ELSE {}],
   next |-> [header |-> TRUE, items |-> work]]

\* What the model knows once it has read a prompt in its session.
Read(memory, prompt, q) ==
  [header |-> memory.header \/ prompt.header,
   items |-> [i \in Items |-> IF i \in DOMAIN prompt.items THEN prompt.items[i] ELSE memory.items[i]],
   turns |-> memory.turns \union prompt.turns \union {q}]
Memory == IF session = None THEN Forgetful ELSE session

\* Nothing that was dispatched is under way, was overtaken or failed, and no thread that was to
\* be replayed is lost, so the session is as the pane assumes.
Settled == past.clean /\ convo.running = {} /\ convo.inbox = <<>>
\* Header, notes and the answered part of the thread (as far as replay goes) are known.
Informed(prompt) ==
  LET known == Read(Memory, prompt, 0)
  IN  /\ known.header /\ \A i \in Items : work[i] \in {0, known.items[i]}
      /\ Replayed(convo.turns) \subseteq known.turns

\* AskRuntime::start refuses while MaxConcurrent threads are alive.
Busy(c) == Cardinality(c.threads) >= MaxConcurrent

\* The turn a job answers, for each job.
Assigned(jobs, q, index) == [id \in DOMAIN jobs \union {q} |-> IF id = q THEN index ELSE jobs[id]]

\* Mutant: a refused turn consumes the delta as well.
ConsumedAnyway(c, q, index) ==
  [c EXCEPT !.turns = Append(@, [q |-> q, state |-> IF Busy(c) THEN "Failed" ELSE "Pending", answer |-> None]),
            !.sent = compose_prompt(c).next, !.replay = FALSE, !.dirty = TRUE,
            !.jobs = IF Busy(c) THEN @ ELSE Assigned(@, q, index),
            !.running = IF Busy(c) THEN @ ELSE @ \union {[id |-> q, prompt |-> compose_prompt(c).prompt]},
            !.threads = IF Busy(c) THEN @ ELSE @ \union {q}]

\* The second half of send_chat_turn: only a dispatched turn consumes the delta.
Dispatched(c, q, index) ==
  IF Busy(c)
  THEN [c EXCEPT !.turns = Append(@, [q |-> q, state |-> "Failed", answer |-> None])]
  ELSE [c EXCEPT !.turns = Append(@, [q |-> q, state |-> "Pending", answer |-> None]),
                 !.jobs = Assigned(@, q, index),
                 !.running = @ \union {[id |-> q, prompt |-> compose_prompt(c).prompt]},
                 !.threads = @ \union {q},
                 !.sent = compose_prompt(c).next, !.replay = FALSE, !.dirty = TRUE]

send_chat_turn ==
  /\ convo # None /\ past.asked < MaxTurns
  /\ LET q == past.asked + 1 IN
       /\ convo' = Dispatched(convo, q, Len(convo.turns) + 1)
       /\ past' = [past EXCEPT !.asked = q,
                     !.informed = @ /\ (Settled /\ ~Busy(convo) => Informed(compose_prompt(convo).prompt))]
  /\ UNCHANGED <<work, disk, session>>

\* A worker: pi answers and remembers, or fails; then the update is sent.
WorkerSends(ok) ==
  /\ convo # None
  /\ \E job \in convo.running :
       /\ convo' = [convo EXCEPT !.running = @ \ {job},
                      !.inbox = Append(@, [id |-> job.id, state |-> IF ok THEN "Answered" ELSE "Failed"])]
       /\ session' = IF ok THEN Read(Memory, job.prompt, job.id) ELSE session
       /\ past' = [past EXCEPT !.clean = @ /\ ok /\ \A other \in convo.running : job.id <= other.id,
                               !.whole = @ /\ (ok \/ job.prompt.turns = {})]
  /\ UNCHANGED <<work, disk>>

ThreadEnds ==
  /\ convo # None
  /\ \E t \in convo.threads :
       /\ \A job \in convo.running : job.id # t
       /\ convo' = [convo EXCEPT !.threads = @ \ {t}]
  /\ UNCHANGED <<work, disk, session, past>>

\* The update for a job lands in the turn that started it.
Landed(c, update) ==
  [c EXCEPT !.turns[c.jobs[update.id]] = [@ EXCEPT !.state = update.state, !.answer = update.id]]

\* poll_chat ends by storing the transcript.
AfterPoll(c, d, ok) == persist_chat([c EXCEPT !.dirty = TRUE], d, ok)

poll_chat ==
  /\ convo # None /\ convo.inbox # <<>>
  /\ \E ok \in BOOLEAN :
       LET update == Head(convo.inbox)
           next == [Landed(convo, update) EXCEPT !.inbox = Tail(@), !.dirty = FALSE]
       IN  /\ convo' = next
           /\ disk' = AfterPoll(next, disk, ok)
           /\ past' = [past EXCEPT !.lost = ~ok,
                !.shown = IF update.state = "Answered" THEN @ \union {update.id} ELSE @]
  /\ UNCHANGED <<work, session>>

-----------------------------------------------------------------------------
(* Outside: the reviewer writes; other reviews evict the entry, it is      *)
(* damaged; pi's session file is removed.                                  *)

Writes ==
  /\ \E i \in Items : \E v \in {0, work[i] + 1} \intersect Versions : work' = [work EXCEPT ![i] = v]
  /\ convo # None /\ UNCHANGED <<convo, disk, session, past>>

DiskFails ==
  /\ disk # None
  /\ disk' \in {None, Damaged}
  /\ past' = [past EXCEPT !.lost = TRUE]
  /\ UNCHANGED <<convo, work, session>>

\* Only between two processes: a running one cannot notice.
SessionRemoved == convo = None /\ session # None /\ session' = None /\ UNCHANGED <<convo, work, disk, past>>

Next ==
  \/ Start \/ Quit \/ Kill \/ send_chat_turn \/ poll_chat \/ ThreadEnds
  \/ \E ok \in BOOLEAN : WorkerSends(ok)
  \/ Writes \/ DiskFails \/ SessionRemoved

-----------------------------------------------------------------------------
(* Properties.                                                             *)

\* A question asked when nothing else is under way, and no earlier one failed or was answered
\* out of turn, reaches a model that knows the review, every note there is as it stands and the
\* thread so far: from the prompt or from its session, whatever was restored, refused, edited
\* or removed before (compose_prompt, ChatSent, restore_chat).  A restart makes good what went
\* wrong, unless it was the replay of the thread and the session has gone on without it.
ModelIsTold == past.informed

\* An answer belongs to the turn that asked, and once it was on screen it is in
\* the transcript of every later process, also after a kill, unless a save
\* failed or the entry was evicted or damaged (poll_chat, persist_chat).
AnswersAreKept ==
  LET transcript == IF convo # None THEN convo.turns ELSE IF load(disk) = None THEN <<>> ELSE load(disk)
  IN  /\ \A i \in DOMAIN transcript : transcript[i].answer \in {None, transcript[i].q}
      /\ ~past.lost => \A q \in past.shown :
           \E i \in DOMAIN transcript : transcript[i].q = q /\ transcript[i].state = "Answered"
=============================================================================
