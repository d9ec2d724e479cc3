-------------------------- MODULE AnalysisCoordinator --------------------------
(***************************************************************************)
(* The analysis coordinator of ramo-server                                 *)
(* (crates/ramo-server/src/analysis/coordinator.rs): API handlers resolve  *)
(* a pull request to a Review Map job, coalesce on the cache key, queue    *)
(* the work on a bounded channel, and one worker task runs the analyzer,   *)
(* caches the enriched map and publishes the job's terminal state.         *)
(*                                                                         *)
(* Every await of the Rust code is a step boundary; what runs under one    *)
(* acquisition of the state lock is one step.                              *)
(***************************************************************************)
EXTENDS Integers, Sequences, FiniteSets

CONSTANTS
  Clients,       \* API handler tasks
  PullRequests,  \* (repository, number) pairs
  MaxHead,       \* bound: head revisions are 1..MaxHead in push order
  Digests,       \* digests the installed model can have
  JobIds,        \* bound: job ids that can be allocated
  Capacity,      \* capacity of the work channel (64 in the code)
  Impatient,     \* the clients that may hang up on a pending handler
  None           \* Rust's None: no job, no map, no cache key

Heads == 1..MaxHead

\* ReviewMapCacheIdentity, cut down to the parts that change at run time.
Keys == [pr : PullRequests, head : Heads, digest : Digests]

\* An enriched map: the exact map it was merged into and the digest the
\* analyzer reported.
EnrichedMaps == [pr : PullRequests, head : Heads, reported : Digests]

JobStates == {"Queued", "Analyzing", "Enriched", "Unavailable", "Failed"}
Terminal == {"Enriched", "Unavailable", "Failed"}
MapStatuses == {"Analyzing", "Enriched", "Stale", "Unavailable", "Failed"}

\* JobRecord with its JobSnapshot; an id that is not allocated maps to None.
JobRecords ==
  [state : JobStates, status : MapStatuses, map : EnrichedMaps \cup {None},
   cache_key : Keys \cup {None}, pr : PullRequests, head : Heads]

\* The handler's position: the await it is suspended at.
CallPcs == {"idle", "load", "identity", "cache", "lock", "send"}
Calls ==
  [pc : CallPcs, pr : PullRequests \cup {None}, expected : Heads \cup {None},
   head : Heads \cup {None}, digest : Digests \cup {None},
   job : JobIds \cup {None}]
IdleCall ==
  [pc |-> "idle", pr |-> None, expected |-> None, head |-> None,
   digest |-> None, job |-> None]

WorkerPhases == {"idle", "received", "analyzing", "generating", "finishing"}
Outcomes ==
  [state : Terminal, status : MapStatuses, map : EnrichedMaps \cup {None}]
Workers ==
  [phase : WorkerPhases, job : JobIds \cup {None},
   reported : Digests \cup {None}, outcome : Outcomes \cup {None}]
IdleWorker ==
  [phase |-> "idle", job |-> None, reported |-> None, outcome |-> None]

ASSUME CoordinatorAssumption ==
  /\ MaxHead \in Nat \ {0}
  /\ Capacity \in Nat \ {0}
  /\ Impatient \subseteq Clients
  /\ Digests # {}
  /\ None \notin PullRequests
  /\ None \notin Heads
  /\ None \notin Digests
  /\ None \notin JobIds
  /\ None \notin Keys
  /\ None \notin EnrichedMaps
  /\ None \notin Outcomes
  /\ None \notin JobRecords

VARIABLES
  head,       \* GitHub's head of each pull request (environment)
  digest,     \* the digest of the installed model (environment)
  calls,      \* the resolve() call each handler task is running
  jobs,       \* CoordinatorState.jobs
  in_flight,  \* CoordinatorState.in_flight
  queue,      \* the mpsc channel of AnalysisWork, by job id
  worker,     \* the worker task
  cache       \* ReviewMapCache: key to the map stored under it

vars == <<head, digest, calls, jobs, in_flight, queue, worker, cache>>
env == <<head, digest>>

TypeOK ==
  /\ head \in [PullRequests -> Heads]
  /\ digest \in Digests
  /\ calls \in [Clients -> Calls]
  /\ jobs \in [JobIds -> JobRecords \cup {None}]
  /\ in_flight \in [Keys -> JobIds \cup {None}]
  /\ queue \in Seq(JobIds)
  /\ worker \in Workers
  /\ cache \in [Keys -> EnrichedMaps \cup {None}]

Init ==
  /\ head = [p \in PullRequests |-> 1]
  /\ digest \in Digests
  /\ calls = [c \in Clients |-> IdleCall]
  /\ jobs = [j \in JobIds |-> None]
  /\ in_flight = [k \in Keys |-> None]
  /\ queue = <<>>
  /\ worker = IdleWorker
  /\ cache = [k \in Keys |-> None]

-----------------------------------------------------------------------------
\* Helpers.

IsJob(j) == jobs[j] # None
HasState(j, S) == IsJob(j) /\ jobs[j].state \in S

CallKey(c) ==
  [pr |-> calls[c].pr, head |-> calls[c].head, digest |-> calls[c].digest]

\* status_for
StatusFor(state) ==
  CASE state \in {"Queued", "Analyzing"} -> "Analyzing"
    [] OTHER -> state

\* record_terminal: a fresh job that is terminal from the start.
RecordTerminal(j, pr, h, state, map) ==
  /\ ~IsJob(j)
  /\ jobs' = [jobs EXCEPT ![j] =
        [state |-> state, status |-> StatusFor(state), map |-> map,
         cache_key |-> None, pr |-> pr, head |-> h]]

\* Queued jobs of the pull request whose head is not h (cancel_stale_queued).
StaleQueued(pr, h) ==
  {j \in JobIds : HasState(j, {"Queued"}) /\ jobs[j].pr = pr /\ jobs[j].head # h}

\* Mutant: a cancelled job keeps its key in flight.
InFlightKept(cancelled) == in_flight

\* in_flight once the keys of the cancelled jobs are removed.
InFlightWithout(cancelled) ==
  [k \in Keys |-> IF \E j \in cancelled : jobs[j].cache_key = k
                    THEN None ELSE in_flight[k]]

\* evict_locked: any entries may turn out expired or beyond the size limit.
Evicted(entries) ==
  {[k \in Keys |-> IF k \in gone THEN None ELSE entries[k]] : gone \in SUBSET Keys}

EndCall(c) == calls' = [calls EXCEPT ![c] = IdleCall]

-----------------------------------------------------------------------------
\* Environment: GitHub, the model store and the clients.

PushHead(p) ==
  /\ head[p] < MaxHead
  /\ head' = [head EXCEPT ![p] = @ + 1]
  /\ UNCHANGED <<digest, calls, jobs, in_flight, queue, worker, cache>>

InstallModel(d) ==
  /\ d # digest
  /\ digest' = d
  /\ UNCHANGED <<head, calls, jobs, in_flight, queue, worker, cache>>

\* The connection of a handler that is suspended at an await is closed: its
\* future is dropped. A send only suspends while the channel is full.
ClientDisconnect(c) ==
  /\ c \in Impatient
  /\ \/ calls[c].pc \in {"load", "identity", "lock"}
     \/ calls[c].pc = "send" /\ Len(queue) = Capacity
  /\ EndCall(c)
  /\ UNCHANGED <<head, digest, jobs, in_flight, queue, worker, cache>>

-----------------------------------------------------------------------------
\* The API handlers: create_review_map, retry_review_map and resolve().

\* POST /v1/review-maps always carries the head the client looks at.
CreateReviewMap(c, p, expected) ==
  /\ calls[c].pc = "idle"
  /\ expected <= head[p]
  /\ calls' = [calls EXCEPT ![c] =
        [IdleCall EXCEPT !.pc = "load", !.pr = p, !.expected = expected]]
  /\ UNCHANGED <<env, jobs, in_flight, queue, worker, cache>>

\* retry(): only an unavailable or failed job, resolved again at any head.
RetryReviewMap(c, j) ==
  /\ calls[c].pc = "idle"
  /\ HasState(j, {"Unavailable", "Failed"})
  /\ calls' = [calls EXCEPT ![c] =
        [IdleCall EXCEPT !.pc = "load", !.pr = jobs[j].pr]]
  /\ UNCHANGED <<env, jobs, in_flight, queue, worker, cache>>

\* provider.load fails, or build_review_map rejects what it loaded.
LoadFails(c) ==
  /\ calls[c].pc = "load"
  /\ EndCall(c)
  /\ UNCHANGED <<env, jobs, in_flight, queue, worker, cache>>

\* provider.load returns the head of that moment; a head other than the
\* expected one ends the call with result_stale.
LoadPullRequest(c) ==
  /\ calls[c].pc = "load"
  /\ LET h == head[calls[c].pr] IN
       IF calls[c].expected \notin {None, h}
         THEN EndCall(c)
         ELSE calls' = [calls EXCEPT ![c].pc = "identity", ![c].head = h]
  /\ UNCHANGED <<env, jobs, in_flight, queue, worker, cache>>

\* analyzer.identity() fails: a terminal job over the exact map.
IdentityFails(c, j) ==
  /\ calls[c].pc = "identity"
  /\ RecordTerminal(j, calls[c].pr, calls[c].head, "Unavailable", None)
  /\ EndCall(c)
  /\ UNCHANGED <<env, in_flight, queue, worker, cache>>

AnalyzerIdentity(c) ==
  /\ calls[c].pc = "identity"
  /\ calls' = [calls EXCEPT ![c].pc = "cache", ![c].digest = digest]
  /\ UNCHANGED <<env, jobs, in_flight, queue, worker, cache>>

\* cache.get fails on I/O: the call ends with the failure.
CacheGetFails(c) ==
  /\ calls[c].pc = "cache"
  /\ EndCall(c)
  /\ UNCHANGED <<env, jobs, in_flight, queue, worker, cache>>

\* cache.get returns a map: a job that is enriched from the start. The get
\* ends with evict_locked.
CacheHit(c, j) ==
  /\ calls[c].pc = "cache"
  /\ cache[CallKey(c)] # None
  /\ RecordTerminal(j, calls[c].pr, calls[c].head, "Enriched", cache[CallKey(c)])
  /\ cache' \in Evicted(cache)
  /\ EndCall(c)
  /\ UNCHANGED <<env, in_flight, queue, worker>>

\* No entry, or one that is corrupt, incompatible or expired and is removed.
CacheMiss(c) ==
  /\ calls[c].pc = "cache"
  /\ cache' = [cache EXCEPT ![CallKey(c)] = None]
  /\ calls' = [calls EXCEPT ![c].pc = "lock"]
  /\ UNCHANGED <<env, jobs, in_flight, queue, worker>>

\* Under the lock: the key is in flight, its job is the answer.
Coalesce(c) ==
  /\ calls[c].pc = "lock"
  /\ in_flight[CallKey(c)] # None
  /\ EndCall(c)
  /\ UNCHANGED <<env, jobs, in_flight, queue, worker, cache>>

\* Under the lock: cancel_stale_queued, then a new queued job in flight.
Enqueue(c, j) ==
  LET key == CallKey(c)
      stale == StaleQueued(key.pr, key.head)
      record == [state |-> "Queued", status |-> "Analyzing", map |-> None,
                 cache_key |-> key, pr |-> key.pr, head |-> key.head]
  IN /\ calls[c].pc = "lock"
     /\ in_flight[key] = None
     /\ ~IsJob(j)
     /\ jobs' = [i \in JobIds |->
                   IF i = j THEN record
                   ELSE IF i \in stale
                     THEN [jobs[i] EXCEPT !.state = "Unavailable", !.status = "Stale"]
                   ELSE jobs[i]]
     /\ in_flight' = [InFlightWithout(stale) EXCEPT ![key] = j]
     /\ calls' = [calls EXCEPT ![c].pc = "send", ![c].job = j]
     /\ UNCHANGED <<env, queue, worker, cache>>

\* Mutant: try_send, which drops the work while the channel is full.
TrySendWork(c) ==
  /\ calls[c].pc = "send"
  /\ queue' = IF Len(queue) < Capacity THEN Append(queue, calls[c].job) ELSE queue
  /\ EndCall(c)
  /\ UNCHANGED <<env, jobs, in_flight, worker, cache>>

\* sender.send(work).await completes once the channel has room.
SendWork(c) ==
  /\ calls[c].pc = "send"
  /\ Len(queue) < Capacity
  /\ queue' = Append(queue, calls[c].job)
  /\ EndCall(c)
  /\ UNCHANGED <<env, jobs, in_flight, worker, cache>>

-----------------------------------------------------------------------------
\* The worker task.

WorkerReceive ==
  /\ worker.phase = "idle"
  /\ queue # <<>>
  /\ queue' = Tail(queue)
  /\ worker' = [worker EXCEPT !.phase = "received", !.job = Head(queue)]
  /\ UNCHANGED <<env, calls, jobs, in_flight, cache>>

\* Mutant: any job the worker finds is analyzed.
StillKnown == IsJob(worker.job)

\* The worker's check before it starts: the job was not superseded meanwhile.
StillQueued == HasState(worker.job, {"Queued"})

\* continue: the worker goes back to the channel.
SkipSuperseded == worker' = IdleWorker

WorkerBegin ==
  /\ worker.phase = "received"
  /\ IF StillQueued
       THEN /\ jobs' = [jobs EXCEPT ![worker.job].state = "Analyzing"]
            /\ worker' = [worker EXCEPT !.phase = "analyzing"]
       ELSE /\ SkipSuperseded
            /\ UNCHANGED jobs
  /\ UNCHANGED <<env, calls, in_flight, queue, cache>>

\* analyze() asks for the digest before it prompts the model.
ReadDigest ==
  /\ worker.phase = "analyzing"
  /\ worker' = [worker EXCEPT !.phase = "generating", !.reported = digest]
  /\ UNCHANGED <<env, calls, jobs, in_flight, queue, cache>>

\* What the worker will publish: the job's state, its map's status and map.
Outcome(state, status, map) == [state |-> state, status |-> status, map |-> map]

Finishing(outcome) ==
  worker' = [worker EXCEPT !.phase = "finishing", !.outcome = outcome]

\* failure_outcome, and a merge that is refused.
AnalyzeFails ==
  /\ worker.phase \in {"analyzing", "generating"}
  /\ \E state \in {"Unavailable", "Failed"} : Finishing(Outcome(state, state, None))
  /\ UNCHANGED <<env, calls, jobs, in_flight, queue, cache>>

\* Mutant: the digest of the result is not compared.
AlwaysCurrent == TRUE

\* The result's model_digest is the one of the cache identity.
ResultIsCurrent == worker.reported = jobs[worker.job].cache_key.digest

AnalyzeStale ==
  /\ worker.phase = "generating"
  /\ ~ResultIsCurrent
  /\ Finishing(Outcome("Unavailable", "Stale", None))
  /\ UNCHANGED <<env, calls, jobs, in_flight, queue, cache>>

\* The merged map is put in the cache, where evict_locked follows the write;
\* a put that fails is ignored.
AnalyzeSucceeds ==
  LET key == jobs[worker.job].cache_key
      map == [pr |-> key.pr, head |-> key.head,
              reported |-> worker.reported]
  IN /\ worker.phase = "generating"
     /\ ResultIsCurrent
     /\ Finishing(Outcome("Enriched", "Enriched", map))
     /\ \/ cache' \in Evicted([cache EXCEPT ![key] = map])
        \/ UNCHANGED cache
     /\ UNCHANGED <<env, calls, jobs, in_flight, queue>>

\* The terminal state is published and the key leaves in_flight.
WorkerFinish ==
  LET j == worker.job
      outcome == worker.outcome
  IN /\ worker.phase = "finishing"
     /\ jobs' = [jobs EXCEPT ![j].state = outcome.state,
                             ![j].status = outcome.status,
                             ![j].map = outcome.map]
     /\ in_flight' = [in_flight EXCEPT ![jobs[j].cache_key] = None]
     /\ worker' = IdleWorker
     /\ UNCHANGED <<env, calls, queue, cache>>

-----------------------------------------------------------------------------
Environment ==
  \/ \E p \in PullRequests : PushHead(p)
  \/ \E d \in Digests : InstallModel(d)
  \/ \E c \in Clients : ClientDisconnect(c)
  \/ \E c \in Clients, p \in PullRequests, h \in Heads : CreateReviewMap(c, p, h)
  \/ \E c \in Clients, j \in JobIds : RetryReviewMap(c, j)

Resolve(c) ==
  \/ LoadFails(c)
  \/ LoadPullRequest(c)
  \/ \E j \in JobIds : IdentityFails(c, j)
  \/ AnalyzerIdentity(c)
  \/ CacheGetFails(c)
  \/ \E j \in JobIds : CacheHit(c, j)
  \/ CacheMiss(c)
  \/ Coalesce(c)
  \/ \E j \in JobIds : Enqueue(c, j)
  \/ SendWork(c)

Worker ==
  \/ WorkerReceive
  \/ WorkerBegin
  \/ ReadDigest
  \/ AnalyzeFails
  \/ AnalyzeStale
  \/ AnalyzeSucceeds
  \/ WorkerFinish

Next ==
  \/ Environment
  \/ \E c \in Clients : Resolve(c)
  \/ Worker

\* tokio polls every task that is ready, its channel wakes blocked senders
\* in order, and the analyzer is bounded by its own timeout.
Fairness ==
  /\ \A c \in Clients : WF_vars(Resolve(c))
  /\ WF_vars(Worker)

Spec == Init /\ [][Next]_vars /\ Fairness

-----------------------------------------------------------------------------
\* Properties.

\* in_flight and the live jobs agree: what in_flight names is live under that
\* key, and every queued or analyzing job is the one in_flight names for its
\* key. So a resolve() that finds its key gets a job that can still finish,
\* and no key ever has two live jobs.
InFlightIsLive ==
  /\ \A k \in Keys : in_flight[k] # None =>
       /\ HasState(in_flight[k], {"Queued", "Analyzing"})
       /\ jobs[in_flight[k]].cache_key = k
  /\ \A j \in JobIds : HasState(j, {"Queued", "Analyzing"}) =>
       /\ jobs[j].cache_key # None
       /\ in_flight[jobs[j].cache_key] = j

\* "The server performs one GPU-heavy analysis at a time": the only analyzing
\* job is the one the worker holds.
OneAnalysis ==
  \A j \in JobIds : HasState(j, {"Analyzing"}) <=>
    /\ worker.job = j
    /\ worker.phase \in {"analyzing", "generating", "finishing"}

\* An enrichment is never attached to another revision: the enriched map of a
\* job, and a cached map, belong to the pull request and head of the job or
\* key, and to the digest the analyzer reported for it.
EnrichmentMatchesKey ==
  /\ \A k \in Keys : cache[k] # None =>
       cache[k].pr = k.pr /\ cache[k].head = k.head /\ cache[k].reported = k.digest
  /\ \A j \in JobIds : IsJob(j) =>
       /\ jobs[j].state = "Enriched" <=> jobs[j].map # None
       /\ jobs[j].map # None => jobs[j].map.pr = jobs[j].pr /\ jobs[j].map.head = jobs[j].head

\* What a client is told about a job never goes backwards: a terminal job
\* never changes, an analyzing one only ends, and a job is never forgotten.
JobsOnlyAdvance ==
  [][\A j \in JobIds : IsJob(j) =>
       /\ jobs'[j] # None
       /\ jobs[j].state \in Terminal => jobs'[j] = jobs[j]
       /\ jobs[j].state = "Analyzing" => jobs'[j].state \in {"Analyzing"} \cup Terminal]_vars

\* The job a handler enqueues reaches a terminal state, so that a client that
\* polls it gets an answer, unless that client hangs up while the handler
\* waits for room in the channel: then its job stays queued for ever.
QueuedJobsFinish ==
  \A j \in JobIds, c \in Clients \ Impatient :
    calls[c].pc = "send" /\ calls[c].job = j ~> HasState(j, Terminal)

=============================================================================
