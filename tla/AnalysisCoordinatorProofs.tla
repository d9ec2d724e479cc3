----------------------- MODULE AnalysisCoordinatorProofs -----------------------
(***************************************************************************)
(* Proofs about AnalysisCoordinator, for every set of handlers, pull       *)
(* requests, digests and job ids and every channel capacity.               *)
(*                                                                         *)
(* The safety properties are proved from one inductive invariant. It adds  *)
(* to them what each await of a handler and each phase of the worker has   *)
(* already established.                                                    *)
(***************************************************************************)
EXTENDS AnalysisCoordinator, TLAPS

\* What a handler knows at each await.
CallsCarryData ==
  \A c \in Clients :
    /\ calls[c].pc # "idle" => calls[c].pr \in PullRequests
    /\ calls[c].pc \in {"identity", "cache", "lock", "send"} => calls[c].head \in Heads
    /\ calls[c].pc \in {"cache", "lock", "send"} => calls[c].digest \in Digests
    /\ calls[c].pc = "send" => calls[c].job \in JobIds

\* What the worker holds in each phase; the outcome it is about to publish is
\* an enrichment of the job's own revision.
WorkerCarriesData ==
  /\ worker.phase # "idle" => worker.job \in JobIds
  /\ worker.phase = "generating" => worker.reported \in Digests
  /\ worker.phase = "finishing" =>
       /\ worker.outcome \in Outcomes
       /\ worker.outcome.state = "Enriched" <=> worker.outcome.map # None
       /\ worker.outcome.map # None =>
            /\ worker.outcome.map.pr = jobs[worker.job].pr
            /\ worker.outcome.map.head = jobs[worker.job].head

\* A job's cache key names the job's own pull request and head.
KeyOfJob ==
  \A j \in JobIds : IsJob(j) /\ jobs[j].cache_key # None =>
    jobs[j].cache_key.pr = jobs[j].pr /\ jobs[j].cache_key.head = jobs[j].head

\* The two halves of EnrichmentMatchesKey.
CacheMatchesKey ==
  \A k \in Keys : cache[k] # None =>
    cache[k].pr = k.pr /\ cache[k].head = k.head /\ cache[k].reported = k.digest
JobMapsMatch ==
  \A j \in JobIds : IsJob(j) =>
    /\ jobs[j].state = "Enriched" <=> jobs[j].map # None
    /\ jobs[j].map # None => jobs[j].map.pr = jobs[j].pr /\ jobs[j].map.head = jobs[j].head

CoordinatorInv ==
  /\ TypeOK
  /\ CallsCarryData
  /\ WorkerCarriesData
  /\ KeyOfJob
  /\ InFlightIsLive
  /\ OneAnalysis
  /\ EnrichmentMatchesKey

\* The conjuncts that do not mention the handlers or the channel.
JobsInv ==
  /\ WorkerCarriesData
  /\ KeyOfJob
  /\ InFlightIsLive
  /\ OneAnalysis
  /\ EnrichmentMatchesKey

-----------------------------------------------------------------------------
\* The initial state: nothing is running and nothing is cached.
LEMMA InitInv == Init => CoordinatorInv
<1> SUFFICES ASSUME Init PROVE CoordinatorInv
  OBVIOUS
<1> USE CoordinatorAssumption DEF Init
<1>1. TypeOK
  BY DEF TypeOK, Heads, IdleCall, Calls, CallPcs, IdleWorker, Workers, WorkerPhases
<1>2. CallsCarryData /\ WorkerCarriesData
  BY DEF CallsCarryData, WorkerCarriesData, IdleCall, IdleWorker
<1>3. KeyOfJob /\ InFlightIsLive /\ OneAnalysis /\ EnrichmentMatchesKey
  BY DEF KeyOfJob, InFlightIsLive, OneAnalysis, EnrichmentMatchesKey, IsJob,
         HasState, IdleWorker
<1> QED BY <1>1, <1>2, <1>3 DEF CoordinatorInv

\* A step that leaves the jobs, the worker and the cache alone keeps what is
\* said about them.
LEMMA JobsFrame ==
  ASSUME CoordinatorInv, UNCHANGED <<jobs, in_flight, worker, cache>>
  PROVE  JobsInv'
<1>1. WorkerCarriesData' /\ KeyOfJob'
  BY DEF CoordinatorInv, WorkerCarriesData, KeyOfJob, IsJob
<1>2. InFlightIsLive' /\ OneAnalysis' /\ EnrichmentMatchesKey'
  BY DEF CoordinatorInv, InFlightIsLive, OneAnalysis, EnrichmentMatchesKey, IsJob, HasState
<1> QED BY <1>1, <1>2 DEF JobsInv

\* The key a handler has computed once it knows head and digest.
LEMMA CallKeyType ==
  ASSUME CoordinatorInv, NEW c \in Clients, calls[c].pc \in {"cache", "lock", "send"}
  PROVE  CallKey(c) \in Keys
BY DEF CoordinatorInv, CallsCarryData, CallKey, Keys

\* Ending a call leaves every handler with the data its await needs.
LEMMA EndCallInv ==
  ASSUME CoordinatorInv, NEW c \in Clients, EndCall(c)
  PROVE  calls' \in [Clients -> Calls] /\ CallsCarryData'
<1>1. IdleCall \in Calls
  BY DEF IdleCall, Calls, CallPcs
<1> QED
  BY <1>1 DEF CoordinatorInv, TypeOK, CallsCarryData, EndCall, IdleCall

-----------------------------------------------------------------------------
\* Steps of the environment and of handlers that only move the handler on.
LEMMA QuietStep ==
  ASSUME CoordinatorInv,
         \/ \E p \in PullRequests : PushHead(p)
         \/ \E d \in Digests : InstallModel(d)
         \/ \E c \in Clients : \/ ClientDisconnect(c)
                               \/ \E p \in PullRequests, h \in Heads : CreateReviewMap(c, p, h)
                               \/ \E j \in JobIds : RetryReviewMap(c, j)
                               \/ LoadFails(c) \/ LoadPullRequest(c)
                               \/ AnalyzerIdentity(c) \/ CacheGetFails(c) \/ Coalesce(c)
                               \/ SendWork(c)
  PROVE  CoordinatorInv'
<1> USE CoordinatorAssumption
<1>1. UNCHANGED <<jobs, in_flight, worker, cache>>
  BY DEF PushHead, InstallModel, ClientDisconnect, CreateReviewMap, RetryReviewMap,
         LoadFails, LoadPullRequest, AnalyzerIdentity, CacheGetFails, Coalesce, SendWork, env
<1>2. JobsInv'
  BY <1>1, JobsFrame
<1>3. head' \in [PullRequests -> Heads] /\ digest' \in Digests
  <2>1. CASE \E p \in PullRequests : PushHead(p)
    BY <2>1 DEF PushHead, CoordinatorInv, TypeOK, Heads
  <2>2. CASE \E d \in Digests : InstallModel(d)
    BY <2>2 DEF InstallModel, CoordinatorInv, TypeOK
  <2>3. ASSUME UNCHANGED <<head, digest>>
        PROVE  head' \in [PullRequests -> Heads] /\ digest' \in Digests
    BY <2>3 DEF CoordinatorInv, TypeOK
  <2> QED
    BY <2>1, <2>2, <2>3 DEF ClientDisconnect, CreateReviewMap, RetryReviewMap,
       LoadFails, LoadPullRequest, AnalyzerIdentity, CacheGetFails, Coalesce, SendWork, env
<1>4. queue' \in Seq(JobIds) /\ calls' \in [Clients -> Calls] /\ CallsCarryData'
  <2>1. CASE \E p \in PullRequests : PushHead(p)
    BY <2>1 DEF PushHead, CoordinatorInv, TypeOK, CallsCarryData
  <2>2. CASE \E d \in Digests : InstallModel(d)
    BY <2>2 DEF InstallModel, CoordinatorInv, TypeOK, CallsCarryData
  <2>3. ASSUME NEW c \in Clients, \/ ClientDisconnect(c) \/ LoadFails(c)
                                  \/ CacheGetFails(c) \/ Coalesce(c)
        PROVE  queue' \in Seq(JobIds) /\ calls' \in [Clients -> Calls] /\ CallsCarryData'
    BY <2>3, EndCallInv DEF ClientDisconnect, LoadFails, CacheGetFails, Coalesce,
       CoordinatorInv, TypeOK
  <2>4. ASSUME NEW c \in Clients, NEW p \in PullRequests, NEW h \in Heads,
               CreateReviewMap(c, p, h)
        PROVE  queue' \in Seq(JobIds) /\ calls' \in [Clients -> Calls] /\ CallsCarryData'
    BY <2>4 DEF CreateReviewMap, CoordinatorInv, TypeOK, CallsCarryData, Calls, CallPcs, IdleCall
  <2>5. ASSUME NEW c \in Clients, NEW j \in JobIds, RetryReviewMap(c, j)
        PROVE  queue' \in Seq(JobIds) /\ calls' \in [Clients -> Calls] /\ CallsCarryData'
    <3>1. jobs[j].pr \in PullRequests
      BY <2>5 DEF RetryReviewMap, HasState, IsJob, CoordinatorInv, TypeOK, JobRecords
    <3> QED
      BY <2>5, <3>1 DEF RetryReviewMap, CoordinatorInv, TypeOK, CallsCarryData, Calls,
         CallPcs, IdleCall
  <2>6. ASSUME NEW c \in Clients, LoadPullRequest(c)
        PROVE  queue' \in Seq(JobIds) /\ calls' \in [Clients -> Calls] /\ CallsCarryData'
    <3>1. head[calls[c].pr] \in Heads
      BY <2>6 DEF LoadPullRequest, CoordinatorInv, TypeOK, CallsCarryData
    <3>2. CASE calls[c].expected \notin {None, head[calls[c].pr]}
      BY <2>6, <3>2, EndCallInv DEF LoadPullRequest, CoordinatorInv, TypeOK
    <3>3. CASE calls[c].expected \in {None, head[calls[c].pr]}
      <4> PICK h \in Heads : h = head[calls[c].pr]
        BY <3>1
      <4> DEFINE call == [calls[c] EXCEPT !.pc = "identity", !.head = h]
      <4>0. calls[c] \in Calls
        BY DEF CoordinatorInv, TypeOK
      <4>1. /\ call \in Calls
            /\ call.pc = "identity" /\ call.head \in Heads /\ call.pr = calls[c].pr
        BY <4>0 DEF Calls, CallPcs
      <4>2. call.pr \in PullRequests
        BY <2>6, <4>1 DEF LoadPullRequest, CoordinatorInv, CallsCarryData
      <4>3. calls' = [calls EXCEPT ![c] = call] /\ queue' = queue
        BY <2>6, <3>3 DEF LoadPullRequest
      <4> HIDE DEF call
      <4> QED BY <4>1, <4>2, <4>3 DEF CoordinatorInv, TypeOK, CallsCarryData
    <3> QED BY <3>2, <3>3
  <2>7. ASSUME NEW c \in Clients, AnalyzerIdentity(c)
        PROVE  queue' \in Seq(JobIds) /\ calls' \in [Clients -> Calls] /\ CallsCarryData'
    <3> DEFINE call == [calls[c] EXCEPT !.pc = "cache", !.digest = digest]
    <3>1. /\ call \in Calls
          /\ call.pc = "cache" /\ call.digest \in Digests
          /\ call.pr = calls[c].pr /\ call.head = calls[c].head
      BY DEF CoordinatorInv, TypeOK, Calls, CallPcs
    <3>2. call.pr \in PullRequests /\ call.head \in Heads
      BY <2>7, <3>1 DEF AnalyzerIdentity, CoordinatorInv, CallsCarryData
    <3>3. calls' = [calls EXCEPT ![c] = call] /\ queue' = queue
      BY <2>7 DEF AnalyzerIdentity
    <3> HIDE DEF call
    <3> QED
      BY <3>1, <3>2, <3>3 DEF CoordinatorInv, TypeOK, CallsCarryData
  <2>8. ASSUME NEW c \in Clients, SendWork(c)
        PROVE  queue' \in Seq(JobIds) /\ calls' \in [Clients -> Calls] /\ CallsCarryData'
    <3>1. calls[c].job \in JobIds
      BY <2>8 DEF SendWork, CoordinatorInv, CallsCarryData
    <3> QED
      BY <2>8, <3>1, EndCallInv DEF SendWork, CoordinatorInv, TypeOK
  <2> QED BY <2>1, <2>2, <2>3, <2>4, <2>5, <2>6, <2>7, <2>8
<1> QED
  BY <1>1, <1>2, <1>3, <1>4 DEF CoordinatorInv, JobsInv, TypeOK
-----------------------------------------------------------------------------
\* Handlers that add or cancel jobs.

\* A job that is recorded terminal from the start disturbs nothing else.
LEMMA RecordTerminalInv ==
  ASSUME CoordinatorInv, NEW j \in JobIds, NEW p \in PullRequests, NEW h \in Heads,
         NEW state \in Terminal, NEW map \in EnrichedMaps \cup {None},
         state = "Enriched" <=> map # None,
         map # None => map.pr = p /\ map.head = h,
         RecordTerminal(j, p, h, state, map), UNCHANGED <<in_flight, worker>>
  PROVE  /\ jobs' \in [JobIds -> JobRecords \cup {None}]
         /\ WorkerCarriesData' /\ KeyOfJob' /\ InFlightIsLive' /\ OneAnalysis'
         /\ JobMapsMatch'
<1> USE CoordinatorAssumption
<1> DEFINE record == [state |-> state, status |-> StatusFor(state), map |-> map,
                      cache_key |-> None, pr |-> p, head |-> h]
<1>1. record \in JobRecords /\ record # None
  BY DEF JobRecords, JobStates, MapStatuses, StatusFor, Terminal
<1>2. jobs[j] = None /\ jobs' = [jobs EXCEPT ![j] = record]
  BY DEF RecordTerminal, IsJob
<1>3. /\ record.state = state /\ record.map = map /\ record.cache_key = None
      /\ record.pr = p /\ record.head = h
  OBVIOUS
<1> HIDE DEF record
<1>4. jobs' \in [JobIds -> JobRecords \cup {None}]
  BY <1>1, <1>2 DEF CoordinatorInv, TypeOK
<1>5. \A i \in JobIds : jobs'[i] = IF i = j THEN record ELSE jobs[i]
  BY <1>2 DEF CoordinatorInv, TypeOK
<1>6. WorkerCarriesData'
  <2>1. worker.phase = "finishing" => worker.job # j
    BY <1>2 DEF CoordinatorInv, OneAnalysis, HasState, IsJob
  <2> QED BY <2>1, <1>5 DEF CoordinatorInv, WorkerCarriesData
<1>7. KeyOfJob'
  BY <1>3, <1>5 DEF CoordinatorInv, KeyOfJob, IsJob
<1>8. InFlightIsLive'
  <2>1. state \notin {"Queued", "Analyzing"}
    BY DEF Terminal
  <2>2. in_flight \in [Keys -> JobIds \cup {None}]
    BY DEF CoordinatorInv, TypeOK
  <2> QED
    BY <1>2, <1>3, <1>5, <2>1, <2>2 DEF CoordinatorInv, InFlightIsLive, HasState, IsJob
<1>9. OneAnalysis'
  BY <1>2, <1>3, <1>5 DEF CoordinatorInv, OneAnalysis, HasState, IsJob, Terminal
<1>10. JobMapsMatch'
  BY <1>3, <1>5 DEF CoordinatorInv, EnrichmentMatchesKey, JobMapsMatch, IsJob
<1> QED BY <1>4, <1>6, <1>7, <1>8, <1>9, <1>10

\* Whatever eviction removes, what is left still belongs to its key.
LEMMA EvictedMatches ==
  ASSUME NEW entries \in [Keys -> EnrichedMaps \cup {None}],
         \A k \in Keys : entries[k] # None =>
            /\ entries[k].pr = k.pr /\ entries[k].head = k.head
            /\ entries[k].reported = k.digest,
         cache' \in Evicted(entries)
  PROVE  cache' \in [Keys -> EnrichedMaps \cup {None}] /\ CacheMatchesKey'
<1>1. PICK gone \in SUBSET Keys :
         cache' = [k \in Keys |-> IF k \in gone THEN None ELSE entries[k]]
  BY DEF Evicted
<1> QED BY <1>1 DEF CacheMatchesKey

\* A request whose model cannot be identified records an unavailable job.
LEMMA IdentityFailsInv ==
  ASSUME CoordinatorInv, NEW c \in Clients, NEW j \in JobIds, IdentityFails(c, j)
  PROVE  CoordinatorInv'
<1>1. calls[c].pr \in PullRequests /\ calls[c].head \in Heads
  BY DEF IdentityFails, CoordinatorInv, CallsCarryData
<1>2. /\ jobs' \in [JobIds -> JobRecords \cup {None}]
      /\ WorkerCarriesData' /\ KeyOfJob' /\ InFlightIsLive' /\ OneAnalysis'
      /\ JobMapsMatch'
  BY <1>1, RecordTerminalInv DEF IdentityFails, Terminal
<1>3. calls' \in [Clients -> Calls] /\ CallsCarryData'
  BY EndCallInv DEF IdentityFails
<1>4. TypeOK'
  BY <1>2, <1>3 DEF IdentityFails, env, CoordinatorInv, TypeOK
<1>5. CacheMatchesKey'
  BY DEF IdentityFails, CoordinatorInv, EnrichmentMatchesKey, CacheMatchesKey
<1> QED
  BY <1>2, <1>3, <1>4, <1>5 DEF CoordinatorInv, EnrichmentMatchesKey, JobMapsMatch,
     CacheMatchesKey

\* A cache hit records a job that already carries the cached map.
LEMMA CacheHitInv ==
  ASSUME CoordinatorInv, NEW c \in Clients, NEW j \in JobIds, CacheHit(c, j)
  PROVE  CoordinatorInv'
<1> DEFINE map == cache[CallKey(c)]
<1>1. /\ calls[c].pr \in PullRequests /\ calls[c].head \in Heads
      /\ CallKey(c) \in Keys
      /\ CallKey(c).pr = calls[c].pr /\ CallKey(c).head = calls[c].head
  BY CallKeyType DEF CacheHit, CoordinatorInv, CallsCarryData, CallKey
<1>2. map \in EnrichedMaps \cup {None} /\ map # None
  BY <1>1 DEF CacheHit, CoordinatorInv, TypeOK
<1>3. map.pr = calls[c].pr /\ map.head = calls[c].head
  BY <1>1, <1>2 DEF CoordinatorInv, EnrichmentMatchesKey
<1>4. RecordTerminal(j, calls[c].pr, calls[c].head, "Enriched", map)
      /\ UNCHANGED <<in_flight, worker>>
  BY DEF CacheHit
<1> HIDE DEF map
<1>5. /\ jobs' \in [JobIds -> JobRecords \cup {None}]
      /\ WorkerCarriesData' /\ KeyOfJob' /\ InFlightIsLive' /\ OneAnalysis'
      /\ JobMapsMatch'
  BY <1>1, <1>2, <1>3, <1>4, RecordTerminalInv DEF Terminal
<1>6. calls' \in [Clients -> Calls] /\ CallsCarryData'
  BY EndCallInv DEF CacheHit
<1>7. cache' \in [Keys -> EnrichedMaps \cup {None}] /\ CacheMatchesKey'
  BY EvictedMatches DEF CacheHit, CoordinatorInv, TypeOK, EnrichmentMatchesKey
<1>8. TypeOK'
  BY <1>5, <1>6, <1>7 DEF CacheHit, env, CoordinatorInv, TypeOK
<1> QED
  BY <1>5, <1>6, <1>7, <1>8 DEF CoordinatorInv, EnrichmentMatchesKey, JobMapsMatch,
     CacheMatchesKey

\* A miss evicts at most; the handler goes on with a well-typed key.
LEMMA CacheMissInv ==
  ASSUME CoordinatorInv, NEW c \in Clients, CacheMiss(c)
  PROVE  CoordinatorInv'
<1> DEFINE call == [calls[c] EXCEPT !.pc = "lock"]
<1>1. /\ call \in Calls
      /\ call.pc = "lock" /\ call.digest = calls[c].digest
      /\ call.pr = calls[c].pr /\ call.head = calls[c].head
  BY DEF CoordinatorInv, TypeOK, Calls, CallPcs
<1>2. call.pr \in PullRequests /\ call.head \in Heads /\ call.digest \in Digests
  BY <1>1 DEF CacheMiss, CoordinatorInv, CallsCarryData
<1>3. calls' = [calls EXCEPT ![c] = call]
  BY DEF CacheMiss
<1> HIDE DEF call
<1>4. calls' \in [Clients -> Calls] /\ CallsCarryData'
  BY <1>1, <1>2, <1>3 DEF CoordinatorInv, TypeOK, CallsCarryData
<1>5. cache' = [cache EXCEPT ![CallKey(c)] = None]
  BY DEF CacheMiss
<1>6. cache' \in [Keys -> EnrichedMaps \cup {None}] /\ CacheMatchesKey'
  BY <1>5 DEF CoordinatorInv, TypeOK, EnrichmentMatchesKey, CacheMatchesKey
<1>7. UNCHANGED <<head, digest, jobs, in_flight, queue, worker>>
  BY DEF CacheMiss, env
<1>8. TypeOK'
  BY <1>4, <1>6, <1>7 DEF CoordinatorInv, TypeOK
<1>9. WorkerCarriesData' /\ KeyOfJob' /\ InFlightIsLive' /\ OneAnalysis' /\ JobMapsMatch'
  BY <1>7 DEF CoordinatorInv, WorkerCarriesData, KeyOfJob, InFlightIsLive, OneAnalysis,
     EnrichmentMatchesKey, JobMapsMatch, IsJob, HasState
<1> QED
  BY <1>4, <1>6, <1>8, <1>9 DEF CoordinatorInv, EnrichmentMatchesKey, JobMapsMatch,
     CacheMatchesKey

\* A new job takes a key no live job has, once the jobs it supersedes have
\* given up theirs.
LEMMA EnqueueInv ==
  ASSUME CoordinatorInv, NEW c \in Clients, NEW j \in JobIds, Enqueue(c, j)
  PROVE  CoordinatorInv'
<1> USE CoordinatorAssumption
<1> DEFINE key == CallKey(c)
           stale == StaleQueued(key.pr, key.head)
           record == [state |-> "Queued", status |-> "Analyzing", map |-> None,
                      cache_key |-> key, pr |-> key.pr, head |-> key.head]
           call == [calls[c] EXCEPT !.pc = "send", !.job = j]
           cancelled(i) == [jobs[i] EXCEPT !.state = "Unavailable", !.status = "Stale"]
<1>1. key \in Keys /\ key.pr \in PullRequests /\ key.head \in Heads
  BY CallKeyType DEF Enqueue, CallKey, CoordinatorInv, CallsCarryData
<1>2. /\ in_flight[key] = None /\ jobs[j] = None
      /\ UNCHANGED <<head, digest, queue, worker, cache>>
      /\ calls' = [calls EXCEPT ![c] = call]
  BY DEF Enqueue, IsJob, env
<1>3. /\ record \in JobRecords /\ record # None
      /\ record.state = "Queued" /\ record.map = None /\ record.cache_key = key
      /\ record.pr = key.pr /\ record.head = key.head
  BY <1>1 DEF JobRecords, JobStates, MapStatuses
<1>4. \A i \in stale : /\ i \in JobIds /\ i # j /\ jobs[i] # None /\ jobs[i] \in JobRecords
                       /\ jobs[i].state = "Queued"
  BY <1>2 DEF StaleQueued, HasState, IsJob, CoordinatorInv, TypeOK
<1>5. \A i \in stale :
         /\ cancelled(i) \in JobRecords /\ cancelled(i) # None
         /\ cancelled(i).state = "Unavailable" /\ cancelled(i).map = jobs[i].map
         /\ cancelled(i).cache_key = jobs[i].cache_key
         /\ cancelled(i).pr = jobs[i].pr /\ cancelled(i).head = jobs[i].head
  <2> SUFFICES ASSUME NEW i \in stale
               PROVE  /\ cancelled(i) \in JobRecords /\ cancelled(i) # None
                      /\ cancelled(i).state = "Unavailable" /\ cancelled(i).map = jobs[i].map
                      /\ cancelled(i).cache_key = jobs[i].cache_key
                      /\ cancelled(i).pr = jobs[i].pr /\ cancelled(i).head = jobs[i].head
    OBVIOUS
  <2>1. jobs[i] \in JobRecords
    BY <1>4
  <2> HIDE DEF stale
  <2>2. cancelled(i) \in JobRecords
    BY <2>1 DEF JobRecords, JobStates, MapStatuses
  <2>3. /\ cancelled(i).state = "Unavailable" /\ cancelled(i).map = jobs[i].map
        /\ cancelled(i).cache_key = jobs[i].cache_key
        /\ cancelled(i).pr = jobs[i].pr /\ cancelled(i).head = jobs[i].head
    BY <2>1 DEF JobRecords
  <2> QED BY <2>2, <2>3
<1>6. \A i \in JobIds : jobs'[i] = IF i = j THEN record
                                   ELSE IF i \in stale THEN cancelled(i) ELSE jobs[i]
  BY DEF Enqueue
<1>7. jobs' = [i \in JobIds |-> IF i = j THEN record
                               ELSE IF i \in stale THEN cancelled(i) ELSE jobs[i]]
  BY DEF Enqueue
<1>8. \A k \in Keys : in_flight'[k] =
         IF k = key THEN j
         ELSE IF \E i \in stale : jobs[i].cache_key = k THEN None ELSE in_flight[k]
  BY <1>1 DEF Enqueue, InFlightWithout
<1>9. in_flight' \in [Keys -> JobIds \cup {None}]
  BY <1>1 DEF Enqueue, InFlightWithout, CoordinatorInv, TypeOK
<1>10. /\ call \in Calls /\ call.pc = "send" /\ call.job = j
       /\ call.pr = calls[c].pr /\ call.head = calls[c].head /\ call.digest = calls[c].digest
  BY DEF CoordinatorInv, TypeOK, Calls, CallPcs
<1>11. call.pr \in PullRequests /\ call.head \in Heads /\ call.digest \in Digests
  BY <1>10 DEF Enqueue, CoordinatorInv, CallsCarryData
<1> HIDE DEF key, stale, record, call, cancelled
<1>12. jobs' \in [JobIds -> JobRecords \cup {None}]
  BY <1>3, <1>5, <1>7 DEF CoordinatorInv, TypeOK
<1>13. calls' \in [Clients -> Calls] /\ CallsCarryData'
  BY <1>2, <1>10, <1>11 DEF CoordinatorInv, TypeOK, CallsCarryData
<1>14. TypeOK'
  BY <1>2, <1>9, <1>12, <1>13 DEF CoordinatorInv, TypeOK
<1>15. WorkerCarriesData'
  <2>1. worker.phase = "finishing" =>
          worker.job # j /\ worker.job \notin stale /\ worker.job \in JobIds
    BY <1>2, <1>4 DEF CoordinatorInv, OneAnalysis, WorkerCarriesData, HasState, IsJob
  <2> QED BY <2>1, <1>2, <1>6 DEF CoordinatorInv, WorkerCarriesData
<1>16. KeyOfJob'
  BY <1>3, <1>4, <1>5, <1>6 DEF CoordinatorInv, KeyOfJob, IsJob
<1>17. InFlightIsLive'
  <2>1. ASSUME NEW k \in Keys, in_flight'[k] # None
        PROVE  HasState(in_flight[k], {"Queued", "Analyzing"})' /\ jobs'[in_flight'[k]].cache_key = k
    <3>1. CASE k = key
      BY <3>1, <1>3, <1>6, <1>8 DEF HasState, IsJob
    <3>2. CASE k # key
      <4>1. in_flight'[k] = in_flight[k] /\ in_flight[k] \in JobIds
        BY <2>1, <3>2, <1>8 DEF CoordinatorInv, TypeOK
      <4>2. in_flight[k] \notin stale
        BY <2>1, <3>2, <4>1, <1>8 DEF CoordinatorInv, InFlightIsLive
      <4>3. in_flight[k] # j
        BY <4>1, <1>2 DEF CoordinatorInv, InFlightIsLive, HasState, IsJob
      <4> QED
        BY <4>1, <4>2, <4>3, <1>6 DEF CoordinatorInv, InFlightIsLive, HasState, IsJob
    <3> QED BY <3>1, <3>2
  <2>2. ASSUME NEW i \in JobIds, HasState(i, {"Queued", "Analyzing"})'
        PROVE  jobs'[i].cache_key # None /\ in_flight'[jobs'[i].cache_key] = i
    <3>1. CASE i = j
      BY <3>1, <1>1, <1>3, <1>6, <1>8
    <3>2. CASE i # j
      <4>1. i \notin stale /\ jobs'[i] = jobs[i]
        BY <2>2, <3>2, <1>5, <1>6 DEF HasState
      <4>2. HasState(i, {"Queued", "Analyzing"})
        BY <2>2, <4>1 DEF HasState, IsJob
      <4>3. /\ jobs[i].cache_key # None /\ in_flight[jobs[i].cache_key] = i
            /\ jobs[i].cache_key \in Keys
        BY <4>2 DEF CoordinatorInv, InFlightIsLive, TypeOK, JobRecords, HasState, IsJob
      <4>4. jobs[i].cache_key # key
        BY <4>3, <1>2
      <4>5. \A x \in stale : jobs[x].cache_key # jobs[i].cache_key
        BY <4>1, <4>3, <1>4 DEF CoordinatorInv, InFlightIsLive, HasState, IsJob
      <4> QED BY <4>1, <4>3, <4>4, <4>5, <1>8
    <3> QED BY <3>1, <3>2
  <2> QED BY <2>1, <2>2 DEF InFlightIsLive
<1>18. OneAnalysis'
  <2>1. ASSUME NEW i \in JobIds
        PROVE  HasState(i, {"Analyzing"})' <=> HasState(i, {"Analyzing"})
    BY <1>2, <1>3, <1>4, <1>5, <1>6 DEF HasState, IsJob
  <2> QED BY <2>1, <1>2 DEF CoordinatorInv, OneAnalysis
<1>19. EnrichmentMatchesKey'
  <2>1. CacheMatchesKey'
    BY <1>2 DEF CoordinatorInv, EnrichmentMatchesKey, CacheMatchesKey
  <2>2. JobMapsMatch'
    BY <1>3, <1>4, <1>5, <1>6 DEF CoordinatorInv, EnrichmentMatchesKey, JobMapsMatch, IsJob
  <2> QED BY <2>1, <2>2 DEF EnrichmentMatchesKey, CacheMatchesKey, JobMapsMatch
<1> QED
  BY <1>13, <1>14, <1>15, <1>16, <1>17, <1>18, <1>19 DEF CoordinatorInv

-----------------------------------------------------------------------------
\* The worker.

\* A step of the worker that touches neither the jobs nor the cache.
LEMMA WorkerMovesInv ==
  ASSUME CoordinatorInv, worker' \in Workers, WorkerCarriesData',
         queue' \in Seq(JobIds),
         UNCHANGED <<head, digest, calls, jobs, in_flight, cache>>,
         \A j \in JobIds :
           (worker.job = j /\ worker.phase \in {"analyzing", "generating", "finishing"}) <=>
           (worker'.job = j /\ worker'.phase \in {"analyzing", "generating", "finishing"})
  PROVE  CoordinatorInv'
<1>1. TypeOK' /\ CallsCarryData'
  BY DEF CoordinatorInv, TypeOK, CallsCarryData
<1>2. KeyOfJob' /\ InFlightIsLive' /\ EnrichmentMatchesKey'
  BY DEF CoordinatorInv, KeyOfJob, InFlightIsLive, EnrichmentMatchesKey, IsJob, HasState
<1>3. OneAnalysis'
  BY DEF CoordinatorInv, OneAnalysis, IsJob, HasState
<1> QED BY <1>1, <1>2, <1>3 DEF CoordinatorInv

\* Taking a job off the channel moves it from the queue to the worker.
LEMMA WorkerReceiveInv ==
  ASSUME CoordinatorInv, WorkerReceive
  PROVE  CoordinatorInv'
<1>1. worker \in Workers /\ queue \in Seq(JobIds) /\ queue # <<>>
  BY DEF WorkerReceive, CoordinatorInv, TypeOK
<1>2. Head(queue) \in JobIds /\ queue' \in Seq(JobIds)
  BY <1>1 DEF WorkerReceive
<1>3. worker' \in Workers /\ worker'.phase = "received" /\ worker'.job = Head(queue)
  BY <1>1, <1>2 DEF WorkerReceive, Workers, WorkerPhases
<1>4. WorkerCarriesData'
  BY <1>2, <1>3 DEF WorkerCarriesData
<1> QED
  BY <1>2, <1>3, <1>4, WorkerMovesInv DEF WorkerReceive, env

\* The worker starts the job it holds unless that was superseded.
LEMMA WorkerBeginInv ==
  ASSUME CoordinatorInv, WorkerBegin
  PROVE  CoordinatorInv'
<1> USE CoordinatorAssumption
<1>1. /\ worker \in Workers /\ worker.phase = "received" /\ worker.job \in JobIds
      /\ UNCHANGED <<head, digest, calls, in_flight, queue, cache>>
  BY DEF WorkerBegin, env, CoordinatorInv, TypeOK, WorkerCarriesData
<1>2. CASE ~StillQueued
  <2>1. worker' = IdleWorker /\ jobs' = jobs
    BY <1>2 DEF WorkerBegin, SkipSuperseded
  <2>2. worker' \in Workers /\ worker'.phase = "idle"
    BY <2>1 DEF IdleWorker, Workers, WorkerPhases
  <2>3. WorkerCarriesData'
    BY <2>2 DEF WorkerCarriesData
  <2>4. queue' \in Seq(JobIds)
    BY <1>1 DEF CoordinatorInv, TypeOK
  <2> QED BY <1>1, <2>1, <2>2, <2>3, <2>4, WorkerMovesInv
<1>3. CASE StillQueued
  <2> DEFINE j == worker.job
             record == [jobs[j] EXCEPT !.state = "Analyzing"]
  <2>1. jobs[j] \in JobRecords /\ jobs[j].state = "Queued" /\ jobs[j] # None
    BY <1>1, <1>3 DEF StillQueued, HasState, IsJob, CoordinatorInv, TypeOK
  <2>2. record \in JobRecords /\ record.state = "Analyzing"
    BY <2>1 DEF JobRecords, JobStates
  <2>3. /\ record.map = jobs[j].map /\ record.cache_key = jobs[j].cache_key
        /\ record.pr = jobs[j].pr /\ record.head = jobs[j].head
    BY <2>1 DEF JobRecords
  <2>4. jobs' = [jobs EXCEPT ![j] = record]
    BY <1>3 DEF WorkerBegin
  <2>5. /\ worker' \in Workers /\ worker'.phase = "analyzing" /\ worker'.job = j
    BY <1>1, <1>3 DEF WorkerBegin, Workers, WorkerPhases
  <2> HIDE DEF record
  <2>6. \A i \in JobIds : jobs'[i] = IF i = j THEN record ELSE jobs[i]
    BY <2>4 DEF CoordinatorInv, TypeOK
  <2>7. TypeOK' /\ CallsCarryData'
    BY <1>1, <2>2, <2>4, <2>5 DEF CoordinatorInv, TypeOK, CallsCarryData
  <2>8. WorkerCarriesData'
    BY <1>1, <2>5 DEF WorkerCarriesData
  <2>9. KeyOfJob'
    BY <1>1, <2>1, <2>3, <2>6 DEF CoordinatorInv, KeyOfJob, IsJob
  <2>10. InFlightIsLive'
    <3>1. in_flight \in [Keys -> JobIds \cup {None}]
      BY DEF CoordinatorInv, TypeOK
    <3>2. record # None
      BY <2>2
    <3> QED
      BY <1>1, <2>1, <2>2, <2>3, <2>6, <3>1, <3>2
      DEF CoordinatorInv, InFlightIsLive, HasState, IsJob
  <2>11. OneAnalysis'
    <3>1. record # None
      BY <2>2
    <3>2. \A i \in JobIds : ~HasState(i, {"Analyzing"})
      BY <1>1 DEF CoordinatorInv, OneAnalysis
    <3> QED BY <1>1, <2>2, <2>5, <2>6, <3>1, <3>2 DEF OneAnalysis, HasState, IsJob
  <2>12. EnrichmentMatchesKey'
    <3>1. CacheMatchesKey'
      BY <1>1 DEF CoordinatorInv, EnrichmentMatchesKey, CacheMatchesKey
    <3>2. JobMapsMatch'
      BY <2>1, <2>2, <2>3, <2>6 DEF CoordinatorInv, EnrichmentMatchesKey, JobMapsMatch, IsJob
    <3> QED BY <3>1, <3>2 DEF EnrichmentMatchesKey, CacheMatchesKey, JobMapsMatch
  <2> QED BY <2>7, <2>8, <2>9, <2>10, <2>11, <2>12 DEF CoordinatorInv
<1> QED BY <1>2, <1>3

\* Reading the digest keeps the worker on the same analyzing job.
LEMMA ReadDigestInv ==
  ASSUME CoordinatorInv, ReadDigest
  PROVE  CoordinatorInv'
<1>1. worker \in Workers /\ worker.phase = "analyzing" /\ worker.job \in JobIds /\ digest \in Digests
  BY DEF ReadDigest, CoordinatorInv, TypeOK, WorkerCarriesData
<1>2. /\ worker' \in Workers /\ worker'.phase = "generating"
      /\ worker'.job = worker.job /\ worker'.reported = digest
  BY <1>1 DEF ReadDigest, Workers, WorkerPhases
<1>3. WorkerCarriesData'
  BY <1>1, <1>2 DEF WorkerCarriesData
<1>4. queue' \in Seq(JobIds) /\ UNCHANGED <<head, digest, calls, jobs, in_flight, cache>>
  BY DEF ReadDigest, env, CoordinatorInv, TypeOK
<1> QED BY <1>1, <1>2, <1>3, <1>4, WorkerMovesInv

\* An outcome without a map never claims an enrichment.
LEMMA FinishingInv ==
  ASSUME CoordinatorInv, worker.phase \in {"analyzing", "generating"},
         NEW state \in {"Unavailable", "Failed"}, NEW status \in MapStatuses,
         Finishing(Outcome(state, status, None)),
         UNCHANGED <<head, digest, calls, jobs, in_flight, queue, cache>>
  PROVE  CoordinatorInv'
<1> DEFINE outcome == Outcome(state, status, None)
<1>1. outcome \in Outcomes /\ outcome.state # "Enriched" /\ outcome.map = None
  BY DEF Outcome, Outcomes, Terminal
<1>2. worker \in Workers /\ worker.job \in JobIds
  BY DEF CoordinatorInv, TypeOK, WorkerCarriesData
<1> HIDE DEF outcome
<1>3. worker' = [worker EXCEPT !.phase = "finishing", !.outcome = outcome]
  BY DEF Finishing, outcome
<1>4. /\ worker' \in Workers /\ worker'.phase = "finishing"
      /\ worker'.job = worker.job /\ worker'.outcome = outcome
  BY <1>1, <1>2, <1>3 DEF Workers, WorkerPhases
<1>5. WorkerCarriesData'
  BY <1>1, <1>2, <1>4 DEF WorkerCarriesData
<1>6. queue' \in Seq(JobIds)
  BY DEF CoordinatorInv, TypeOK
<1> QED BY <1>4, <1>5, <1>6, WorkerMovesInv

\* A map the model returned is cached under the job's own key only.
LEMMA AnalyzeSucceedsInv ==
  ASSUME CoordinatorInv, AnalyzeSucceeds
  PROVE  CoordinatorInv'
<1> USE CoordinatorAssumption
<1> DEFINE j == worker.job
           key == jobs[j].cache_key
           map == [pr |-> key.pr, head |-> key.head,
                   reported |-> worker.reported]
           outcome == Outcome("Enriched", "Enriched", map)
<1>1. /\ worker \in Workers /\ worker.phase = "generating" /\ j \in JobIds
      /\ worker.reported \in Digests /\ digest \in Digests
  BY DEF AnalyzeSucceeds, CoordinatorInv, TypeOK, WorkerCarriesData
<1>2. HasState(j, {"Analyzing"})
  BY <1>1 DEF CoordinatorInv, OneAnalysis
<1>3. key # None /\ key \in Keys
  BY <1>1, <1>2 DEF CoordinatorInv, InFlightIsLive, TypeOK, JobRecords, HasState, IsJob
<1>4. key.pr = jobs[j].pr /\ key.head = jobs[j].head /\ worker.reported = key.digest
  BY <1>1, <1>2, <1>3 DEF CoordinatorInv, KeyOfJob, HasState, AnalyzeSucceeds, ResultIsCurrent
<1>5. key.pr \in PullRequests /\ key.head \in Heads
  BY <1>3 DEF Keys
<1>6. /\ map \in EnrichedMaps /\ map # None
      /\ map.pr = key.pr /\ map.head = key.head /\ map.reported = worker.reported
  <2>1. map \in EnrichedMaps
    BY <1>1, <1>5 DEF EnrichedMaps
  <2> QED BY <2>1
<1>7. /\ Finishing(outcome)
      /\ cache' \in Evicted([cache EXCEPT ![key] = map]) \/ cache' = cache
      /\ UNCHANGED <<head, digest, calls, jobs, in_flight, queue>>
  BY DEF AnalyzeSucceeds, env
<1> HIDE DEF key, map
<1>8. outcome \in Outcomes /\ outcome.state = "Enriched" /\ outcome.map = map
  BY <1>6 DEF Outcome, Outcomes, Terminal, MapStatuses
<1> HIDE DEF outcome
<1>9. worker' = [worker EXCEPT !.phase = "finishing", !.outcome = outcome]
  BY <1>7 DEF Finishing
<1>10. /\ worker' \in Workers /\ worker'.phase = "finishing"
       /\ worker'.job = j /\ worker'.outcome = outcome
  BY <1>1, <1>8, <1>9 DEF Workers, WorkerPhases
<1>11. WorkerCarriesData'
  BY <1>1, <1>4, <1>6, <1>7, <1>8, <1>10 DEF WorkerCarriesData
<1>12. cache' \in [Keys -> EnrichedMaps \cup {None}] /\ CacheMatchesKey'
  <2>1. CASE cache' = cache
    BY <2>1 DEF CoordinatorInv, TypeOK, EnrichmentMatchesKey, CacheMatchesKey
  <2>2. CASE cache' \in Evicted([cache EXCEPT ![key] = map])
    <3> DEFINE entries == [cache EXCEPT ![key] = map]
    <3>1. entries \in [Keys -> EnrichedMaps \cup {None}]
      BY <1>6 DEF CoordinatorInv, TypeOK
    <3>2. \A k \in Keys : entries[k] # None =>
            /\ entries[k].pr = k.pr /\ entries[k].head = k.head
            /\ entries[k].reported = k.digest
      BY <1>3, <1>4, <1>6 DEF CoordinatorInv, TypeOK, EnrichmentMatchesKey
    <3> QED BY <2>2, <3>1, <3>2, EvictedMatches
  <2> QED BY <1>7, <2>1, <2>2
<1>13. TypeOK' /\ CallsCarryData'
  BY <1>7, <1>10, <1>12 DEF CoordinatorInv, TypeOK, CallsCarryData
<1>14. KeyOfJob' /\ InFlightIsLive' /\ JobMapsMatch'
  BY <1>7 DEF CoordinatorInv, KeyOfJob, InFlightIsLive, EnrichmentMatchesKey, JobMapsMatch,
     IsJob, HasState
<1>15. OneAnalysis'
  BY <1>1, <1>7, <1>10 DEF CoordinatorInv, OneAnalysis, IsJob, HasState
<1> QED
  BY <1>11, <1>12, <1>13, <1>14, <1>15 DEF CoordinatorInv, EnrichmentMatchesKey,
     CacheMatchesKey, JobMapsMatch

\* The published job is the analyzing one, and its key is the one that leaves
\* in_flight.
LEMMA WorkerFinishInv ==
  ASSUME CoordinatorInv, WorkerFinish
  PROVE  /\ CoordinatorInv'
         /\ HasState(worker.job, {"Analyzing"})
         /\ jobs'[worker.job] # None /\ jobs'[worker.job].state \in Terminal
         /\ \A i \in JobIds : i # worker.job => jobs'[i] = jobs[i]
<1> USE CoordinatorAssumption
<1> DEFINE j == worker.job
           key == jobs[j].cache_key
           outcome == worker.outcome
           record == [jobs[j] EXCEPT !.state = outcome.state, !.status = outcome.status,
                                     !.map = outcome.map]
<1>1. /\ worker.phase = "finishing" /\ j \in JobIds
      /\ outcome \in Outcomes
      /\ outcome.state = "Enriched" <=> outcome.map # None
      /\ outcome.map # None => outcome.map.pr = jobs[j].pr /\ outcome.map.head = jobs[j].head
  BY DEF WorkerFinish, CoordinatorInv, WorkerCarriesData
<1>2. HasState(j, {"Analyzing"})
  BY <1>1 DEF CoordinatorInv, OneAnalysis
<1>3. jobs[j] \in JobRecords /\ jobs[j] # None /\ jobs[j].state = "Analyzing"
  BY <1>1, <1>2 DEF CoordinatorInv, TypeOK, HasState, IsJob
<1>4. key # None /\ key \in Keys /\ in_flight[key] = j
  BY <1>1, <1>2, <1>3 DEF CoordinatorInv, InFlightIsLive, JobRecords, HasState
<1>5. outcome.state \in Terminal /\ outcome.status \in MapStatuses
      /\ outcome.map \in EnrichedMaps \cup {None}
  BY <1>1 DEF Outcomes
<1>6. record \in JobRecords
  BY <1>3, <1>5 DEF JobRecords, JobStates, Terminal
<1>7. /\ record.state = outcome.state /\ record.map = outcome.map
      /\ record.cache_key = key /\ record.pr = jobs[j].pr /\ record.head = jobs[j].head
  BY <1>3 DEF JobRecords
<1>8. /\ jobs' = [jobs EXCEPT ![j] = record]
      /\ in_flight' = [in_flight EXCEPT ![key] = None]
      /\ worker' = IdleWorker
      /\ UNCHANGED <<head, digest, calls, queue, cache>>
  BY DEF WorkerFinish, env
<1> HIDE DEF record, outcome, key
<1>9. \A i \in JobIds : jobs'[i] = IF i = j THEN record ELSE jobs[i]
  BY <1>8 DEF CoordinatorInv, TypeOK
<1>10. \A k \in Keys : in_flight'[k] = IF k = key THEN None ELSE in_flight[k]
  BY <1>8 DEF CoordinatorInv, TypeOK
<1>11. worker' \in Workers /\ worker'.phase = "idle"
  BY <1>8 DEF IdleWorker, Workers, WorkerPhases
<1>12. TypeOK' /\ CallsCarryData'
  BY <1>6, <1>8, <1>11 DEF CoordinatorInv, TypeOK, CallsCarryData
<1>13. WorkerCarriesData'
  BY <1>11 DEF WorkerCarriesData
<1>14. KeyOfJob'
  BY <1>1, <1>3, <1>7, <1>9 DEF CoordinatorInv, KeyOfJob, IsJob, key
<1>15. record.state \notin {"Queued", "Analyzing"} /\ record # None
  BY <1>5, <1>6, <1>7 DEF Terminal
<1>16. InFlightIsLive'
  <2>1. in_flight \in [Keys -> JobIds \cup {None}]
    BY DEF CoordinatorInv, TypeOK
  <2>2. \A k \in Keys : in_flight[k] = j => k = key
    BY <1>1 DEF CoordinatorInv, InFlightIsLive, key
  <2>3. ASSUME NEW k \in Keys, in_flight'[k] # None
        PROVE  HasState(in_flight[k], {"Queued", "Analyzing"})' /\ jobs'[in_flight'[k]].cache_key = k
    <3>1. in_flight'[k] = in_flight[k] /\ in_flight[k] \in JobIds /\ in_flight[k] # j
      BY <2>1, <2>2, <2>3, <1>10
    <3> QED BY <3>1, <1>9 DEF CoordinatorInv, InFlightIsLive, HasState, IsJob
  <2>4. ASSUME NEW i \in JobIds, HasState(i, {"Queued", "Analyzing"})'
        PROVE  jobs'[i].cache_key # None /\ in_flight'[jobs'[i].cache_key] = i
    <3>1. i # j /\ jobs'[i] = jobs[i]
      BY <2>4, <1>9, <1>15 DEF HasState
    <3>2. HasState(i, {"Queued", "Analyzing"}) /\ jobs[i] \in JobRecords
      BY <2>4, <3>1 DEF HasState, IsJob, CoordinatorInv, TypeOK
    <3>3. /\ jobs[i].cache_key # None /\ in_flight[jobs[i].cache_key] = i
          /\ jobs[i].cache_key \in Keys
      BY <3>2 DEF CoordinatorInv, InFlightIsLive, JobRecords
    <3>4. jobs[i].cache_key # key
      BY <3>1, <3>3, <1>4
    <3> QED BY <3>1, <3>3, <3>4, <1>10
  <2> QED BY <2>3, <2>4 DEF InFlightIsLive
<1>17. OneAnalysis'
  <2>1. \A i \in JobIds : i # j => ~HasState(i, {"Analyzing"})
    BY DEF CoordinatorInv, OneAnalysis
  <2>2. \A i \in JobIds : ~HasState(i, {"Analyzing"})'
    BY <2>1, <1>9, <1>15 DEF HasState, IsJob
  <2> QED BY <2>2, <1>11 DEF OneAnalysis
<1>18. EnrichmentMatchesKey'
  <2>1. CacheMatchesKey'
    BY <1>8 DEF CoordinatorInv, EnrichmentMatchesKey, CacheMatchesKey
  <2>2. JobMapsMatch'
    BY <1>1, <1>7, <1>9 DEF CoordinatorInv, EnrichmentMatchesKey, JobMapsMatch, IsJob
  <2> QED BY <2>1, <2>2 DEF EnrichmentMatchesKey, CacheMatchesKey, JobMapsMatch
<1>19. jobs'[j] # None /\ jobs'[j].state \in Terminal
  BY <1>1, <1>5, <1>7, <1>9, <1>15
<1> QED
  BY <1>2, <1>9, <1>12, <1>13, <1>14, <1>16, <1>17, <1>18, <1>19 DEF CoordinatorInv

-----------------------------------------------------------------------------
\* The next-state relation, step by step.

\* What a step may do to a job: nothing to a terminal one, and an analyzing
\* one only ends.
JobAdvances(j) ==
  IsJob(j) =>
    /\ jobs'[j] # None
    /\ jobs[j].state \in Terminal => jobs'[j] = jobs[j]
    /\ jobs[j].state = "Analyzing" => jobs'[j].state \in {"Analyzing"} \cup Terminal

\* A step that leaves jobs alone advances them trivially.
LEMMA UnchangedAdvances ==
  ASSUME NEW j \in JobIds, jobs'[j] = jobs[j]
  PROVE  JobAdvances(j)
BY DEF JobAdvances, IsJob

\* Enqueueing adds a job and supersedes queued ones, nothing else.
LEMMA EnqueueAdvances ==
  ASSUME CoordinatorInv, NEW c \in Clients, NEW j \in JobIds, Enqueue(c, j)
  PROVE  \A i \in JobIds : JobAdvances(i)
<1> USE CoordinatorAssumption
<1> SUFFICES ASSUME NEW i \in JobIds, IsJob(i) PROVE JobAdvances(i)
  BY DEF JobAdvances
<1> DEFINE stale == StaleQueued(CallKey(c).pr, CallKey(c).head)
<1>1. i # j
  BY DEF Enqueue
<1>2. CASE i \in stale
  <2>1. jobs[i].state = "Queued" /\ jobs[i] \in JobRecords
    BY <1>2 DEF StaleQueued, HasState, IsJob, CoordinatorInv, TypeOK
  <2>2. jobs'[i] = [jobs[i] EXCEPT !.state = "Unavailable", !.status = "Stale"]
    BY <1>1, <1>2 DEF Enqueue
  <2>3. jobs'[i] \in JobRecords
    BY <2>1, <2>2 DEF JobRecords, JobStates, MapStatuses
  <2> QED BY <2>1, <2>3 DEF JobAdvances, Terminal
<1>3. CASE i \notin stale
  <2>1. jobs'[i] = jobs[i]
    BY <1>1, <1>3 DEF Enqueue
  <2> QED BY <2>1, UnchangedAdvances
<1> QED BY <1>2, <1>3

\* The worker starts queued jobs only.
LEMMA WorkerBeginAdvances ==
  ASSUME CoordinatorInv, WorkerBegin
  PROVE  \A i \in JobIds : JobAdvances(i)
<1> USE CoordinatorAssumption
<1> SUFFICES ASSUME NEW i \in JobIds, IsJob(i) PROVE JobAdvances(i)
  BY DEF JobAdvances
<1>1. CASE StillQueued /\ worker.job = i
  <2>1. jobs[i].state = "Queued" /\ jobs[i] \in JobRecords
    BY <1>1 DEF StillQueued, HasState, IsJob, CoordinatorInv, TypeOK
  <2>2. jobs'[i] = [jobs[i] EXCEPT !.state = "Analyzing"]
    BY <1>1 DEF WorkerBegin, CoordinatorInv, TypeOK
  <2>3. jobs'[i] \in JobRecords
    BY <2>1, <2>2 DEF JobRecords, JobStates
  <2> QED BY <2>1, <2>3 DEF JobAdvances, Terminal
<1>2. CASE ~(StillQueued /\ worker.job = i)
  <2>1. jobs'[i] = jobs[i]
    BY <1>2 DEF WorkerBegin, CoordinatorInv, TypeOK
  <2> QED BY <2>1, UnchangedAdvances
<1> QED BY <1>1, <1>2

\* Every step keeps the invariant and only advances jobs.
LEMMA StepInv ==
  ASSUME CoordinatorInv, [Next]_vars
  PROVE  CoordinatorInv' /\ \A j \in JobIds : JobAdvances(j)
<1> DEFINE Goal == CoordinatorInv' /\ \A j \in JobIds : JobAdvances(j)
<1>1. ASSUME jobs' = jobs PROVE \A j \in JobIds : JobAdvances(j)
  BY <1>1, UnchangedAdvances
<1>2. CASE UNCHANGED vars
  <2>1. CoordinatorInv'
    <3>1. JobsInv'
      BY <1>2, JobsFrame DEF vars
    <3>2. TypeOK' /\ CallsCarryData'
      BY <1>2 DEF vars, CoordinatorInv, TypeOK, CallsCarryData
    <3> QED BY <3>1, <3>2 DEF JobsInv, CoordinatorInv
  <2> QED BY <1>1, <1>2, <2>1 DEF vars
<1>3. CASE \/ \E p \in PullRequests : PushHead(p)
           \/ \E d \in Digests : InstallModel(d)
           \/ \E c \in Clients : \/ ClientDisconnect(c)
                                 \/ \E p \in PullRequests, h \in Heads : CreateReviewMap(c, p, h)
                                 \/ \E j \in JobIds : RetryReviewMap(c, j)
                                 \/ LoadFails(c) \/ LoadPullRequest(c)
                                 \/ AnalyzerIdentity(c) \/ CacheGetFails(c) \/ Coalesce(c)
                                 \/ SendWork(c)
  <2>1. jobs' = jobs
    BY <1>3 DEF PushHead, InstallModel, ClientDisconnect, CreateReviewMap, RetryReviewMap,
       LoadFails, LoadPullRequest, AnalyzerIdentity, CacheGetFails, Coalesce, SendWork
  <2> QED BY <1>1, <1>3, <2>1, QuietStep
<1>4. ASSUME NEW c \in Clients, NEW j \in JobIds, IdentityFails(c, j) \/ CacheHit(c, j)
      PROVE  Goal
  <2>1. \A i \in JobIds : i # j => jobs'[i] = jobs[i]
    BY <1>4 DEF IdentityFails, CacheHit, RecordTerminal, CoordinatorInv, TypeOK
  <2>2. ~IsJob(j)
    BY <1>4 DEF IdentityFails, CacheHit, RecordTerminal
  <2>3. \A i \in JobIds : JobAdvances(i)
    BY <2>1, <2>2, UnchangedAdvances DEF JobAdvances
  <2> QED BY <1>4, <2>3, IdentityFailsInv, CacheHitInv
<1>5. ASSUME NEW c \in Clients, CacheMiss(c) PROVE Goal
  BY <1>1, <1>5, CacheMissInv DEF CacheMiss
<1>6. ASSUME NEW c \in Clients, NEW j \in JobIds, Enqueue(c, j) PROVE Goal
  BY <1>6, EnqueueInv, EnqueueAdvances
<1>7. CASE WorkerReceive
  BY <1>1, <1>7, WorkerReceiveInv DEF WorkerReceive
<1>8. CASE WorkerBegin
  BY <1>8, WorkerBeginInv, WorkerBeginAdvances
<1>9. CASE ReadDigest
  BY <1>1, <1>9, ReadDigestInv DEF ReadDigest
<1>10. CASE AnalyzeFails
  BY <1>1, <1>10, FinishingInv DEF AnalyzeFails, env, MapStatuses
<1>11. CASE AnalyzeStale
  BY <1>1, <1>11, FinishingInv DEF AnalyzeStale, env, MapStatuses
<1>12. CASE AnalyzeSucceeds
  BY <1>1, <1>12, AnalyzeSucceedsInv DEF AnalyzeSucceeds
<1>13. CASE WorkerFinish
  <2>1. \A i \in JobIds : JobAdvances(i)
    <3> SUFFICES ASSUME NEW i \in JobIds PROVE JobAdvances(i)
      OBVIOUS
    <3>1. CASE i = worker.job
      BY <1>13, <3>1, WorkerFinishInv DEF JobAdvances, HasState, Terminal
    <3>2. CASE i # worker.job
      BY <1>13, <3>2, WorkerFinishInv, UnchangedAdvances
    <3> QED BY <3>1, <3>2
  <2> QED BY <1>13, <2>1, WorkerFinishInv
<1> QED
  BY <1>2, <1>3, <1>4, <1>5, <1>6, <1>7, <1>8, <1>9, <1>10, <1>11, <1>12, <1>13
  DEF Next, Environment, Resolve, Worker

-----------------------------------------------------------------------------
\* The coordinator's theorems.

\* CoordinatorInv is an invariant of the coordinator.
THEOREM Invariance == Spec => []CoordinatorInv
<1>1. Init => CoordinatorInv
  BY InitInv
<1>2. CoordinatorInv /\ [Next]_vars => CoordinatorInv'
  BY StepInv
<1> QED BY <1>1, <1>2, PTL DEF Spec

\* The state of the handlers, the job table, the channel and the worker stays
\* within its types.
THEOREM TypeCorrect == Spec => []TypeOK
<1>1. CoordinatorInv => TypeOK
  BY DEF CoordinatorInv
<1> QED BY <1>1, Invariance, PTL

\* Coalescing is sound: in_flight names exactly the live jobs, each under its
\* own key.
THEOREM CoalescingIsSound == Spec => []InFlightIsLive
<1>1. CoordinatorInv => InFlightIsLive
  BY DEF CoordinatorInv
<1> QED BY <1>1, Invariance, PTL

\* The only analyzing job is the one the worker holds.
THEOREM SingleAnalysis == Spec => []OneAnalysis
<1>1. CoordinatorInv => OneAnalysis
  BY DEF CoordinatorInv
<1> QED BY <1>1, Invariance, PTL

\* Neither a job nor the cache ever holds an enrichment of another revision.
THEOREM EnrichmentIsBound == Spec => []EnrichmentMatchesKey
<1>1. CoordinatorInv => EnrichmentMatchesKey
  BY DEF CoordinatorInv
<1> QED BY <1>1, Invariance, PTL

\* A job a client polls never goes backwards and is never forgotten.
THEOREM Monotonicity == Spec => JobsOnlyAdvance
<1>1. CoordinatorInv /\ [Next]_vars =>
        [\A j \in JobIds : IsJob(j) =>
           /\ jobs'[j] # None
           /\ jobs[j].state \in Terminal => jobs'[j] = jobs[j]
           /\ jobs[j].state = "Analyzing" => jobs'[j].state \in {"Analyzing"} \cup Terminal]_vars
  BY StepInv DEF JobAdvances
<1> QED BY <1>1, Invariance, PTL DEF Spec, JobsOnlyAdvance
=============================================================================
