----------------------------- MODULE SessionBroker -----------------------------
(***************************************************************************)
(* The live-session broker: the daemon's session registry and connection   *)
(* threads (src/session/daemon.rs), the registration thread of every TUI   *)
(* (src/session/registration.rs), the TUI's own loop (src/app.rs) and the  *)
(* HTTP threads that dispatch a session command and wait for its answer.   *)
(*                                                                         *)
(* A step is what a thread does between two blocking calls or under one    *)
(* acquisition of the registry lock. Review state is a version number: the *)
(* registration and snapshot a TUI publishes are those of one version, and *)
(* the Registration frame that precedes each Snapshot frame is part of it. *)
(***************************************************************************)
EXTENDS Integers, Sequences, FiniteSets

CONSTANTS
  Sessions,      \* session ids, one TUI process each
  Callers,       \* HTTP threads of the daemon, by the CLI client they serve
  MaxConns,      \* bound: connections opened by the TUIs
  MaxRequests,   \* bound: request ids of one daemon process
  MaxVersion,    \* bound: versions of the review state
  MaxBoots,      \* bound: daemon processes, one after the other
  RouteCap,      \* capacity of a connection's route (32 in the code)
  OutCap,        \* capacity of the TUI's outbound channel (32)
  RequestCap,    \* capacity of the TUI's request channel (32)
  WireBound,     \* bound: frames on their way to the daemon
  None

Conns == 1..MaxConns
Boots == 1..MaxBoots
RequestIds == 1..MaxRequests
Versions == 1..MaxVersion

\* ClientSessionFrame and ServerSessionFrame. Result and Command carry the
\* request id; boot, the daemon process that issued the id, is not on the wire
\* and only tells the commands of two processes apart.
ClientFrames ==
  [type : {"Register", "Snapshot"}, v : Versions]
    \cup [type : {"Result"}, id : RequestIds, boot : Boots, v : Versions]
    \cup [type : {"Ping", "Unregister"}]
Commands == [type : {"Command"}, id : RequestIds, boot : Boots]
ServerFrames == Commands \cup [type : {"Registered", "Pong"}]

\* RegisteredSession. pending holds the callers of pending_request_ids and
\* pending_responses; stale: last_seen is more than stale_session_ttl ago.
Entries ==
  [generation : Nat, conn : Conns, snapshot : Versions,
   pending : SUBSET Callers, stale : BOOLEAN]

\* A TCP connection and its daemon thread. down is the route channel followed
\* by the bytes on their way to the TUI.
Connections ==
  [sid : Sessions, generation : Nat, client : BOOLEAN,
   server : {"new", "registered", "open", "closed"},
   up : Seq(ClientFrames), down : Seq(ServerFrames)]

\* RegistrationOutbound
Outbounds ==
  [type : {"Publish"}]
    \cup [type : {"Response"}, id : RequestIds, boot : Boots, v : Versions]

\* SessionRegistrationClient: phase is where its thread is; lost says that the
\* latest publication found the outbound channel full. pruned is history: its
\* last registration was pruned.
Tuis ==
  [alive : BOOLEAN, phase : {"disconnected", "registering", "connected", "exited"},
   conn : Conns \cup {None}, version : Versions, lost : BOOLEAN, pruned : BOOLEAN,
   outbound : Seq(Outbounds), requests : Seq(Commands)]

\* A thread in dispatch_session_command.
CallerStates ==
  [pc : {"idle", "waiting", "cleanup", "done"}, sid : Sessions \cup {None},
   generation : Nat, id : RequestIds \cup {None}, boot : Boots \cup {None},
   reply : [id : RequestIds, boot : Boots] \cup {None}]

ASSUME BrokerAssumption ==
  /\ {MaxConns, MaxRequests, MaxVersion, MaxBoots, RouteCap, OutCap, RequestCap,
      WireBound} \subseteq Nat \ {0}
  /\ None \notin Entries /\ None \notin Connections /\ None \notin Conns
  /\ None \notin Sessions

VARIABLES
  up,          \* whether a daemon process runs
  boot,        \* which one it is
  registry,    \* SessionRegistry.sessions
  generation,  \* SessionRegistry.next_generation
  requestId,   \* SessionRegistry.next_request_id
  conns,       \* the connections opened so far
  tuis,        \* the TUI processes
  callers      \* the HTTP threads

vars == <<up, boot, registry, generation, requestId, conns, tuis, callers>>
daemon == <<up, boot, registry, generation, requestId>>

TypeOK ==
  /\ up \in BOOLEAN /\ boot \in Boots
  /\ registry \in [Sessions -> Entries \cup {None}]
  /\ generation \in Nat /\ requestId \in 0..MaxRequests
  /\ conns \in [Conns -> Connections \cup {None}]
  /\ tuis \in [Sessions -> Tuis]
  /\ callers \in [Callers -> CallerStates]
  /\ \A s \in Sessions : Len(tuis[s].outbound) <= OutCap /\ Len(tuis[s].requests) <= RequestCap

IdleCaller ==
  [pc |-> "idle", sid |-> None, generation |-> 0, id |-> None, boot |-> None, reply |-> None]

Init ==
  /\ up = TRUE /\ boot = 1
  /\ registry = [s \in Sessions |-> None]
  /\ generation = 0 /\ requestId = 0
  /\ conns = [c \in Conns |-> None]
  /\ tuis = [s \in Sessions |->
       [alive |-> TRUE, phase |-> "disconnected", conn |-> None, version |-> 1,
        lost |-> FALSE, pruned |-> FALSE, outbound |-> <<>>, requests |-> <<>>]]
  /\ callers = [k \in Callers |-> IdleCaller]

-----------------------------------------------------------------------------
\* Helpers.

Registered(s) == registry[s] # None

\* The guard of every registry operation of a connection.
OwnsEntry(c) ==
  LET s == conns[c].sid IN Registered(s) /\ registry[s].generation = conns[c].generation

\* Mutant: unregister whatever the session's current registration is.
UnregisterAny(c) == [registry EXCEPT ![conns[c].sid] = None]

\* unregister_generation
UnregisterGeneration(c) ==
  IF OwnsEntry(c) THEN [registry EXCEPT ![conns[c].sid] = None] ELSE registry

\* update_registration and update_snapshot
UpdateSnapshot(c, v) ==
  IF OwnsEntry(c)
    THEN [registry EXCEPT ![conns[c].sid].snapshot = v, ![conns[c].sid].stale = FALSE]
    ELSE registry

\* SyncSender::try_send: the item is dropped when the channel is full.
TrySend(queue, item, cap) == IF Len(queue) < cap THEN Append(queue, item) ELSE queue

Current(s) == conns[tuis[s].conn]

\* Writing on a socket whose peer is gone loses the frame.
WriteUp(c, frame) ==
  [conns EXCEPT ![c].up = IF conns[c].server = "closed" THEN @ ELSE Append(@, frame)]

CanWrite(s) ==
  /\ tuis[s].phase = "connected"
  /\ Len(Current(s).up) < WireBound

-----------------------------------------------------------------------------
\* The TUI's loop.

\* publish_session_snapshot: the review changed since the last publication.
PublishSnapshot(s) ==
  /\ tuis[s].alive
  /\ tuis[s].version < MaxVersion
  /\ tuis' = [tuis EXCEPT ![s] =
        [tuis[s] EXCEPT !.version = @ + 1,
                        !.outbound = TrySend(@, [type |-> "Publish"], OutCap),
                        !.lost = Len(tuis[s].outbound) >= OutCap]]
  /\ UNCHANGED <<daemon, conns, callers>>

\* Mutant: respond() sends the snapshot without storing it.
RespondedVersion(s, v) == tuis[s].version

\* respond() stores the snapshot it sends.
StoredVersion(s, v) == v

\* apply_session_requests: the command is applied, which may change the review,
\* and answered with the snapshot that results.
ApplySessionRequest(s, v) ==
  LET request == Head(tuis[s].requests)
      response == [type |-> "Response", id |-> request.id, boot |-> request.boot, v |-> v]
  IN /\ tuis[s].alive
     /\ tuis[s].requests # <<>>
     /\ v \in {tuis[s].version, tuis[s].version + 1} \cap Versions
     /\ tuis' = [tuis EXCEPT ![s] =
           [tuis[s] EXCEPT !.version = StoredVersion(s, v),
                           !.requests = Tail(@),
                           !.outbound = TrySend(@, response, OutCap),
                           !.lost = Len(tuis[s].outbound) >= OutCap]]
     /\ UNCHANGED <<daemon, conns, callers>>

\* The client is dropped: stop is set and a Publish wakes the thread.
QuitTui(s) ==
  /\ tuis[s].alive
  /\ tuis' = [tuis EXCEPT ![s] =
        [tuis[s] EXCEPT !.alive = FALSE, !.outbound = TrySend(@, [type |-> "Publish"], OutCap)]]
  /\ UNCHANGED <<daemon, conns, callers>>

\* The process is killed: its sockets are closed for it.
KillTui(s) ==
  /\ tuis[s].phase # "exited"
  /\ tuis' = [tuis EXCEPT ![s] = [tuis[s] EXCEPT !.alive = FALSE, !.phase = "exited"]]
  /\ conns' = IF tuis[s].conn # None THEN [conns EXCEPT ![tuis[s].conn].client = FALSE] ELSE conns
  /\ UNCHANGED <<daemon, callers>>

-----------------------------------------------------------------------------
\* The registration thread: run_connection and the loop around it.

\* connect, then the Register frame with the published state.
Connect(s, c) ==
  /\ tuis[s].alive /\ tuis[s].phase = "disconnected"
  /\ up
  /\ conns[c] = None /\ \A b \in Conns : b < c => conns[b] # None
  /\ conns' = [conns EXCEPT ![c] =
        [sid |-> s, generation |-> 0, client |-> TRUE, server |-> "new",
         up |-> <<[type |-> "Register", v |-> tuis[s].version]>>, down |-> <<>>]]
  /\ tuis' = [tuis EXCEPT ![s] = [tuis[s] EXCEPT !.phase = "registering", !.conn = c]]
  /\ UNCHANGED <<daemon, callers>>

\* run_connection returns with an error: the socket is closed, the loop backs
\* off and connects again.
Disconnected(s) ==
  /\ tuis' = [tuis EXCEPT ![s] = [tuis[s] EXCEPT !.phase = "disconnected", !.conn = None]]
  /\ conns' = [conns EXCEPT ![tuis[s].conn].client = FALSE]

ReadAck(s) ==
  /\ tuis[s].phase = "registering"
  /\ Current(s).server \in {"open", "closed"} /\ Current(s).down # <<>>
  /\ tuis' = [tuis EXCEPT ![s].phase = "connected"]
  /\ conns' = [conns EXCEPT ![tuis[s].conn].down = Tail(@)]
  /\ UNCHANGED <<daemon, callers>>

\* The acknowledgement does not come within the read timeout of one second.
AckTimesOut(s) ==
  /\ tuis[s].phase = "registering" /\ Current(s).down = <<>>
  /\ Disconnected(s)
  /\ UNCHANGED <<daemon, callers>>

\* End of file, or an error of a read or a write.
ConnectionLost(s) ==
  /\ tuis[s].phase \in {"registering", "connected"}
  /\ Current(s).server = "closed" /\ Current(s).down = <<>>
  /\ Disconnected(s)
  /\ UNCHANGED <<daemon, callers>>

\* One item of the outbound channel: Publish sends the state of this moment.
WriteOutbound(s) ==
  LET item == Head(tuis[s].outbound)
      frame == IF item.type = "Publish"
                 THEN [type |-> "Snapshot", v |-> tuis[s].version]
                 ELSE [type |-> "Result", id |-> item.id, boot |-> item.boot, v |-> item.v]
  IN /\ CanWrite(s)
     /\ tuis[s].alive
     /\ tuis[s].outbound # <<>>
     /\ tuis' = [tuis EXCEPT ![s].outbound = Tail(@)]
     /\ conns' = WriteUp(tuis[s].conn, frame)
     /\ UNCHANGED <<daemon, callers>>

\* Every half second.
WritePing(s) ==
  /\ CanWrite(s)
  /\ conns' = WriteUp(tuis[s].conn, [type |-> "Ping"])
  /\ UNCHANGED <<daemon, tuis, callers>>

\* A command is queued for the TUI, or refused at once when that queue is full.
ReadFrame(s) ==
  LET c == tuis[s].conn
      frame == Head(Current(s).down)
      popped == [conns EXCEPT ![c].down = Tail(@)]
      refusal == [type |-> "Result", id |-> frame.id, boot |-> frame.boot, v |-> tuis[s].version]
  IN /\ CanWrite(s)
     /\ Current(s).down # <<>>
     /\ \/ /\ frame.type # "Command"
           /\ conns' = popped
           /\ UNCHANGED tuis
        \/ /\ frame.type = "Command" /\ Len(tuis[s].requests) < RequestCap
           /\ tuis' = [tuis EXCEPT ![s].requests = Append(@, frame)]
           /\ conns' = popped
        \/ /\ frame.type = "Command" /\ Len(tuis[s].requests) >= RequestCap
           /\ conns' = IF Current(s).server = "closed" THEN popped
                         ELSE [popped EXCEPT ![c].up = Append(@, refusal)]
           /\ UNCHANGED tuis
     /\ UNCHANGED <<daemon, callers>>

\* The thread sees stop: Unregister on an open connection, and the end.
StopThread(s) ==
  /\ ~tuis[s].alive
  /\ \/ /\ tuis[s].phase = "disconnected"
        /\ UNCHANGED conns
     \/ /\ CanWrite(s)
        /\ conns' = [WriteUp(tuis[s].conn, [type |-> "Unregister"]) EXCEPT
                       ![tuis[s].conn].client = FALSE]
  /\ tuis' = [tuis EXCEPT ![s].phase = "exited"]
  /\ UNCHANGED <<daemon, callers>>

-----------------------------------------------------------------------------
\* The daemon's connection threads: serve_wire_connection.

Closed(c) == [conns EXCEPT ![c].server = "closed", ![c].up = <<>>]

\* The first frame: register_with_route replaces any earlier registration of
\* the session, with its pending requests.
ServeRegister(c) ==
  /\ conns[c] # None /\ conns[c].server = "new"
  /\ generation' = generation + 1
  /\ registry' = [registry EXCEPT ![conns[c].sid] =
        [generation |-> generation + 1, conn |-> c, snapshot |-> Head(conns[c].up).v,
         pending |-> {}, stale |-> FALSE]]
  /\ conns' = [conns EXCEPT ![c] =
        [conns[c] EXCEPT !.server = "registered", !.up = Tail(@), !.generation = generation + 1]]
  /\ tuis' = [tuis EXCEPT ![conns[c].sid].pruned = FALSE]
  /\ UNCHANGED <<up, boot, requestId, callers>>

\* The acknowledgement precedes whatever the route already holds.
ServeAck(c) ==
  /\ conns[c] # None /\ conns[c].server = "registered"
  /\ conns' = [conns EXCEPT ![c] =
        [conns[c] EXCEPT !.server = "open", !.down = <<[type |-> "Registered"]>> \o @]]
  /\ UNCHANGED <<daemon, tuis, callers>>

\* The acknowledgement cannot be written: the registration is withdrawn.
ServeAckFails(c) ==
  /\ conns[c] # None /\ conns[c].server = "registered" /\ ~conns[c].client
  /\ registry' = UnregisterGeneration(c)
  /\ conns' = [Closed(c) EXCEPT ![c].down = <<>>]
  /\ UNCHANGED <<up, boot, generation, requestId, tuis, callers>>

\* The acknowledged stream cannot be cloned for its writer thread: the thread
\* returns and its registration stays.
ServeCloneFails(c) ==
  /\ conns[c] # None /\ conns[c].server = "registered"
  /\ conns' = [Closed(c) EXCEPT ![c].down = <<[type |-> "Registered"]>>]
  /\ UNCHANGED <<daemon, tuis, callers>>

\* Mutant: the answer goes to every caller that waits for the session.
AnyPending(s, frame) == registry[s].pending

\* pending_responses[request_id]
PendingFor(s, frame) == {k \in registry[s].pending : callers[k].id = frame.id}

\* complete_command: the snapshot is taken over even when nobody waits.
CompleteCommand(c, frame) ==
  LET s == conns[c].sid
      waiting == PendingFor(s, frame)
  IN IF OwnsEntry(c)
       THEN /\ registry' = [registry EXCEPT ![s] =
                 [registry[s] EXCEPT !.snapshot = frame.v, !.stale = FALSE, !.pending = @ \ waiting]]
            /\ callers' = [k \in Callers |->
                 IF k \in waiting
                   THEN [callers[k] EXCEPT !.reply = [id |-> frame.id, boot |-> frame.boot]]
                   ELSE callers[k]]
       ELSE UNCHANGED <<registry, callers>>

\* The end of the read loop: unregister, and the route's sender is dropped.
ServeEnds(c) ==
  /\ registry' = UnregisterGeneration(c)
  /\ conns' = Closed(c)
  /\ UNCHANGED callers

\* One frame of the TUI.
ServeFrame(c) ==
  LET frame == Head(conns[c].up)
      popped == [conns EXCEPT ![c].up = Tail(@)]
  IN /\ conns[c] # None /\ conns[c].server = "open"
     /\ conns[c].up # <<>>
     /\ \/ /\ frame.type = "Snapshot"
           /\ registry' = UpdateSnapshot(c, frame.v)
           /\ conns' = popped
           /\ UNCHANGED callers
        \/ /\ frame.type = "Result"
           /\ CompleteCommand(c, frame)
           /\ conns' = popped
        \/ /\ frame.type = "Ping" /\ Len(conns[c].down) < RouteCap
           /\ conns' = [popped EXCEPT ![c].down = Append(@, [type |-> "Pong"])]
           /\ UNCHANGED <<registry, callers>>
        \/ /\ frame.type = "Ping" /\ Len(conns[c].down) >= RouteCap
           /\ ServeEnds(c)
        \/ /\ frame.type = "Unregister"
           /\ ServeEnds(c)
     /\ UNCHANGED <<up, boot, generation, requestId, tuis>>

\* End of file once everything the TUI sent is read.
ServeEof(c) ==
  /\ conns[c] # None /\ conns[c].server = "open"
  /\ conns[c].up = <<>> /\ ~conns[c].client
  /\ ServeEnds(c)
  /\ UNCHANGED <<up, boot, generation, requestId, tuis>>

-----------------------------------------------------------------------------
\* The daemon's accept loop.

\* stale_session_ttl passes without an update of the entry.
TtlPasses(s) ==
  /\ Registered(s) /\ ~registry[s].stale
  /\ registry' = [registry EXCEPT ![s].stale = TRUE]
  /\ UNCHANGED <<up, boot, generation, requestId, conns, tuis, callers>>

\* Mutant: nothing is ever pruned.
NeverStale == {}

Stale == {s \in Sessions : Registered(s) /\ registry[s].stale}

\* prune_stale
PruneStale ==
  /\ up
  /\ Stale # {}
  /\ registry' = [s \in Sessions |-> IF s \in Stale THEN None ELSE registry[s]]
  /\ tuis' = [s \in Sessions |-> [tuis[s] EXCEPT !.pruned = @ \/ s \in Stale]]
  /\ UNCHANGED <<up, boot, generation, requestId, conns, callers>>

\* The process ends: a shutdown request, 60 idle seconds or a kill. What was
\* written on a socket may still arrive; its threads are gone.
DaemonExits ==
  /\ up
  /\ boot < MaxBoots
  /\ up' = FALSE
  /\ registry' = [s \in Sessions |-> None]
  /\ \E kept \in [Conns -> 0..(RouteCap + 1)] :
       conns' = [c \in Conns |->
          IF conns[c] = None THEN None
          ELSE IF conns[c].server = "closed" THEN [conns[c] EXCEPT !.generation = 0]
          ELSE [Closed(c)[c] EXCEPT !.generation = 0, !.down =
                  IF conns[c].server = "open" /\ kept[c] < Len(@) THEN SubSeq(@, 1, kept[c])
                  ELSE IF conns[c].server = "open" THEN @ ELSE <<>>]]
  /\ callers' = [k \in Callers |-> IdleCaller]
  /\ UNCHANGED <<boot, generation, requestId, tuis>>

\* A new process starts on demand, with an empty registry and its counters at 0.
DaemonStarts ==
  /\ ~up
  /\ up' = TRUE /\ boot' = boot + 1
  /\ generation' = 0 /\ requestId' = 0
  /\ UNCHANGED <<registry, conns, tuis, callers>>

-----------------------------------------------------------------------------
\* dispatch_session_command, run by an HTTP thread.

\* Under the lock: a fresh request id, the pending entry and try_send on the
\* route, all undone when the route is full or its thread is gone.
Dispatch(k, s) ==
  LET c == registry[s].conn
      command == [type |-> "Command", id |-> requestId + 1, boot |-> boot]
  IN /\ callers[k].pc \in {"idle", "done"}
     /\ up /\ Registered(s)
     /\ requestId < MaxRequests
     /\ requestId' = requestId + 1
     /\ IF conns[c].server # "closed" /\ Len(conns[c].down) < RouteCap
          THEN /\ registry' = [registry EXCEPT ![s].pending = @ \cup {k}]
               /\ conns' = [conns EXCEPT ![c].down = Append(@, command)]
               /\ callers' = [callers EXCEPT ![k] =
                     [pc |-> "waiting", sid |-> s, generation |-> registry[s].generation,
                      id |-> requestId + 1, boot |-> boot, reply |-> None]]
          ELSE /\ callers' = [callers EXCEPT ![k] = IdleCaller]
               /\ UNCHANGED <<registry, conns>>
     /\ UNCHANGED <<up, boot, generation, tuis>>

\* recv_timeout returns the answer.
ReceiveAnswer(k) ==
  /\ callers[k].pc = "waiting" /\ callers[k].reply # None
  /\ callers' = [callers EXCEPT ![k].pc = "done"]
  /\ UNCHANGED <<daemon, conns, tuis>>

\* recv_timeout fails: five seconds passed, or the pending sender was dropped
\* with its registration.
ReceiveTimesOut(k) ==
  /\ callers[k].pc = "waiting" /\ callers[k].reply = None
  /\ callers' = [callers EXCEPT ![k].pc = "cleanup"]
  /\ UNCHANGED <<daemon, conns, tuis>>

\* The pending request is withdrawn if the registration is still the same one.
WithdrawPending(k) ==
  LET s == callers[k].sid IN
  IF Registered(s) /\ registry[s].generation = callers[k].generation
    THEN [registry EXCEPT ![s].pending = @ \ {k}]
    ELSE registry

Cleanup(k) ==
  /\ callers[k].pc = "cleanup"
  /\ registry' = WithdrawPending(k)
  /\ callers' = [callers EXCEPT ![k] = IdleCaller]
  /\ UNCHANGED <<up, boot, generation, requestId, conns, tuis>>

-----------------------------------------------------------------------------
Tui(s) ==
  \/ PublishSnapshot(s)
  \/ \E v \in Versions : ApplySessionRequest(s, v)
  \/ QuitTui(s)
  \/ KillTui(s)

RegistrationThread(s) ==
  \/ \E c \in Conns : Connect(s, c)
  \/ ReadAck(s)
  \/ AckTimesOut(s)
  \/ ConnectionLost(s)
  \/ WriteOutbound(s)
  \/ WritePing(s)
  \/ ReadFrame(s)
  \/ StopThread(s)

ConnectionThread(c) ==
  \/ ServeRegister(c)
  \/ ServeAck(c)
  \/ ServeAckFails(c)
  \/ ServeCloneFails(c)
  \/ ServeFrame(c)
  \/ ServeEof(c)

AcceptLoop ==
  \/ \E s \in Sessions : TtlPasses(s)
  \/ PruneStale
  \/ DaemonExits
  \/ DaemonStarts

Caller(k) ==
  \/ \E s \in Sessions : Dispatch(k, s)
  \/ ReceiveAnswer(k)
  \/ ReceiveTimesOut(k)
  \/ Cleanup(k)

Next ==
  \/ \E s \in Sessions : Tui(s) \/ RegistrationThread(s)
  \/ \E c \in Conns : ConnectionThread(c)
  \/ AcceptLoop
  \/ \E k \in Callers : Caller(k)

\* Threads that can run do run; time passes and the accept loop prunes. Nobody
\* has to publish, quit, ping or send a command.
Fairness ==
  /\ \A s \in Sessions :
       /\ WF_vars(ReadAck(s) \/ ConnectionLost(s) \/ StopThread(s))
       /\ WF_vars(WriteOutbound(s))
       /\ WF_vars(ReadFrame(s))
       /\ WF_vars(TtlPasses(s))
  /\ \A c \in Conns : WF_vars(ConnectionThread(c))
  /\ WF_vars(PruneStale)
  /\ \A k \in Callers : WF_vars(ReceiveAnswer(k) \/ ReceiveTimesOut(k) \/ Cleanup(k))

Spec == Init /\ [][Next]_vars /\ Fairness

-----------------------------------------------------------------------------
\* Properties.

\* No pending request is left behind: the callers pending in a registration
\* are threads that still wait for, or still withdraw, that very request.
PendingHasWaiter ==
  \A s \in Sessions : Registered(s) =>
    \A k \in registry[s].pending :
      /\ callers[k].pc \in {"waiting", "cleanup"}
      /\ callers[k].sid = s
      /\ callers[k].generation = registry[s].generation
      /\ callers[k].reply = None

\* "Request ids bind command results": what a caller receives answers the
\* command it sent, and no pending request is left behind, whatever
\* reconnections, timeouts and late answers occur.
AnswerIsOwn ==
  /\ \A k \in Callers : callers[k].reply # None =>
       callers[k].reply.id = callers[k].id /\ callers[k].reply.boot = callers[k].boot
  /\ PendingHasWaiter

Linked(s) == tuis[s].phase = "connected" /\ Current(s).server = "open"

\* No Register frame of an earlier connection was served after the current one.
LastToRegister(s) ==
  \A c \in Conns \ {tuis[s].conn} :
    conns[c] # None /\ conns[c].sid = s => conns[c].generation < Current(s).generation

\* The registry routes commands to the connection that registered last:
\* threads of earlier connections that end later, or fail half way, never take
\* the newer registration down; only pruning does.
ConnectedIsListed ==
  \A s \in Sessions : Linked(s) /\ LastToRegister(s) /\ ~tuis[s].pruned =>
    Registered(s) /\ registry[s].conn = tuis[s].conn

\* "The TUI remains authoritative for review state": once a listed TUI has
\* nothing left to send, the broker shows its latest state, unless the last
\* publication found the outbound channel full. Late frames of an earlier
\* connection do not bring an older state back.
QuietSnapshotIsCurrent ==
  \A s \in Sessions :
    /\ Linked(s)
    /\ Registered(s) /\ registry[s].conn = tuis[s].conn
    /\ tuis[s].outbound = <<>> /\ Current(s).up = <<>>
    /\ ~tuis[s].lost
    => registry[s].snapshot = tuis[s].version

\* A TUI that exits or is killed leaves the registry.
ExitedIsUnlisted == \A s \in Sessions : tuis[s].phase = "exited" ~> ~Registered(s)

=============================================================================
