-------------------------- MODULE SessionBrokerProofs --------------------------
(***************************************************************************)
(* The session broker, for every number of sessions, callers, connections  *)
(* and queue lengths: what a caller receives answers its own command, the  *)
(* registry lists the connection that registered last, and a quiet TUI is  *)
(* shown as it is.                                                         *)
(***************************************************************************)
EXTENDS SessionBroker, TLAPS

\* A thread of the daemon serves the connection.
Served(c) == conns[c] # None /\ conns[c].server \in {"registered", "open"}

\* Before its first frame is served a connection holds that frame alone.
FirstFrame ==
  \A c \in Conns : conns[c] # None /\ conns[c].server = "new" =>
    \E v \in Versions : conns[c].up = <<[type |-> "Register", v |-> v]>>

\* A TUI's connection is a connection of its session, acknowledged when the
\* TUI is connected.
OwnConnection ==
  \A s \in Sessions :
    /\ tuis[s].conn # None => conns[tuis[s].conn] # None /\ conns[tuis[s].conn].sid = s
    /\ tuis[s].phase \in {"registering", "connected"} => tuis[s].conn # None
    /\ tuis[s].phase = "connected" => conns[tuis[s].conn].server \in {"open", "closed"}

\* A caller that waits knows its session.
CallerKnows ==
  \A k \in Callers : callers[k].pc \in {"waiting", "cleanup"} => callers[k].sid \in Sessions

\* A registration is the one of its connection.
EntryOfConnection ==
  \A s \in Sessions : Registered(s) =>
    LET c == registry[s].conn
    IN  /\ conns[c] # None /\ conns[c].sid = s
        /\ conns[c].generation = registry[s].generation /\ registry[s].generation > 0

\* Generations are given once by a daemon process, and it forgets all of them.
Generations ==
  /\ \A c \in Conns : conns[c] # None =>
       /\ conns[c].generation <= generation
       /\ conns[c].server = "new" => conns[c].generation = 0
       /\ conns[c].server \in {"registered", "open"} => conns[c].generation > 0
  /\ \A c, d \in Conns : conns[c] # None /\ conns[d] # None /\ conns[c].generation = conns[d].generation
                           => c = d \/ conns[c].generation = 0
  /\ ~up => /\ \A s \in Sessions : ~Registered(s)
            /\ \A c \in Conns : conns[c] # None => conns[c].generation = 0 /\ conns[c].server = "closed"

\* No other connection of the session has registered since.
Newest(c) ==
  \A d \in Conns \ {c} : conns[d] # None /\ conns[d].sid = conns[c].sid => conns[d].generation < conns[c].generation

\* The newest connection that is served is registered, unless it was pruned.
NewestIsListed ==
  \A c \in Conns : Served(c) /\ Newest(c) /\ ~tuis[conns[c].sid].pruned =>
    Registered(conns[c].sid) /\ registry[conns[c].sid].conn = c

\* What the TUI published last is still to be written, unless it was lost.
PublishedLast ==
  \A s \in Sessions : ~tuis[s].lost /\ tuis[s].outbound # <<>> =>
    LET last == tuis[s].outbound[Len(tuis[s].outbound)]
    IN  last.type = "Publish" \/ last.v = tuis[s].version

CarriesState(frame) == frame.type \in {"Register", "Snapshot", "Result"}

\* The last state on its way to the daemon is v.
LastSent(frames, v) ==
  \E n \in 1..Len(frames) :
    /\ CarriesState(frames[n]) /\ frames[n].v = v
    /\ \A m \in (n+1)..Len(frames) : ~CarriesState(frames[m])

NoneSent(frames) == \A n \in 1..Len(frames) : ~CarriesState(frames[n])

\* When nothing is left to write, the TUI's version is on its way or arrived.
Arrives ==
  \A s \in Sessions :
    tuis[s].phase \in {"registering", "connected"} /\ ~tuis[s].lost /\ tuis[s].outbound = <<>>
      /\ Current(s).server # "closed" =>
      \/ LastSent(Current(s).up, tuis[s].version)
      \/ /\ NoneSent(Current(s).up)
         /\ Registered(s) /\ registry[s].conn = tuis[s].conn => registry[s].snapshot = tuis[s].version

\* A daemon that has stopped may start again.
MayStart == ~up => boot < MaxBoots

BrokerTypes == TypeOK /\ FirstFrame /\ OwnConnection /\ CallerKnows /\ MayStart
BrokerInv ==
  /\ BrokerTypes
  /\ EntryOfConnection
  /\ Generations
  /\ NewestIsListed
  /\ PublishedLast
  /\ Arrives
  /\ PendingHasWaiter

\* A channel holds what is sent on it, up to its capacity.
LEMMA TrySendType ==
  ASSUME NEW S, NEW q \in Seq(S), NEW item \in S, NEW cap \in Nat, Len(q) <= cap
  PROVE  TrySend(q, item, cap) \in Seq(S) /\ Len(TrySend(q, item, cap)) <= cap
BY DEF TrySend

\* The bounds are positive numbers.
LEMMA Bounds ==
  /\ MaxConns \in Nat /\ MaxRequests \in Nat /\ MaxVersion \in Nat /\ MaxBoots \in Nat
  /\ MaxConns > 0 /\ MaxRequests > 0 /\ MaxVersion > 0 /\ MaxBoots > 0
  /\ RouteCap \in Nat /\ OutCap \in Nat /\ RequestCap \in Nat /\ WireBound \in Nat
  /\ OutCap > 0 /\ RequestCap > 0 /\ RouteCap > 0
BY BrokerAssumption

\* The initial state.
LEMMA BrokerInitInv == Init => BrokerInv
<1> SUFFICES ASSUME Init PROVE BrokerInv
  OBVIOUS
<1> USE BrokerAssumption, Bounds
<1>1. TypeOK
  <2>1. tuis \in [Sessions -> Tuis] /\ \A s \in Sessions : tuis[s].outbound = <<>> /\ tuis[s].requests = <<>>
    BY DEF Init, Tuis, Versions
  <2>2. callers \in [Callers -> CallerStates]
    BY DEF Init, CallerStates, IdleCaller
  <2>3. up \in BOOLEAN /\ boot \in Boots /\ generation \in Nat /\ requestId \in 0..MaxRequests
    BY DEF Init, Boots
  <2>4. registry \in [Sessions -> Entries \cup {None}] /\ conns \in [Conns -> Connections \cup {None}]
    BY DEF Init
  <2> QED BY <2>1, <2>2, <2>3, <2>4 DEF TypeOK
<1>2. up /\ (\A c \in Conns : conns[c] = None) /\ (\A s \in Sessions : registry[s] = None)
  BY DEF Init
<1>3. \A s \in Sessions : tuis[s].conn = None /\ tuis[s].phase = "disconnected" /\ tuis[s].outbound = <<>>
  BY DEF Init
<1>4. \A k \in Callers : callers[k].pc = "idle"
  BY DEF Init, IdleCaller
<1>5. BrokerTypes
  BY <1>1, <1>2, <1>3, <1>4 DEF BrokerTypes, FirstFrame, OwnConnection, CallerKnows, MayStart
<1>6. EntryOfConnection /\ Generations /\ NewestIsListed /\ PendingHasWaiter
  BY <1>2 DEF EntryOfConnection, Generations, NewestIsListed, PendingHasWaiter, Registered, Served
<1>7. PublishedLast /\ Arrives
  BY <1>3 DEF PublishedLast, Arrives
<1> QED BY <1>5, <1>6, <1>7 DEF BrokerInv

\* What the pieces of TypeOK say.
LEMMA TuiTypes ==
  ASSUME BrokerTypes, NEW s \in Sessions
  PROVE  /\ tuis[s].alive \in BOOLEAN /\ tuis[s].lost \in BOOLEAN /\ tuis[s].pruned \in BOOLEAN
         /\ tuis[s].phase \in {"disconnected", "registering", "connected", "exited"}
         /\ tuis[s].conn \in Conns \cup {None} /\ tuis[s].version \in Versions
         /\ tuis[s].outbound \in Seq(Outbounds) /\ tuis[s].requests \in Seq(Commands)
         /\ Len(tuis[s].outbound) <= OutCap /\ Len(tuis[s].requests) <= RequestCap
         /\ tuis[s] \in Tuis /\ tuis \in [Sessions -> Tuis]
         /\ tuis[s].conn # None => conns[tuis[s].conn] # None /\ conns[tuis[s].conn].sid = s
         /\ tuis[s].phase \in {"registering", "connected"} => tuis[s].conn # None
         /\ tuis[s].phase = "connected" => conns[tuis[s].conn].server \in {"open", "closed"}
BY DEF BrokerTypes, TypeOK, Tuis, OwnConnection

\* The parts of a connection have their types.
LEMMA ConnTypes ==
  ASSUME BrokerTypes, NEW c \in Conns, conns[c] # None
  PROVE  /\ conns \in [Conns -> Connections \cup {None}] /\ conns[c] \in Connections
         /\ conns[c].sid \in Sessions /\ conns[c].generation \in Nat /\ conns[c].client \in BOOLEAN
         /\ conns[c].server \in {"new", "registered", "open", "closed"}
         /\ conns[c].up \in Seq(ClientFrames) /\ conns[c].down \in Seq(ServerFrames)
<1>1. conns \in [Conns -> Connections \cup {None}] /\ conns[c] \in Connections
  BY DEF BrokerTypes, TypeOK
<1> QED BY <1>1 DEF Connections

\* A registering or connected TUI has a connection of its own.
LEMMA CurrentTypes ==
  ASSUME BrokerTypes, NEW s \in Sessions, tuis[s].phase \in {"registering", "connected"}
  PROVE  tuis[s].conn \in Conns /\ conns[tuis[s].conn] # None /\ conns[tuis[s].conn].sid = s
BY TuiTypes

\* The ways a step updates a TUI leave a TUI.
Phases == {"disconnected", "registering", "connected", "exited"}
TuiFits(t) == t \in Tuis /\ Len(t.outbound) <= OutCap /\ Len(t.requests) <= RequestCap

\* A TUI fits its bounds after it publishes a snapshot,
LEMMA TuiPublishes ==
  ASSUME NEW u, TuiFits(u), NEW v \in Versions, NEW l \in BOOLEAN, NEW o \in Seq(Outbounds), Len(o) <= OutCap
  PROVE  TuiFits([u EXCEPT !.version = v, !.outbound = o, !.lost = l])
BY DEF Tuis, Phases, TuiFits

\* after it answers a command,
LEMMA TuiAnswers ==
  ASSUME NEW u, TuiFits(u), NEW v \in Versions, NEW l \in BOOLEAN, NEW o \in Seq(Outbounds), Len(o) <= OutCap,
         NEW q \in Seq(Commands), Len(q) <= RequestCap
  PROVE  TuiFits([u EXCEPT !.version = v, !.requests = q, !.outbound = o, !.lost = l])
BY DEF Tuis, Phases, TuiFits

\* when it quits,
LEMMA TuiQuits ==
  ASSUME NEW u, TuiFits(u), NEW o \in Seq(Outbounds), Len(o) <= OutCap
  PROVE  TuiFits([u EXCEPT !.alive = FALSE, !.outbound = o])
BY DEF Tuis, Phases, TuiFits

\* when it dies,
LEMMA TuiDies ==
  ASSUME NEW u, TuiFits(u)
  PROVE  TuiFits([u EXCEPT !.alive = FALSE, !.phase = "exited"])
BY DEF Tuis, Phases, TuiFits

\* when its registration thread moves on,
LEMMA TuiMoves ==
  ASSUME NEW u, TuiFits(u), NEW p \in Phases
  PROVE  TuiFits([u EXCEPT !.phase = p])
BY DEF Tuis, Phases, TuiFits

\* when it connects,
LEMMA TuiConnects ==
  ASSUME NEW u, TuiFits(u), NEW p \in Phases, NEW c \in Conns \cup {None}
  PROVE  TuiFits([u EXCEPT !.phase = p, !.conn = c])
BY DEF Tuis, Phases, TuiFits

\* when it writes what it had queued,
LEMMA TuiWrites ==
  ASSUME NEW u, TuiFits(u), NEW o \in Seq(Outbounds), Len(o) <= OutCap
  PROVE  TuiFits([u EXCEPT !.outbound = o])
BY DEF Tuis, Phases, TuiFits

\* when it reads a command,
LEMMA TuiReads ==
  ASSUME NEW u, TuiFits(u), NEW q \in Seq(Commands), Len(q) <= RequestCap
  PROVE  TuiFits([u EXCEPT !.requests = q])
BY DEF Tuis, Phases, TuiFits

\* and when its entry is pruned.
LEMMA TuiIsPruned ==
  ASSUME NEW u, TuiFits(u), NEW r \in BOOLEAN
  PROVE  TuiFits([u EXCEPT !.pruned = r])
BY DEF Tuis, Phases, TuiFits

\* The steps that change a TUI.
TuiActions ==
  \/ tuis' = tuis \/ PruneStale
  \/ \E c \in Conns : ServeRegister(c)
  \/ \E s \in Sessions :
       \/ PublishSnapshot(s) \/ QuitTui(s) \/ KillTui(s) \/ ReadAck(s) \/ Disconnected(s)
       \/ WriteOutbound(s) \/ ReadFrame(s) \/ StopThread(s)
       \/ (\E v \in Versions : ApplySessionRequest(s, v)) \/ (\E c \in Conns : Connect(s, c))

\* Every step is one of these to the TUIs.
LEMMA TuiActing == [Next]_vars => TuiActions
BY DEF TuiActions, Next, vars, Tui, RegistrationThread, ConnectionThread, AcceptLoop, Caller, AckTimesOut,
       ConnectionLost, WritePing, ServeAck, ServeAckFails, ServeCloneFails, ServeFrame, ServeEof, TtlPasses,
       DaemonExits, DaemonStarts, Dispatch, ReceiveAnswer, ReceiveTimesOut, Cleanup

\* The types of the TUIs are kept by every step.
LEMMA TuisKept ==
  ASSUME BrokerTypes, [Next]_vars
  PROVE  tuis' \in [Sessions -> Tuis] /\ \A s \in Sessions : TuiFits(tuis'[s])
<1>1. tuis \in [Sessions -> Tuis] /\ \A s \in Sessions : TuiFits(tuis[s])
  BY DEF BrokerTypes, TypeOK, TuiFits
<1>2. [type |-> "Publish"] \in Outbounds /\ OutCap \in Nat /\ RequestCap \in Nat
  BY Bounds DEF Outbounds
<1>3. ASSUME NEW s \in Sessions, NEW t, TuiFits(t), tuis' = [tuis EXCEPT ![s] = t]
      PROVE  tuis' \in [Sessions -> Tuis] /\ \A x \in Sessions : TuiFits(tuis'[x])
  BY <1>1, <1>3 DEF TuiFits
<1>4. ASSUME NEW s \in Sessions, PublishSnapshot(s)
      PROVE  \E t : TuiFits(t) /\ tuis' = [tuis EXCEPT ![s] = t]
  <2> DEFINE o == TrySend(tuis[s].outbound, [type |-> "Publish"], OutCap)
             l == Len(tuis[s].outbound) >= OutCap
             v == tuis[s].version + 1
             t == [tuis[s] EXCEPT !.version = v, !.outbound = o, !.lost = l]
  <2>1. o \in Seq(Outbounds) /\ Len(o) <= OutCap
    BY <1>2, TuiTypes, TrySendType
  <2>2. tuis[s].version \in Versions /\ tuis[s].version < MaxVersion
    BY <1>4, TuiTypes DEF PublishSnapshot
  <2>3. v \in Versions /\ l \in BOOLEAN
    BY <2>2, Bounds DEF Versions
  <2>4. tuis' = [tuis EXCEPT ![s] = t]
    BY <1>4 DEF PublishSnapshot
  <2> HIDE DEF o, l, v
  <2>5. TuiFits(t)
    BY <1>1, <2>1, <2>3, TuiPublishes DEF TuiFits
  <2> QED BY <2>4, <2>5
<1>5. ASSUME NEW s \in Sessions, NEW v \in Versions, ApplySessionRequest(s, v)
      PROVE  \E t : TuiFits(t) /\ tuis' = [tuis EXCEPT ![s] = t]
  <2> DEFINE r == [type |-> "Response", id |-> Head(tuis[s].requests).id, boot |-> Head(tuis[s].requests).boot, v |-> v]
             o == TrySend(tuis[s].outbound, r, OutCap)
             l == Len(tuis[s].outbound) >= OutCap
             q == Tail(tuis[s].requests)
             t == [tuis[s] EXCEPT !.version = v, !.requests = q, !.outbound = o, !.lost = l]
  <2>1. tuis[s].requests # <<>> /\ tuis[s].requests \in Seq(Commands) /\ Len(tuis[s].requests) <= RequestCap
    BY <1>5, TuiTypes DEF ApplySessionRequest
  <2>2. Head(tuis[s].requests) \in Commands /\ q \in Seq(Commands) /\ Len(q) <= RequestCap
    BY <1>2, <2>1
  <2>3. r \in Outbounds
    BY <2>2 DEF Outbounds, Commands
  <2>4. tuis' = [tuis EXCEPT ![s] = t]
    BY <1>5 DEF ApplySessionRequest, StoredVersion
  <2> HIDE DEF r
  <2>5. o \in Seq(Outbounds) /\ Len(o) <= OutCap /\ l \in BOOLEAN
    BY <1>2, <2>3, TuiTypes, TrySendType
  <2> HIDE DEF o, l, q
  <2>6. TuiFits(t)
    BY <1>1, <2>2, <2>5, TuiAnswers DEF TuiFits
  <2> QED BY <2>4, <2>6
<1>6. ASSUME NEW s \in Sessions, QuitTui(s)
      PROVE  \E t : TuiFits(t) /\ tuis' = [tuis EXCEPT ![s] = t]
  <2> DEFINE o == TrySend(tuis[s].outbound, [type |-> "Publish"], OutCap)
             t == [tuis[s] EXCEPT !.alive = FALSE, !.outbound = o]
  <2>1. o \in Seq(Outbounds) /\ Len(o) <= OutCap
    BY <1>2, TuiTypes, TrySendType
  <2>2. tuis' = [tuis EXCEPT ![s] = t]
    BY <1>6 DEF QuitTui
  <2> HIDE DEF o
  <2>3. TuiFits(t)
    BY <1>1, <2>1, TuiQuits DEF TuiFits
  <2> QED BY <2>2, <2>3
<1>7. ASSUME NEW s \in Sessions, KillTui(s)
      PROVE  \E t : TuiFits(t) /\ tuis' = [tuis EXCEPT ![s] = t]
  BY <1>1, <1>7, TuiDies DEF KillTui, TuiFits
<1>8. ASSUME NEW s \in Sessions, ReadAck(s) \/ StopThread(s)
      PROVE  \E t : TuiFits(t) /\ tuis' = [tuis EXCEPT ![s] = t]
  <2>1. \E p \in Phases : tuis' = [tuis EXCEPT ![s] = [tuis[s] EXCEPT !.phase = p]]
    BY <1>1, <1>8 DEF ReadAck, StopThread, Phases
  <2> QED BY <1>1, <2>1, TuiMoves DEF TuiFits
<1>9. ASSUME NEW s \in Sessions, Disconnected(s) \/ \E c \in Conns : Connect(s, c)
      PROVE  \E t : TuiFits(t) /\ tuis' = [tuis EXCEPT ![s] = t]
  <2>1. \E p \in Phases, c \in Conns \cup {None} : tuis' = [tuis EXCEPT ![s] = [tuis[s] EXCEPT !.phase = p, !.conn = c]]
    BY <1>9 DEF Disconnected, Connect, Phases
  <2> QED BY <1>1, <2>1, TuiConnects DEF TuiFits
<1>10. ASSUME NEW s \in Sessions, WriteOutbound(s)
       PROVE  \E t : TuiFits(t) /\ tuis' = [tuis EXCEPT ![s] = t]
  <2> DEFINE o == Tail(tuis[s].outbound)
  <2>1. tuis' = [tuis EXCEPT ![s] = [tuis[s] EXCEPT !.outbound = o]]
    BY <1>1, <1>10 DEF WriteOutbound
  <2>2. tuis[s].outbound # <<>> /\ tuis[s].outbound \in Seq(Outbounds) /\ Len(tuis[s].outbound) <= OutCap
    BY <1>10, TuiTypes DEF WriteOutbound
  <2>3. o \in Seq(Outbounds) /\ Len(o) <= OutCap
    BY <1>2, <2>2
  <2> HIDE DEF o
  <2> QED BY <1>1, <2>1, <2>3, TuiWrites DEF TuiFits
<1>11. ASSUME NEW s \in Sessions, ReadFrame(s)
       PROVE  tuis' = tuis \/ \E t : TuiFits(t) /\ tuis' = [tuis EXCEPT ![s] = t]
  <2> DEFINE frame == Head(Current(s).down)
             q == Append(tuis[s].requests, frame)
  <2>1. Current(s).down \in Seq(ServerFrames) /\ Current(s).down # <<>>
    BY <1>11, CurrentTypes, ConnTypes DEF ReadFrame, CanWrite, Current
  <2>2. frame \in ServerFrames
    BY <2>1
  <2>3. frame.type = "Command" => frame \in Commands
    <3> HIDE DEF frame
    <3> QED BY <2>2 DEF ServerFrames
  <2>4. \/ tuis' = tuis
        \/ /\ frame.type = "Command" /\ Len(tuis[s].requests) < RequestCap
           /\ tuis' = [tuis EXCEPT ![s] = [tuis[s] EXCEPT !.requests = q]]
    BY <1>11 DEF ReadFrame
  <2>5. frame \in Commands /\ Len(tuis[s].requests) < RequestCap => q \in Seq(Commands) /\ Len(q) <= RequestCap
    <3> HIDE DEF frame
    <3> QED BY <1>2, TuiTypes
  <2> HIDE DEF frame, q
  <2> QED BY <1>1, <2>3, <2>4, <2>5, TuiReads DEF TuiFits
<1>12. ASSUME NEW c \in Conns, ServeRegister(c)
       PROVE  \E s \in Sessions : \E t : TuiFits(t) /\ tuis' = [tuis EXCEPT ![s] = t]
  <2>1. conns[c].sid \in Sessions
        /\ tuis' = [tuis EXCEPT ![conns[c].sid] = [tuis[conns[c].sid] EXCEPT !.pruned = FALSE]]
    BY <1>12, ConnTypes DEF ServeRegister
  <2> QED BY <1>1, <2>1, TuiIsPruned DEF TuiFits
<1>13. ASSUME PruneStale
       PROVE  tuis' \in [Sessions -> Tuis] /\ \A s \in Sessions : TuiFits(tuis'[s])
  <2> DEFINE r(s) == tuis[s].pruned \/ s \in Stale
  <2>1. tuis' = [s \in Sessions |-> [tuis[s] EXCEPT !.pruned = r(s)]]
    BY <1>13 DEF PruneStale
  <2>2. \A s \in Sessions : r(s) \in BOOLEAN
    BY TuiTypes
  <2> HIDE DEF r
  <2>3. \A s \in Sessions : TuiFits([tuis[s] EXCEPT !.pruned = r(s)])
    BY <1>1, <2>2, TuiIsPruned DEF TuiFits
  <2> QED BY <2>1, <2>3 DEF TuiFits
<1>14. TuiActions
  BY TuiActing
<1> QED BY <1>1, <1>3, <1>4, <1>5, <1>6, <1>7, <1>8, <1>9, <1>10, <1>11, <1>12, <1>13, <1>14 DEF TuiActions

-----------------------------------------------------------------------------
\* How a step may change a connection that exists.
ConnUpdate(x, y) ==
  /\ y \in Connections
  /\ y.sid = x.sid /\ y.generation = x.generation
  /\ \/ y.server = x.server
     \/ x.server = "registered" /\ y.server = "open"
     \/ x.server \in {"registered", "open"} /\ y.server = "closed"
  /\ x.server = "new" => y.up = x.up

\* The ways a step updates a connection.
LEMMA ConnClientGone ==
  ASSUME NEW x \in Connections
  PROVE  ConnUpdate(x, [x EXCEPT !.client = FALSE])
BY DEF Connections, ConnUpdate

\* A connection changes as allowed when frames go down,
LEMMA ConnDown ==
  ASSUME NEW x \in Connections, NEW d \in Seq(ServerFrames)
  PROVE  ConnUpdate(x, [x EXCEPT !.down = d])
BY DEF Connections, ConnUpdate

\* when frames go up,
LEMMA ConnUp ==
  ASSUME NEW x \in Connections, NEW u \in Seq(ClientFrames), x.server # "new"
  PROVE  ConnUpdate(x, [x EXCEPT !.up = u])
BY DEF Connections, ConnUpdate

\* when its thread starts to serve it,
LEMMA ConnOpens ==
  ASSUME NEW x \in Connections, NEW d \in Seq(ServerFrames), x.server = "registered"
  PROVE  ConnUpdate(x, [x EXCEPT !.server = "open", !.down = d])
BY DEF Connections, ConnUpdate

\* when it is closed,
LEMMA ConnCloses ==
  ASSUME NEW x \in Connections, NEW e \in Seq(ClientFrames), x.server \in {"registered", "open"}
  PROVE  ConnUpdate(x, [x EXCEPT !.server = "closed", !.up = e])
BY DEF Connections, ConnUpdate

\* and when it changes twice.
LEMMA ConnUpdateTwice ==
  ASSUME NEW x, NEW y, NEW z, ConnUpdate(x, y), ConnUpdate(y, z)
  PROVE  ConnUpdate(x, z)
BY DEF ConnUpdate

\* A step updates one connection.
OneConn(c) == conns[c] # None /\ \E y : ConnUpdate(conns[c], y) /\ conns' = [conns EXCEPT ![c] = y]

\* The kinds of frames.
LEMMA Frames ==
  /\ [type |-> "Ping"] \in ClientFrames /\ [type |-> "Unregister"] \in ClientFrames
  /\ [type |-> "Registered"] \in ServerFrames /\ [type |-> "Pong"] \in ServerFrames
  /\ \A v \in Versions : [type |-> "Snapshot", v |-> v] \in ClientFrames /\ [type |-> "Register", v |-> v] \in ClientFrames
  /\ \A i \in RequestIds, b \in Boots, v \in Versions : [type |-> "Result", id |-> i, boot |-> b, v |-> v] \in ClientFrames
  /\ \A i \in RequestIds, b \in Boots : [type |-> "Command", id |-> i, boot |-> b] \in ServerFrames
BY DEF ClientFrames, ServerFrames, Commands

\* A TUI writes on its connection.
LEMMA WritesUp ==
  ASSUME BrokerTypes, NEW s \in Sessions, CanWrite(s), NEW frame \in ClientFrames
  PROVE  \E y : ConnUpdate(conns[tuis[s].conn], y) /\ WriteUp(tuis[s].conn, frame) = [conns EXCEPT ![tuis[s].conn] = y]
<1> DEFINE c == tuis[s].conn
           u == IF conns[c].server = "closed" THEN conns[c].up ELSE Append(conns[c].up, frame)
<1>1. c \in Conns /\ conns[c] # None /\ conns[c].server \in {"open", "closed"}
  BY CurrentTypes, TuiTypes DEF CanWrite
<1>2. conns[c] \in Connections /\ conns[c].up \in Seq(ClientFrames) /\ conns \in [Conns -> Connections \cup {None}]
  BY <1>1, ConnTypes
<1>3. u \in Seq(ClientFrames)
  BY <1>2
<1>4. WriteUp(c, frame) = [conns EXCEPT ![c] = [conns[c] EXCEPT !.up = u]]
  BY <1>1, <1>2 DEF WriteUp
<1> HIDE DEF c, u
<1>5. ConnUpdate(conns[c], [conns[c] EXCEPT !.up = u])
  BY <1>1, <1>2, <1>3, ConnUp
<1> QED BY <1>4, <1>5 DEF c

\* The TUI's side of a connection.
LEMMA TuiOnConn ==
  ASSUME BrokerTypes, NEW s \in Sessions,
         KillTui(s) \/ ReadAck(s) \/ (Disconnected(s) /\ tuis[s].phase \in {"registering", "connected"})
           \/ WriteOutbound(s) \/ WritePing(s) \/ ReadFrame(s) \/ StopThread(s)
  PROVE  conns' = conns \/ (tuis[s].conn \in Conns /\ OneConn(tuis[s].conn))
<1> DEFINE c == tuis[s].conn
<1>1. ASSUME c # None
      PROVE  /\ c \in Conns /\ conns[c] # None /\ conns[c] \in Connections
             /\ conns \in [Conns -> Connections \cup {None}]
             /\ conns[c].up \in Seq(ClientFrames) /\ conns[c].down \in Seq(ServerFrames)
  BY <1>1, TuiTypes, ConnTypes
<1>2. tuis[s].phase \in {"registering", "connected"} => c # None
  BY TuiTypes
<1>3. ASSUME c # None, conns' = [conns EXCEPT ![c].client = FALSE]
      PROVE  OneConn(c)
  BY <1>1, <1>3, ConnClientGone DEF OneConn
<1>4. CASE KillTui(s)
  BY <1>1, <1>3, <1>4 DEF KillTui
<1>5. CASE Disconnected(s) /\ tuis[s].phase \in {"registering", "connected"}
  BY <1>1, <1>2, <1>3, <1>5 DEF Disconnected
<1>6. ASSUME c # None, conns[c].down # <<>>, conns' = [conns EXCEPT ![c].down = Tail(@)]
      PROVE  OneConn(c)
  <2> DEFINE d == Tail(conns[c].down)
  <2>1. d \in Seq(ServerFrames)
    BY <1>1, <1>6
  <2>2. conns' = [conns EXCEPT ![c] = [conns[c] EXCEPT !.down = d]]
    BY <1>1, <1>6
  <2> HIDE DEF d
  <2> QED BY <1>1, <1>6, <2>1, <2>2, ConnDown DEF OneConn
<1>7. CASE ReadAck(s)
  BY <1>1, <1>2, <1>6, <1>7 DEF ReadAck, Current
<1>8. CASE WriteOutbound(s)
  <2> DEFINE item == Head(tuis[s].outbound)
             frame == IF item.type = "Publish"
                 THEN [type |-> "Snapshot", v |-> tuis[s].version]
                 ELSE [type |-> "Result", id |-> item.id, boot |-> item.boot, v |-> item.v]
  <2>1. item \in Outbounds /\ tuis[s].version \in Versions
    BY <1>8, TuiTypes DEF WriteOutbound
  <2>2. frame \in ClientFrames
    <3> HIDE DEF item
    <3> QED BY <2>1, Frames DEF Outbounds
  <2>3. CanWrite(s) /\ conns' = WriteUp(c, frame)
    BY <1>8 DEF WriteOutbound
  <2> HIDE DEF frame
  <2> QED BY <1>1, <1>2, <2>2, <2>3, WritesUp DEF OneConn, CanWrite
<1>9. CASE WritePing(s)
  BY <1>1, <1>2, <1>9, WritesUp, Frames DEF WritePing, OneConn, CanWrite
<1>10. CASE ReadFrame(s)
  <2> DEFINE frame == Head(conns[c].down)
             d == Tail(conns[c].down)
             refusal == [type |-> "Result", id |-> frame.id, boot |-> frame.boot, v |-> tuis[s].version]
             u == Append(conns[c].up, refusal)
             y == [conns[c] EXCEPT !.down = d]
  <2>1. CanWrite(s) /\ conns[c].down # <<>> /\ tuis[s].phase = "connected"
    BY <1>10 DEF ReadFrame, Current, CanWrite
  <2>2. c # None /\ conns[c].server \in {"open", "closed"} /\ tuis[s].version \in Versions
    BY <2>1, TuiTypes
  <2>3. d \in Seq(ServerFrames) /\ frame \in ServerFrames
    BY <1>1, <2>1, <2>2
  <2>4. ConnUpdate(conns[c], y)
    <3> HIDE DEF d
    <3> QED BY <1>1, <2>2, <2>3, ConnDown
  <2>5. \/ conns' = [conns EXCEPT ![c] = y]
        \/ frame.type = "Command" /\ conns' = [conns EXCEPT ![c] = [y EXCEPT !.up = u]]
    <3>1. \/ conns' = [conns EXCEPT ![c].down = Tail(@)]
          \/ /\ frame.type = "Command"
             /\ conns' = [[conns EXCEPT ![c].down = Tail(@)] EXCEPT ![c].up = Append(@, refusal)]
      BY <1>10 DEF ReadFrame, Current
    <3> HIDE DEF refusal, frame
    <3>2. y.up = conns[c].up
      BY <1>1, <2>2 DEF Connections
    <3> QED BY <1>1, <2>2, <3>1, <3>2
  <2>6. frame.type = "Command" => u \in Seq(ClientFrames)
    <3> HIDE DEF frame
    <3>1. frame.type = "Command" => refusal \in ClientFrames
      BY <2>2, <2>3, Frames DEF ServerFrames, Commands
    <3> HIDE DEF refusal
    <3> QED BY <1>1, <2>2, <3>1
  <2>7. y \in Connections /\ y.server = conns[c].server
    <3> HIDE DEF d
    <3> QED BY <1>1, <2>2, <2>3 DEF Connections
  <2> HIDE DEF frame, d, refusal, u, y
  <2>8. frame.type = "Command" => ConnUpdate(conns[c], [y EXCEPT !.up = u])
    BY <2>2, <2>4, <2>6, <2>7, ConnUp, ConnUpdateTwice
  <2> QED BY <1>1, <2>2, <2>4, <2>5, <2>8 DEF OneConn
<1>11. CASE StopThread(s)
  <2>1. CASE conns' = conns
    BY <2>1
  <2>2. CASE CanWrite(s) /\ conns' = [WriteUp(c, [type |-> "Unregister"]) EXCEPT ![c].client = FALSE]
    <3>1. PICK y : ConnUpdate(conns[c], y) /\ WriteUp(c, [type |-> "Unregister"]) = [conns EXCEPT ![c] = y]
      BY <2>2, WritesUp, Frames
    <3>2. c \in Conns /\ conns[c] # None /\ conns \in [Conns -> Connections \cup {None}]
      BY <1>1, <1>2, <2>2 DEF CanWrite
    <3>3. conns' = [conns EXCEPT ![c] = [y EXCEPT !.client = FALSE]]
      BY <2>2, <3>1, <3>2
    <3>4. ConnUpdate(conns[c], [y EXCEPT !.client = FALSE])
      BY <3>1, ConnClientGone, ConnUpdateTwice DEF ConnUpdate
    <3> QED BY <3>2, <3>3, <3>4 DEF OneConn
  <2> QED BY <1>11, <2>1, <2>2 DEF StopThread
<1> QED BY <1>4, <1>5, <1>7, <1>8, <1>9, <1>10, <1>11

\* A thread of the daemon closes its connection.
LEMMA ClosedConn ==
  ASSUME BrokerTypes, NEW c \in Conns, Served(c)
  PROVE  \E y : /\ ConnUpdate(conns[c], y) /\ y.server = "closed" /\ y.up = <<>>
                /\ Closed(c) = [conns EXCEPT ![c] = y]
<1> DEFINE e == <<>>
           y == [conns[c] EXCEPT !.server = "closed", !.up = e]
<1>1. conns[c] \in Connections /\ conns \in [Conns -> Connections \cup {None}]
  BY ConnTypes DEF Served
<1>2. e \in Seq(ClientFrames) /\ conns[c].server \in {"registered", "open"}
  BY DEF Served
<1>3. Closed(c) = [conns EXCEPT ![c] = y]
  BY <1>1 DEF Closed
<1> HIDE DEF e
<1>4. ConnUpdate(conns[c], y) /\ y.server = "closed" /\ y.up = e
  BY <1>1, <1>2, ConnCloses DEF Connections
<1> QED BY <1>3, <1>4 DEF e

\* The daemon's side of a connection.
LEMMA DaemonOnConn ==
  ASSUME BrokerTypes, NEW c \in Conns,
         ServeAck(c) \/ ServeAckFails(c) \/ ServeCloneFails(c) \/ ServeFrame(c) \/ ServeEof(c)
  PROVE  OneConn(c)
<1>1. conns[c] # None /\ Served(c)
  BY DEF ServeAck, ServeAckFails, ServeCloneFails, ServeFrame, ServeEof, Served
<1>2. /\ conns[c] \in Connections /\ conns \in [Conns -> Connections \cup {None}]
      /\ conns[c].up \in Seq(ClientFrames) /\ conns[c].down \in Seq(ServerFrames)
  BY <1>1, ConnTypes
<1>3. PICK y : /\ ConnUpdate(conns[c], y) /\ y.server = "closed"
               /\ Closed(c) = [conns EXCEPT ![c] = y]
  BY <1>1, ClosedConn
<1>4. CASE ServeAck(c)
  <2> DEFINE d == <<[type |-> "Registered"]>> \o conns[c].down
  <2>1. d \in Seq(ServerFrames)
    BY <1>2, Frames
  <2>2. conns[c].server = "registered" /\ conns' = [conns EXCEPT ![c] = [conns[c] EXCEPT !.server = "open", !.down = d]]
    BY <1>4 DEF ServeAck
  <2> HIDE DEF d
  <2> QED BY <1>1, <1>2, <2>1, <2>2, ConnOpens DEF OneConn
<1>5. ASSUME NEW d \in Seq(ServerFrames), conns' = [Closed(c) EXCEPT ![c].down = d]
      PROVE  OneConn(c)
  <2>1. conns' = [conns EXCEPT ![c] = [y EXCEPT !.down = d]]
    BY <1>2, <1>3, <1>5
  <2>2. ConnUpdate(conns[c], [y EXCEPT !.down = d])
    BY <1>3, ConnDown, ConnUpdateTwice DEF ConnUpdate
  <2> QED BY <1>1, <2>1, <2>2 DEF OneConn
<1>6. CASE ServeAckFails(c)
  <2>1. <<>> \in Seq(ServerFrames)
    OBVIOUS
  <2>2. conns' = [Closed(c) EXCEPT ![c].down = <<>>]
    BY <1>6 DEF ServeAckFails
  <2> QED BY <1>5, <2>1, <2>2
<1>7. CASE ServeCloneFails(c)
  <2>1. <<[type |-> "Registered"]>> \in Seq(ServerFrames)
    BY Frames
  <2>2. conns' = [Closed(c) EXCEPT ![c].down = <<[type |-> "Registered"]>>]
    BY <1>7 DEF ServeCloneFails
  <2> QED BY <1>5, <2>1, <2>2
<1>8. ASSUME conns' = Closed(c)
      PROVE  OneConn(c)
  BY <1>1, <1>3, <1>8 DEF OneConn
<1>9. CASE ServeEof(c)
  BY <1>8, <1>9 DEF ServeEof, ServeEnds
<1>10. CASE ServeFrame(c)
  <2> DEFINE u == Tail(conns[c].up)
             d == Append(conns[c].down, [type |-> "Pong"])
             z == [conns[c] EXCEPT !.up = u]
  <2>1. conns[c].up # <<>> /\ conns[c].server = "open"
    BY <1>10 DEF ServeFrame
  <2>2. u \in Seq(ClientFrames) /\ d \in Seq(ServerFrames)
    BY <1>2, <2>1, Frames
  <2>3. \/ conns' = Closed(c)
        \/ conns' = [conns EXCEPT ![c].up = Tail(@)]
        \/ conns' = [[conns EXCEPT ![c].up = Tail(@)] EXCEPT ![c].down = Append(@, [type |-> "Pong"])]
    BY <1>10 DEF ServeFrame, ServeEnds
  <2>4. z.down = conns[c].down
    <3> HIDE DEF u
    <3> QED BY <1>2, <2>2 DEF Connections
  <2>5. conns' = Closed(c) \/ conns' = [conns EXCEPT ![c] = z] \/ conns' = [conns EXCEPT ![c] = [z EXCEPT !.down = d]]
    BY <1>2, <2>3, <2>4
  <2>6. ConnUpdate(conns[c], z) /\ z \in Connections
    <3> HIDE DEF u
    <3> QED BY <1>2, <2>1, <2>2, ConnUp DEF ConnUpdate
  <2> HIDE DEF u, d, z
  <2>7. ConnUpdate(conns[c], [z EXCEPT !.down = d])
    BY <2>2, <2>6, ConnDown, ConnUpdateTwice
  <2> QED BY <1>1, <1>8, <2>5, <2>6, <2>7 DEF OneConn
<1> QED BY <1>4, <1>6, <1>7, <1>9, <1>10

\* A command goes onto the route of the registered connection.
LEMMA DispatchOnConn ==
  ASSUME BrokerTypes, EntryOfConnection, NEW k \in Callers, NEW s \in Sessions, Dispatch(k, s)
  PROVE  conns' = conns \/ (registry[s].conn \in Conns /\ OneConn(registry[s].conn))
<1> DEFINE c == registry[s].conn
           command == [type |-> "Command", id |-> requestId + 1, boot |-> boot]
           d == Append(conns[c].down, command)
<1>1. Registered(s) /\ requestId < MaxRequests /\ requestId \in 0..MaxRequests /\ boot \in Boots
  BY DEF Dispatch, BrokerTypes, TypeOK
<1>2. registry[s] \in Entries
  BY <1>1 DEF BrokerTypes, TypeOK, Registered
<1>3. c \in Conns /\ conns[c] # None
  BY <1>1, <1>2 DEF Entries, EntryOfConnection
<1>4. /\ conns[c] \in Connections /\ conns \in [Conns -> Connections \cup {None}]
      /\ conns[c].down \in Seq(ServerFrames)
  BY <1>3, ConnTypes
<1>5. command \in ServerFrames
  <2>1. requestId + 1 \in RequestIds
    BY <1>1, Bounds DEF RequestIds
  <2> QED BY <1>1, <2>1, Frames
<1>6. conns' = conns \/ conns' = [conns EXCEPT ![c].down = Append(@, command)]
  BY DEF Dispatch
<1> HIDE DEF command
<1>7. d \in Seq(ServerFrames)
  BY <1>4, <1>5
<1>8. conns' = conns \/ conns' = [conns EXCEPT ![c] = [conns[c] EXCEPT !.down = d]]
  BY <1>3, <1>4, <1>6
<1> HIDE DEF c, d
<1>9. ConnUpdate(conns[c], [conns[c] EXCEPT !.down = d])
  BY <1>4, <1>7, ConnDown
<1> QED BY <1>3, <1>8, <1>9 DEF OneConn, c

\* The first frame of a connection is served.
LEMMA RegisterOnConn ==
  ASSUME BrokerTypes, NEW c \in Conns, ServeRegister(c)
  PROVE  /\ conns[c] # None /\ conns[c].server = "new" /\ generation' = generation + 1
         /\ \E y \in Connections :
              /\ y.sid = conns[c].sid /\ y.generation = generation + 1
              /\ y.server = "registered" /\ y.up = <<>>
              /\ conns' = [conns EXCEPT ![c] = y]
         /\ Head(conns[c].up).v \in Versions /\ conns[c].up = <<[type |-> "Register", v |-> Head(conns[c].up).v]>>
<1> DEFINE u == Tail(conns[c].up)
           g == generation + 1
           y == [conns[c] EXCEPT !.server = "registered", !.up = u, !.generation = g]
<1>1. conns[c] # None /\ conns[c].server = "new" /\ generation' = g /\ conns' = [conns EXCEPT ![c] = y]
  BY DEF ServeRegister
<1>2. conns[c] \in Connections
  BY <1>1, ConnTypes
<1>3. PICK v \in Versions : conns[c].up = <<[type |-> "Register", v |-> v]>>
  BY <1>1 DEF BrokerTypes, FirstFrame
<1>4. u = <<>> /\ u \in Seq(ClientFrames) /\ Head(conns[c].up).v = v
  BY <1>3
<1>5. g \in Nat
  BY DEF BrokerTypes, TypeOK
<1> HIDE DEF u, g
<1>6. y \in Connections /\ y.sid = conns[c].sid /\ y.generation = g /\ y.server = "registered" /\ y.up = u
  BY <1>2, <1>4, <1>5 DEF Connections
<1> QED BY <1>1, <1>3, <1>4, <1>6 DEF g

\* A TUI connects.
LEMMA ConnectOnConn ==
  ASSUME BrokerTypes, NEW s \in Sessions, NEW c \in Conns, Connect(s, c)
  PROVE  /\ conns[c] = None /\ up
         /\ \E y \in Connections :
              /\ y.sid = s /\ y.generation = 0 /\ y.server = "new"
              /\ y.up = <<[type |-> "Register", v |-> tuis[s].version]>>
              /\ conns' = [conns EXCEPT ![c] = y]
<1> DEFINE u == <<[type |-> "Register", v |-> tuis[s].version]>>
           d == <<>>
           y == [sid |-> s, generation |-> 0, client |-> TRUE, server |-> "new", up |-> u, down |-> d]
<1>1. tuis[s].version \in Versions
  BY TuiTypes
<1>2. [type |-> "Register", v |-> tuis[s].version] \in ClientFrames
  BY <1>1, Frames
<1>3. u \in Seq(ClientFrames) /\ d \in Seq(ServerFrames)
  BY <1>2
<1>4. conns[c] = None /\ up /\ conns' = [conns EXCEPT ![c] = y]
  BY DEF Connect
<1> HIDE DEF u, d
<1>5. y \in Connections /\ y.sid = s /\ y.generation = 0 /\ y.server = "new" /\ y.up = u
  BY <1>3 DEF Connections
<1> QED BY <1>4, <1>5 DEF u

\* A connection whose daemon is gone.
Forgotten(x, y) == y \in Connections /\ y.sid = x.sid /\ y.generation = 0 /\ y.server = "closed"

\* A closed connection may be forgotten,
LEMMA ConnForgotten ==
  ASSUME NEW x \in Connections, x.server = "closed"
  PROVE  Forgotten(x, [x EXCEPT !.generation = 0])
BY DEF Connections, Forgotten

\* also with frames that were on their way down.
LEMMA ConnCutOff ==
  ASSUME NEW x \in Connections, x.server = "closed", NEW d \in Seq(ServerFrames)
  PROVE  Forgotten(x, [x EXCEPT !.generation = 0, !.down = d])
BY DEF Connections, Forgotten

\* When the daemon exits every connection ends.
LEMMA ExitOnConns ==
  ASSUME BrokerTypes, DaemonExits
  PROVE  /\ conns' \in [Conns -> Connections \cup {None}]
         /\ \A c \in Conns : conns[c] = None => conns'[c] = None
         /\ \A c \in Conns : conns[c] # None =>
              /\ conns'[c] # None /\ conns'[c] \in Connections /\ conns'[c].sid = conns[c].sid
              /\ conns'[c].generation = 0 /\ conns'[c].server = "closed"
<1>1. PICK kept \in [Conns -> 0..(RouteCap + 1)] :
       conns' = [c \in Conns |->
          IF conns[c] = None THEN None
          ELSE IF conns[c].server = "closed" THEN [conns[c] EXCEPT !.generation = 0]
          ELSE [Closed(c)[c] EXCEPT !.generation = 0, !.down =
                  IF conns[c].server = "open" /\ kept[c] < Len(@) THEN SubSeq(@, 1, kept[c])
                  ELSE IF conns[c].server = "open" THEN @ ELSE <<>>]]
  BY DEF DaemonExits
<1>2. ASSUME NEW c \in Conns, conns[c] # None
      PROVE  /\ conns'[c] \in Connections /\ conns'[c].sid = conns[c].sid
             /\ conns'[c].generation = 0 /\ conns'[c].server = "closed"
  <2>1. conns[c] \in Connections /\ conns \in [Conns -> Connections \cup {None}]
    BY <1>2, ConnTypes
  <2>2. CASE conns[c].server = "closed"
    <3>1. conns'[c] = [conns[c] EXCEPT !.generation = 0]
      BY <1>1, <1>2, <2>2
    <3> QED BY <2>1, <2>2, <3>1, ConnForgotten DEF Forgotten
  <2>3. CASE conns[c].server # "closed"
    <3> DEFINE e == <<>>
               z == [conns[c] EXCEPT !.server = "closed", !.up = e]
               d == IF conns[c].server = "open" /\ kept[c] < Len(z.down) THEN SubSeq(z.down, 1, kept[c])
                    ELSE IF conns[c].server = "open" THEN z.down ELSE <<>>
    <3>1. Closed(c)[c] = z
      BY <2>1 DEF Closed
    <3>2. conns'[c] = [z EXCEPT !.generation = 0, !.down = d]
      BY <1>1, <1>2, <2>3, <3>1
    <3>3. e \in Seq(ClientFrames)
      OBVIOUS
    <3> HIDE DEF e
    <3>4. z \in Connections /\ z.sid = conns[c].sid /\ z.server = "closed" /\ z.down \in Seq(ServerFrames)
      BY <2>1, <3>3 DEF Connections
    <3>5. d \in Seq(ServerFrames)
      <4> HIDE DEF z
      <4>1. kept[c] \in Nat
        <5>1. kept[c] \in 0..(RouteCap + 1)
          BY <1>2
        <5> QED BY <5>1, Bounds
      <4>2. kept[c] < Len(z.down) => SubSeq(z.down, 1, kept[c]) \in Seq(ServerFrames)
        BY <3>4, <4>1
      <4>3. <<>> \in Seq(ServerFrames)
        OBVIOUS
      <4> QED BY <3>4, <4>2, <4>3
    <3> HIDE DEF z, d
    <3>6. Forgotten(z, conns'[c])
      BY <3>2, <3>4, <3>5, ConnCutOff
    <3> QED BY <3>4, <3>6 DEF Forgotten
  <2> QED BY <2>2, <2>3
<1>3. \A c \in Conns : conns[c] = None => conns'[c] = None
  BY <1>1
<1>4. conns' \in [Conns -> Connections \cup {None}]
  <2>1. conns' = [c \in Conns |-> conns'[c]]
    BY <1>1
  <2>2. \A c \in Conns : conns'[c] \in Connections \cup {None}
    BY <1>2, <1>3
  <2> QED BY <2>1, <2>2
<1> QED BY <1>2, <1>3, <1>4, BrokerAssumption

\* Every step on the connections is one of these.
LEMMA ConnSteps ==
  ASSUME BrokerTypes, EntryOfConnection, [Next]_vars
  PROVE  \/ conns' = conns
         \/ \E c \in Conns : OneConn(c)
         \/ \E c \in Conns : ServeRegister(c)
         \/ \E s \in Sessions, c \in Conns : Connect(s, c)
         \/ DaemonExits
<1>1. ASSUME NEW s \in Sessions, Tui(s)
      PROVE  conns' = conns \/ \E c \in Conns : OneConn(c)
  BY <1>1, TuiOnConn DEF Tui, PublishSnapshot, ApplySessionRequest, QuitTui
<1>2. ASSUME NEW s \in Sessions, RegistrationThread(s)
      PROVE  conns' = conns \/ (\E c \in Conns : OneConn(c)) \/ \E c \in Conns : Connect(s, c)
  BY <1>2, TuiOnConn DEF RegistrationThread, AckTimesOut, ConnectionLost
<1>3. ASSUME NEW c \in Conns, ConnectionThread(c)
      PROVE  OneConn(c) \/ ServeRegister(c)
  BY <1>3, DaemonOnConn DEF ConnectionThread
<1>4. ASSUME AcceptLoop
      PROVE  conns' = conns \/ DaemonExits
  BY <1>4 DEF AcceptLoop, TtlPasses, PruneStale, DaemonStarts
<1>5. ASSUME NEW k \in Callers, Caller(k)
      PROVE  conns' = conns \/ \E c \in Conns : OneConn(c)
  BY <1>5, DispatchOnConn DEF Caller, ReceiveAnswer, ReceiveTimesOut, Cleanup
<1> QED BY <1>1, <1>2, <1>3, <1>4, <1>5 DEF Next, vars

\* What a step keeps of a connection.
LEMMA ConnKeeps ==
  ASSUME BrokerTypes, EntryOfConnection, [Next]_vars
  PROVE  /\ conns' \in [Conns -> Connections \cup {None}]
         /\ \A c \in Conns : conns[c] # None =>
              /\ conns'[c] # None /\ conns'[c].sid = conns[c].sid
              /\ \/ conns'[c] = conns[c]
                 \/ ConnUpdate(conns[c], conns'[c])
                 \/ /\ ServeRegister(c) /\ conns'[c].server = "registered"
                    /\ conns'[c].generation = generation + 1
                 \/ DaemonExits /\ conns'[c].generation = 0 /\ conns'[c].server = "closed"
         /\ \A c \in Conns : conns[c] = None /\ conns'[c] # None =>
              /\ up /\ \E s \in Sessions : Connect(s, c)
              /\ conns'[c].generation = 0 /\ conns'[c].server = "new"
              /\ \E v \in Versions : conns'[c].up = <<[type |-> "Register", v |-> v]>>
<1>1. conns \in [Conns -> Connections \cup {None}] /\ None \notin Connections
  BY BrokerAssumption DEF BrokerTypes, TypeOK
<1>2. CASE conns' = conns
  BY <1>1, <1>2
<1>3. ASSUME NEW c \in Conns, OneConn(c)
      PROVE  /\ conns' \in [Conns -> Connections \cup {None}]
             /\ \A d \in Conns : conns'[d] = conns[d] \/ (conns[d] # None /\ conns'[d] # None /\ ConnUpdate(conns[d], conns'[d]))
  BY <1>1, <1>3 DEF OneConn, ConnUpdate
<1>4. ASSUME NEW c \in Conns, ServeRegister(c)
      PROVE  /\ conns' \in [Conns -> Connections \cup {None}]
             /\ \A d \in Conns : d # c => conns'[d] = conns[d]
             /\ conns[c] # None /\ conns'[c] # None /\ conns'[c].sid = conns[c].sid
             /\ conns'[c].server = "registered" /\ conns'[c].generation = generation + 1
  BY <1>1, <1>4, RegisterOnConn
<1>5. ASSUME NEW s \in Sessions, NEW c \in Conns, Connect(s, c)
      PROVE  /\ conns' \in [Conns -> Connections \cup {None}]
             /\ \A d \in Conns : d # c => conns'[d] = conns[d]
             /\ up /\ conns[c] = None /\ conns'[c] # None /\ conns'[c].generation = 0 /\ conns'[c].server = "new"
             /\ \E v \in Versions : conns'[c].up = <<[type |-> "Register", v |-> v]>>
  <2>1. PICK y \in Connections :
              /\ y.sid = s /\ y.generation = 0 /\ y.server = "new"
              /\ y.up = <<[type |-> "Register", v |-> tuis[s].version]>>
              /\ conns' = [conns EXCEPT ![c] = y]
    BY <1>5, ConnectOnConn
  <2>2. up /\ conns[c] = None /\ tuis[s].version \in Versions
    BY <1>5, ConnectOnConn, TuiTypes
  <2>3. conns'[c] = y
    BY <1>1, <2>1
  <2> QED BY <1>1, <2>1, <2>2, <2>3
<1>6. CASE \E c \in Conns : OneConn(c)
  BY <1>3, <1>6 DEF ConnUpdate
<1>7. CASE \E c \in Conns : ServeRegister(c)
  BY <1>4, <1>7
<1>8. CASE \E s \in Sessions, c \in Conns : Connect(s, c)
  BY <1>5, <1>8
<1>9. CASE DaemonExits
  BY <1>1, <1>9, ExitOnConns
<1> QED BY <1>2, <1>6, <1>7, <1>8, <1>9, ConnSteps

-----------------------------------------------------------------------------
\* How a step may change a registration that stays.
EntryUpdate(x, y) ==
  /\ y \in Entries
  /\ y.conn = x.conn /\ y.generation = x.generation /\ y.pending \subseteq x.pending

\* An entry changes as allowed when a snapshot arrives,
LEMMA EntryServed ==
  ASSUME NEW x \in Entries, NEW v \in Versions
  PROVE  EntryUpdate(x, [x EXCEPT !.snapshot = v, !.stale = FALSE])
         /\ [x EXCEPT !.snapshot = v, !.stale = FALSE].snapshot = v
BY DEF Entries, EntryUpdate

\* when an answer arrives,
LEMMA EntryAnswered ==
  ASSUME NEW x \in Entries, NEW v \in Versions, NEW p \in SUBSET x.pending
  PROVE  EntryUpdate(x, [x EXCEPT !.snapshot = v, !.stale = FALSE, !.pending = p])
         /\ [x EXCEPT !.snapshot = v, !.stale = FALSE, !.pending = p].snapshot = v
BY DEF Entries, EntryUpdate

\* when it becomes stale,
LEMMA EntryAges ==
  ASSUME NEW x \in Entries
  PROVE  EntryUpdate(x, [x EXCEPT !.stale = TRUE]) /\ [x EXCEPT !.stale = TRUE].snapshot = x.snapshot
BY DEF Entries, EntryUpdate

\* and when its pending callers change.
LEMMA EntryPends ==
  ASSUME NEW x \in Entries, NEW p \in SUBSET Callers
  PROVE  /\ [x EXCEPT !.pending = p] \in Entries /\ [x EXCEPT !.pending = p].snapshot = x.snapshot
         /\ [x EXCEPT !.pending = p].conn = x.conn /\ [x EXCEPT !.pending = p].generation = x.generation
         /\ [x EXCEPT !.pending = p].pending = p
BY DEF Entries

\* What the entries of the registry are.
LEMMA EntryTypes ==
  ASSUME BrokerTypes, NEW s \in Sessions, Registered(s)
  PROVE  /\ registry \in [Sessions -> Entries \cup {None}] /\ registry[s] \in Entries
         /\ registry[s].generation \in Nat /\ registry[s].conn \in Conns
         /\ registry[s].snapshot \in Versions /\ registry[s].pending \in SUBSET Callers
<1>1. registry \in [Sessions -> Entries \cup {None}] /\ registry[s] \in Entries
  BY DEF BrokerTypes, TypeOK, Registered
<1> QED BY <1>1 DEF Entries

\* A step updates one registration.
OneEntry(s) ==
  Registered(s) /\ \E y : EntryUpdate(registry[s], y) /\ y.snapshot = registry[s].snapshot
                            /\ registry' = [registry EXCEPT ![s] = y]

\* A thread takes over the state of a frame.
TakesOver(c, v) ==
  LET s == conns[c].sid
  IN  /\ OwnsEntry(c)
      /\ \E y : EntryUpdate(registry[s], y) /\ y.snapshot = v /\ registry' = [registry EXCEPT ![s] = y]

\* The registration of a connection is withdrawn.
Withdrawn(c) == OwnsEntry(c) /\ registry' = [registry EXCEPT ![conns[c].sid] = None]

\* A thread ends: its connection is closed and its registration withdrawn.
LEMMA EndsStep ==
  ASSUME BrokerTypes, NEW c \in Conns, Served(c), ServeEnds(c) \/ ServeAckFails(c)
  PROVE  /\ registry' = registry \/ Withdrawn(c)
         /\ conns'[c] # None /\ conns'[c].server = "closed" /\ \A d \in Conns : d # c => conns'[d] = conns[d]
         /\ callers' = callers
<1>1. PICK y : ConnUpdate(conns[c], y) /\ y.server = "closed" /\ Closed(c) = [conns EXCEPT ![c] = y]
  BY ClosedConn
<1>2. conns \in [Conns -> Connections \cup {None}] /\ conns[c] \in Connections
  BY ConnTypes DEF Served
<1>3. registry' = registry \/ Withdrawn(c)
  BY DEF ServeEnds, ServeAckFails, UnregisterGeneration, Withdrawn
<1>4. callers' = callers
  BY DEF ServeEnds, ServeAckFails
<1>5. conns' = Closed(c) \/ conns' = [Closed(c) EXCEPT ![c].down = <<>>]
  BY DEF ServeEnds, ServeAckFails
<1>6. conns' = [conns EXCEPT ![c] = y] \/ conns' = [conns EXCEPT ![c] = [y EXCEPT !.down = <<>>]]
  BY <1>1, <1>2, <1>5
<1>7. y \in Connections /\ [y EXCEPT !.down = <<>>].server = "closed" /\ None \notin Connections
  BY <1>1, BrokerAssumption DEF ConnUpdate, Connections
<1>8. [y EXCEPT !.down = <<>>] \in Connections
  <2>1. <<>> \in Seq(ServerFrames)
    OBVIOUS
  <2> QED BY <1>7, <2>1, ConnDown DEF ConnUpdate
<1> QED BY <1>1, <1>2, <1>3, <1>4, <1>6, <1>7, <1>8

\* One frame is served.
LEMMA FrameStep ==
  ASSUME BrokerTypes, NEW c \in Conns, ServeFrame(c)
  PROVE  /\ conns[c] # None /\ conns[c].server = "open" /\ conns[c].up # <<>>
         /\ \/ ServeEnds(c)
            \/ /\ conns'[c].up = Tail(conns[c].up)
               /\ \A d \in Conns : d # c => conns'[d] = conns[d]
               /\ \/ registry' = registry /\ callers' = callers /\ ~CarriesState(Head(conns[c].up))
                  \/ /\ CarriesState(Head(conns[c].up))
                     /\ (~OwnsEntry(c) /\ registry' = registry) \/ TakesOver(c, Head(conns[c].up).v)
                     /\ callers' = callers \/ CompleteCommand(c, Head(conns[c].up))
<1> DEFINE frame == Head(conns[c].up)
           s == conns[c].sid
<1>1. conns[c] # None /\ conns[c].server = "open" /\ conns[c].up # <<>>
  BY DEF ServeFrame
<1>2. /\ conns \in [Conns -> Connections \cup {None}] /\ conns[c] \in Connections
      /\ s \in Sessions /\ conns[c].up \in Seq(ClientFrames)
  BY <1>1, ConnTypes
<1>3. frame \in ClientFrames
  BY <1>1, <1>2
<1>4. frame.type \in {"Snapshot", "Result"} => frame.v \in Versions
  <2> HIDE DEF frame
  <2> QED BY <1>3 DEF ClientFrames
<1>5. ASSUME \/ conns' = [conns EXCEPT ![c].up = Tail(@)]
             \/ conns' = [[conns EXCEPT ![c].up = Tail(@)] EXCEPT ![c].down = Append(@, [type |-> "Pong"])]
      PROVE  conns'[c].up = Tail(conns[c].up) /\ \A d \in Conns : d # c => conns'[d] = conns[d]
  <2> DEFINE u == Tail(conns[c].up)
             z == [conns[c] EXCEPT !.up = u]
             d == Append(z.down, [type |-> "Pong"])
  <2>1. conns' = [conns EXCEPT ![c] = z] \/ conns' = [conns EXCEPT ![c] = [z EXCEPT !.down = d]]
    BY <1>2, <1>5
  <2>2. z.up = u /\ [z EXCEPT !.down = d].up = u
    <3> HIDE DEF u
    <3> QED BY <1>2 DEF Connections
  <2> HIDE DEF z, d
  <2> QED BY <1>2, <2>1, <2>2
<1>6. OwnsEntry(c) => Registered(s) /\ registry[s] \in Entries /\ registry \in [Sessions -> Entries \cup {None}]
  BY <1>2, EntryTypes DEF OwnsEntry
<1>7. CASE frame.type = "Snapshot" /\ registry' = UpdateSnapshot(c, frame.v) /\ callers' = callers
           /\ conns' = [conns EXCEPT ![c].up = Tail(@)]
  <2>1. CarriesState(frame) /\ frame.v \in Versions
    BY <1>4, <1>7 DEF CarriesState
  <2>2. conns'[c].up = Tail(conns[c].up) /\ \A d \in Conns : d # c => conns'[d] = conns[d]
    BY <1>5, <1>7
  <2>3. (~OwnsEntry(c) /\ registry' = registry) \/ TakesOver(c, frame.v)
    <3>1. CASE ~OwnsEntry(c)
      BY <1>7, <3>1 DEF UpdateSnapshot
    <3>2. CASE OwnsEntry(c)
      <4> HIDE DEF frame
      <4>1. registry' = [registry EXCEPT ![s] = [registry[s] EXCEPT !.snapshot = frame.v, !.stale = FALSE]]
        BY <1>2, <1>6, <1>7, <3>2 DEF UpdateSnapshot
      <4> HIDE DEF s
      <4> QED BY <1>6, <2>1, <3>2, <4>1, EntryServed DEF TakesOver, s
    <3> QED BY <3>1, <3>2
  <2> QED BY <1>1, <1>7, <2>1, <2>2, <2>3
<1>8. CASE frame.type = "Result" /\ CompleteCommand(c, frame) /\ conns' = [conns EXCEPT ![c].up = Tail(@)]
  <2>1. CarriesState(frame) /\ frame.v \in Versions
    BY <1>4, <1>8 DEF CarriesState
  <2>2. conns'[c].up = Tail(conns[c].up) /\ \A d \in Conns : d # c => conns'[d] = conns[d]
    BY <1>5, <1>8
  <2>3. (~OwnsEntry(c) /\ registry' = registry) \/ TakesOver(c, frame.v)
    <3>1. CASE ~OwnsEntry(c)
      BY <1>8, <3>1 DEF CompleteCommand
    <3>2. CASE OwnsEntry(c)
      <4> DEFINE p == registry[s].pending \ PendingFor(s, frame)
                 v == frame.v
                 y == [registry[s] EXCEPT !.snapshot = v, !.stale = FALSE, !.pending = p]
      <4> HIDE DEF frame
      <4>1. registry' = [registry EXCEPT ![s] = y]
        BY <1>8, <3>2 DEF CompleteCommand
      <4> HIDE DEF s
      <4>2. p \in SUBSET registry[s].pending /\ v \in Versions /\ registry[s] \in Entries
        BY <1>6, <2>1, <3>2
      <4> HIDE DEF p, v
      <4>3. EntryUpdate(registry[s], y) /\ y.snapshot = v
        BY <4>2, EntryAnswered
      <4> HIDE DEF y
      <4> QED BY <3>2, <4>1, <4>3 DEF TakesOver, s, v
    <3> QED BY <3>1, <3>2
  <2> QED BY <1>1, <1>8, <2>1, <2>2, <2>3
<1>9. CASE frame.type = "Ping" /\ registry' = registry /\ callers' = callers
           /\ conns' = [[conns EXCEPT ![c].up = Tail(@)] EXCEPT ![c].down = Append(@, [type |-> "Pong"])]
  <2>1. ~CarriesState(frame)
    BY <1>9 DEF CarriesState
  <2> QED BY <1>1, <1>5, <1>9, <2>1
<1>10. CASE ServeEnds(c)
  BY <1>1, <1>10
<1> QED BY <1>7, <1>8, <1>9, <1>10 DEF ServeFrame

\* A caller enters the pending requests of a session.
Enters(k, s) ==
  /\ Registered(s) /\ callers'[k].pc = "waiting" /\ callers'[k].sid = s /\ callers'[k].reply = None
  /\ callers'[k].generation = registry[s].generation
  /\ \A j \in Callers : j # k => callers'[j] = callers[j]
  /\ \E y \in Entries :
       /\ y.conn = registry[s].conn /\ y.generation = registry[s].generation /\ y.snapshot = registry[s].snapshot
       /\ y.pending = registry[s].pending \cup {k}
       /\ registry' = [registry EXCEPT ![s] = y]

\* Every step on the registry is one of these.
RegistryStep ==
  \/ registry' = registry
  \/ \E s \in Sessions : OneEntry(s)
  \/ \E c \in Conns : Served(c) /\ ServeFrame(c) /\ TakesOver(c, Head(conns[c].up).v)
  \/ \E c \in Conns : Served(c) /\ Withdrawn(c) /\ conns'[c] # None /\ conns'[c].server = "closed"
  \/ \E c \in Conns : ServeRegister(c)
  \/ \E k \in Callers, s \in Sessions : Dispatch(k, s) /\ Enters(k, s)
  \/ PruneStale
  \/ DaemonExits

\* A dispatch enters the pending table or does nothing.
LEMMA DispatchStep ==
  ASSUME BrokerTypes, NEW k \in Callers, NEW s \in Sessions, Dispatch(k, s)
  PROVE  \/ registry' = registry /\ callers' = [callers EXCEPT ![k] = IdleCaller]
         \/ Enters(k, s)
<1>1. Registered(s) /\ callers \in [Callers -> CallerStates]
  BY DEF Dispatch, BrokerTypes, TypeOK
<1>2. CASE registry' = registry /\ callers' = [callers EXCEPT ![k] = IdleCaller]
  BY <1>2
<1>3. CASE /\ registry' = [registry EXCEPT ![s].pending = @ \cup {k}]
           /\ callers' = [callers EXCEPT ![k] =
                     [pc |-> "waiting", sid |-> s, generation |-> registry[s].generation,
                      id |-> requestId + 1, boot |-> boot, reply |-> None]]
  <2> DEFINE p == registry[s].pending \cup {k}
             y == [registry[s] EXCEPT !.pending = p]
  <2>1. registry[s] \in Entries /\ registry \in [Sessions -> Entries \cup {None}] /\ p \in SUBSET Callers
    BY <1>1, EntryTypes
  <2>2. registry' = [registry EXCEPT ![s] = y]
    BY <1>3, <2>1
  <2>3. /\ callers'[k].pc = "waiting" /\ callers'[k].sid = s /\ callers'[k].reply = None
        /\ callers'[k].generation = registry[s].generation
        /\ \A j \in Callers : j # k => callers'[j] = callers[j]
    BY <1>1, <1>3
  <2> HIDE DEF p
  <2>4. /\ y \in Entries /\ y.conn = registry[s].conn /\ y.generation = registry[s].generation
        /\ y.snapshot = registry[s].snapshot /\ y.pending = p
    BY <2>1, EntryPends
  <2> HIDE DEF y
  <2> QED BY <1>1, <2>2, <2>3, <2>4 DEF Enters, p
<1> QED BY <1>2, <1>3 DEF Dispatch

\* A cleanup frees the caller and at most its own pending entry.
LEMMA CleanupStep ==
  ASSUME BrokerTypes, NEW k \in Callers, Cleanup(k)
  PROVE  /\ callers' = [callers EXCEPT ![k] = IdleCaller]
         /\ \/ registry' = registry
               /\ (Registered(callers[k].sid) => registry[callers[k].sid].generation # callers[k].generation)
            \/ /\ callers[k].sid \in Sessions /\ OneEntry(callers[k].sid)
               /\ registry'[callers[k].sid].pending = registry[callers[k].sid].pending \ {k}
<1> DEFINE s == callers[k].sid
<1>1. s \in Sessions /\ callers' = [callers EXCEPT ![k] = IdleCaller]
  BY DEF Cleanup, BrokerTypes, CallerKnows
<1>2. CASE ~(Registered(s) /\ registry[s].generation = callers[k].generation)
  BY <1>1, <1>2 DEF Cleanup, WithdrawPending
<1>3. CASE Registered(s) /\ registry[s].generation = callers[k].generation
  <2> DEFINE p == registry[s].pending \ {k}
             y == [registry[s] EXCEPT !.pending = p]
  <2> HIDE DEF s
  <2>1. registry[s] \in Entries /\ registry \in [Sessions -> Entries \cup {None}] /\ p \in SUBSET Callers
    BY <1>1, <1>3, EntryTypes
  <2>2. registry' = [registry EXCEPT ![s].pending = @ \ {k}]
    BY <1>3 DEF Cleanup, WithdrawPending, s
  <2>3. registry' = [registry EXCEPT ![s] = y]
    BY <2>1, <2>2
  <2>4. p \subseteq registry[s].pending
    OBVIOUS
  <2> HIDE DEF p
  <2>5. /\ y \in Entries /\ y.conn = registry[s].conn /\ y.generation = registry[s].generation
        /\ y.snapshot = registry[s].snapshot /\ y.pending = p
    BY <2>1, EntryPends
  <2> HIDE DEF y
  <2>6. registry'[s].pending = p
    BY <1>1, <2>1, <2>3, <2>5
  <2> QED BY <1>1, <1>3, <2>3, <2>4, <2>5, <2>6 DEF OneEntry, EntryUpdate, p, s
<1> QED BY <1>2, <1>3

\* Every step changes the registry in one of the ways of RegistryStep.
LEMMA RegistrySteps ==
  ASSUME BrokerTypes, [Next]_vars
  PROVE  RegistryStep
<1>1. ASSUME NEW s \in Sessions, Tui(s) \/ RegistrationThread(s)
      PROVE  registry' = registry
  BY <1>1 DEF Tui, PublishSnapshot, ApplySessionRequest, QuitTui, KillTui, RegistrationThread, Connect, ReadAck,
       AckTimesOut, ConnectionLost, WriteOutbound, WritePing, ReadFrame, StopThread, daemon
<1>2. ASSUME NEW c \in Conns, ConnectionThread(c)
      PROVE  RegistryStep
  <2>1. CASE ServeRegister(c)
    BY <2>1 DEF RegistryStep
  <2>2. CASE ServeAck(c) \/ ServeCloneFails(c)
    BY <2>2 DEF ServeAck, ServeCloneFails, daemon, RegistryStep
  <2>3. CASE ServeAckFails(c) \/ ServeEof(c)
    BY <2>3, EndsStep DEF ServeAckFails, ServeEof, Served, RegistryStep
  <2>4. CASE ServeFrame(c)
    BY <2>4, FrameStep, EndsStep DEF Served, RegistryStep
  <2> QED BY <1>2, <2>1, <2>2, <2>3, <2>4 DEF ConnectionThread
<1>3. ASSUME NEW s \in Sessions, TtlPasses(s)
      PROVE  OneEntry(s)
  <2>1. Registered(s) /\ registry' = [registry EXCEPT ![s].stale = TRUE]
    BY <1>3 DEF TtlPasses
  <2>2. registry[s] \in Entries /\ registry \in [Sessions -> Entries \cup {None}]
    BY <2>1, EntryTypes
  <2>3. registry' = [registry EXCEPT ![s] = [registry[s] EXCEPT !.stale = TRUE]]
    BY <2>1, <2>2
  <2> QED BY <2>1, <2>2, <2>3, EntryAges DEF OneEntry
<1>4. CASE AcceptLoop
  BY <1>3, <1>4 DEF AcceptLoop, DaemonStarts, RegistryStep
<1>5. ASSUME NEW k \in Callers, Caller(k)
      PROVE  RegistryStep
  <2>1. CASE \E s \in Sessions : Dispatch(k, s)
    BY <2>1, DispatchStep DEF RegistryStep
  <2>2. CASE ReceiveAnswer(k) \/ ReceiveTimesOut(k)
    BY <2>2 DEF ReceiveAnswer, ReceiveTimesOut, daemon, RegistryStep
  <2>3. CASE Cleanup(k)
    BY <2>3, CleanupStep DEF RegistryStep
  <2> QED BY <1>5, <2>1, <2>2, <2>3 DEF Caller
<1>6. CASE UNCHANGED vars
  BY <1>6 DEF vars, RegistryStep
<1>7. (\E s \in Sessions : Tui(s) \/ RegistrationThread(s)) => RegistryStep
  BY <1>1 DEF RegistryStep
<1> QED BY <1>2, <1>4, <1>5, <1>6, <1>7 DEF Next

-----------------------------------------------------------------------------
\* What a step keeps of a TUI: its link, and what it has to publish.
SameLink(x, y) == y.conn = x.conn /\ y.phase = x.phase
SameNews(x, y) == y.outbound = x.outbound /\ y.version = x.version /\ y.lost = x.lost

\* An item is queued, or the loss is noted, or the queue is full and stays.
Queued(x, y) ==
  \/ y.lost
  \/ SameNews(x, y) /\ x.outbound # <<>>
  \/ \E item \in Outbounds : y.outbound = Append(x.outbound, item) /\ (item.type = "Publish" \/ item.v = y.version)

TuiStep(s) ==
  LET x == tuis[s]
      y == tuis'[s]
  IN  \/ SameLink(x, y) /\ SameNews(x, y)
      \/ SameLink(x, y) /\ Queued(x, y) /\ conns' = conns /\ registry' = registry
      \/ /\ WriteOutbound(s) /\ SameLink(x, y) /\ y.version = x.version /\ y.lost = x.lost
         /\ y.outbound = Tail(x.outbound)
      \/ ReadAck(s) /\ SameNews(x, y) /\ y.conn = x.conn /\ y.phase = "connected"
      \/ /\ SameNews(x, y) /\ y.phase \in {"disconnected", "exited"} /\ y.conn \in {x.conn, None}
         /\ y.phase = "disconnected" => y.conn = None
      \/ \E c \in Conns : Connect(s, c) /\ SameNews(x, y) /\ y.conn = c /\ y.phase = "registering"

\* Pruning and reading leave link and news of a TUI alone.
LEMMA QuietUpdates ==
  ASSUME NEW u \in Tuis, NEW r \in BOOLEAN, NEW q \in Seq(Commands)
  PROVE  /\ SameLink(u, [u EXCEPT !.pruned = r]) /\ SameNews(u, [u EXCEPT !.pruned = r])
         /\ SameLink(u, [u EXCEPT !.requests = q]) /\ SameNews(u, [u EXCEPT !.requests = q])
BY DEF Tuis, SameLink, SameNews

Moved(x, y, p, c) == SameNews(x, y) /\ y.phase = p /\ y.conn = c

\* A TUI that moves on keeps its news,
LEMMA MoveUpdate ==
  ASSUME NEW u \in Tuis, NEW p \in Phases
  PROVE  Moved(u, [u EXCEPT !.phase = p], p, u.conn)
BY DEF Tuis, SameNews, Phases, Moved

\* one that connects too,
LEMMA LinkUpdate ==
  ASSUME NEW u \in Tuis, NEW p \in Phases, NEW c \in Conns \cup {None}
  PROVE  Moved(u, [u EXCEPT !.phase = p, !.conn = c], p, c)
BY DEF Tuis, SameNews, Phases, Moved

\* and one that dies.
LEMMA DeathUpdate ==
  ASSUME NEW u \in Tuis
  PROVE  /\ SameNews(u, [u EXCEPT !.alive = FALSE, !.phase = "exited"])
         /\ [u EXCEPT !.alive = FALSE, !.phase = "exited"].conn = u.conn
         /\ [u EXCEPT !.alive = FALSE, !.phase = "exited"].phase = "exited"
BY DEF Tuis, SameNews

\* A TUI that writes keeps its version,
LEMMA WriteUpdate ==
  ASSUME NEW u \in Tuis, NEW o \in Seq(Outbounds)
  PROVE  /\ SameLink(u, [u EXCEPT !.outbound = o]) /\ [u EXCEPT !.outbound = o].version = u.version
         /\ [u EXCEPT !.outbound = o].lost = u.lost /\ [u EXCEPT !.outbound = o].outbound = o
BY DEF Tuis, SameLink

Told(x, y, v, l, o) == SameLink(x, y) /\ y.version = v /\ y.lost = l /\ y.outbound = o

\* one that publishes has told its version,
LEMMA PublishUpdate ==
  ASSUME NEW u \in Tuis, NEW v \in Versions, NEW l \in BOOLEAN, NEW o \in Seq(Outbounds)
  PROVE  Told(u, [u EXCEPT !.version = v, !.outbound = o, !.lost = l], v, l, o)
BY DEF Tuis, SameLink, Told

\* one that answers too,
LEMMA AnswerUpdate ==
  ASSUME NEW u \in Tuis, NEW v \in Versions, NEW l \in BOOLEAN, NEW o \in Seq(Outbounds), NEW q \in Seq(Commands)
  PROVE  Told(u, [u EXCEPT !.version = v, !.requests = q, !.outbound = o, !.lost = l], v, l, o)
BY DEF Tuis, SameLink, Told

\* and one that quits keeps it.
LEMMA QuitUpdate ==
  ASSUME NEW u \in Tuis, NEW o \in Seq(Outbounds)
  PROVE  /\ SameLink(u, [u EXCEPT !.alive = FALSE, !.outbound = o])
         /\ [u EXCEPT !.alive = FALSE, !.outbound = o].version = u.version
         /\ [u EXCEPT !.alive = FALSE, !.outbound = o].lost = u.lost
         /\ [u EXCEPT !.alive = FALSE, !.outbound = o].outbound = o
BY DEF Tuis, SameLink

\* What is sent on a channel that is not full is its last item.
LEMMA TrySendLast ==
  ASSUME NEW q \in Seq(Outbounds), NEW item \in Outbounds, NEW cap \in Nat, cap > 0, Len(q) <= cap
  PROVE  \/ Len(q) >= cap /\ TrySend(q, item, cap) = q /\ q # <<>>
         \/ ~(Len(q) >= cap) /\ TrySend(q, item, cap) = Append(q, item)
BY DEF TrySend

\* Every step changes each TUI in one of the ways of TuiStep.
LEMMA TuiSteps ==
  ASSUME BrokerTypes, [Next]_vars
  PROVE  \A s \in Sessions : TuiStep(s)
<1>1. tuis \in [Sessions -> Tuis]
  BY DEF BrokerTypes, TypeOK
<1>2. [type |-> "Publish"] \in Outbounds /\ OutCap \in Nat /\ OutCap > 0
  BY Bounds DEF Outbounds
<1>3. ASSUME NEW s \in Sessions, tuis'[s] = tuis[s]
      PROVE  TuiStep(s)
  BY <1>3 DEF TuiStep, SameLink, SameNews
<1>4. ASSUME NEW s \in Sessions, NEW t, tuis' = [tuis EXCEPT ![s] = t]
      PROVE  tuis'[s] = t /\ \A x \in Sessions : x # s => TuiStep(x)
  BY <1>1, <1>3, <1>4
<1>5. ASSUME NEW s \in Sessions, PublishSnapshot(s)
      PROVE  \A x \in Sessions : TuiStep(x)
  <2> DEFINE o == TrySend(tuis[s].outbound, [type |-> "Publish"], OutCap)
             l == Len(tuis[s].outbound) >= OutCap
             v == tuis[s].version + 1
             t == [tuis[s] EXCEPT !.version = v, !.outbound = o, !.lost = l]
  <2>1. o \in Seq(Outbounds) /\ (l \/ o = Append(tuis[s].outbound, [type |-> "Publish"]))
    <3> DEFINE item == [type |-> "Publish"]
    <3>1. item \in Outbounds /\ tuis[s].outbound \in Seq(Outbounds) /\ Len(tuis[s].outbound) <= OutCap
      BY <1>2, TuiTypes
    <3> HIDE DEF item
    <3>2. TrySend(tuis[s].outbound, item, OutCap) \in Seq(Outbounds)
      BY <1>2, <3>1, TrySendType
    <3>3. Len(tuis[s].outbound) >= OutCap \/ TrySend(tuis[s].outbound, item, OutCap) = Append(tuis[s].outbound, item)
      BY <1>2, <3>1, TrySendLast
    <3> QED BY <3>2, <3>3 DEF item
  <2>2. tuis[s].version \in Versions /\ tuis[s].version < MaxVersion
    BY <1>5, TuiTypes DEF PublishSnapshot
  <2>3. v \in Versions /\ l \in BOOLEAN
    BY <2>2, Bounds DEF Versions
  <2>4. tuis' = [tuis EXCEPT ![s] = t] /\ conns' = conns /\ registry' = registry
    BY <1>5 DEF PublishSnapshot, daemon
  <2> HIDE DEF o, l, v
  <2>5. SameLink(tuis[s], t) /\ t.outbound = o /\ t.lost = l
    <3>1. Told(tuis[s], t, v, l, o)
      BY <1>1, <2>1, <2>3, PublishUpdate
    <3> QED BY <3>1 DEF Told
  <2> HIDE DEF t
  <2>6. Queued(tuis[s], t)
    BY <1>2, <2>1, <2>5 DEF Queued
  <2> QED BY <1>4, <2>4, <2>5, <2>6 DEF TuiStep
<1>6. ASSUME NEW s \in Sessions, NEW v \in Versions, ApplySessionRequest(s, v)
      PROVE  \A x \in Sessions : TuiStep(x)
  <2> DEFINE r == [type |-> "Response", id |-> Head(tuis[s].requests).id, boot |-> Head(tuis[s].requests).boot, v |-> v]
             o == TrySend(tuis[s].outbound, r, OutCap)
             l == Len(tuis[s].outbound) >= OutCap
             q == Tail(tuis[s].requests)
             t == [tuis[s] EXCEPT !.version = v, !.requests = q, !.outbound = o, !.lost = l]
  <2>1. tuis[s].requests # <<>> /\ tuis[s].requests \in Seq(Commands)
    BY <1>6, TuiTypes DEF ApplySessionRequest
  <2>2. Head(tuis[s].requests) \in Commands /\ q \in Seq(Commands)
    BY <2>1
  <2>3. r \in Outbounds /\ r.v = v
    BY <2>2 DEF Outbounds, Commands
  <2>4. tuis' = [tuis EXCEPT ![s] = t] /\ conns' = conns /\ registry' = registry
    BY <1>6 DEF ApplySessionRequest, StoredVersion, daemon
  <2> HIDE DEF r
  <2>5. o \in Seq(Outbounds) /\ (l \/ o = Append(tuis[s].outbound, r)) /\ l \in BOOLEAN
    BY <1>2, <2>3, TuiTypes, TrySendType, TrySendLast
  <2> HIDE DEF o, l, q
  <2>6. SameLink(tuis[s], t) /\ t.outbound = o /\ t.lost = l /\ t.version = v
    <3>1. Told(tuis[s], t, v, l, o)
      BY <1>1, <2>2, <2>5, AnswerUpdate
    <3> QED BY <3>1 DEF Told
  <2> HIDE DEF t
  <2>7. Queued(tuis[s], t)
    BY <2>3, <2>5, <2>6 DEF Queued
  <2> QED BY <1>4, <2>4, <2>6, <2>7 DEF TuiStep
<1>7. ASSUME NEW s \in Sessions, QuitTui(s)
      PROVE  \A x \in Sessions : TuiStep(x)
  <2> DEFINE o == TrySend(tuis[s].outbound, [type |-> "Publish"], OutCap)
             t == [tuis[s] EXCEPT !.alive = FALSE, !.outbound = o]
  <2>1. /\ o \in Seq(Outbounds)
        /\ (o = tuis[s].outbound /\ o # <<>>) \/ o = Append(tuis[s].outbound, [type |-> "Publish"])
    <3> DEFINE item == [type |-> "Publish"]
    <3>1. item \in Outbounds /\ tuis[s].outbound \in Seq(Outbounds) /\ Len(tuis[s].outbound) <= OutCap
      BY <1>2, TuiTypes
    <3> HIDE DEF item
    <3>2. TrySend(tuis[s].outbound, item, OutCap) \in Seq(Outbounds)
      BY <1>2, <3>1, TrySendType
    <3>3. \/ TrySend(tuis[s].outbound, item, OutCap) = tuis[s].outbound /\ tuis[s].outbound # <<>>
          \/ TrySend(tuis[s].outbound, item, OutCap) = Append(tuis[s].outbound, item)
      BY <1>2, <3>1, TrySendLast
    <3> QED BY <3>2, <3>3 DEF item
  <2>2. tuis' = [tuis EXCEPT ![s] = t] /\ conns' = conns /\ registry' = registry
    BY <1>7 DEF QuitTui, daemon
  <2> HIDE DEF o
  <2>3. SameLink(tuis[s], t) /\ t.outbound = o /\ t.lost = tuis[s].lost /\ t.version = tuis[s].version
    BY <1>1, <2>1, QuitUpdate
  <2> HIDE DEF t
  <2>4. Queued(tuis[s], t)
    BY <1>2, <2>1, <2>3 DEF Queued, SameNews
  <2> QED BY <1>4, <2>2, <2>3, <2>4 DEF TuiStep
<1>8. ASSUME NEW s \in Sessions, KillTui(s)
      PROVE  \A x \in Sessions : TuiStep(x)
  <2>1. tuis' = [tuis EXCEPT ![s] = [tuis[s] EXCEPT !.alive = FALSE, !.phase = "exited"]]
    BY <1>8 DEF KillTui
  <2> QED BY <1>1, <1>4, <2>1, DeathUpdate DEF TuiStep
<1>9. ASSUME NEW s \in Sessions, ReadAck(s) \/ StopThread(s)
      PROVE  \A x \in Sessions : TuiStep(x)
  <2>1. PICK p \in Phases : /\ tuis' = [tuis EXCEPT ![s] = [tuis[s] EXCEPT !.phase = p]]
                            /\ (ReadAck(s) /\ p = "connected") \/ p = "exited"
    BY <1>1, <1>9 DEF ReadAck, StopThread, Phases
  <2>2. tuis'[s] = [tuis[s] EXCEPT !.phase = p] /\ \A x \in Sessions : x # s => TuiStep(x)
    BY <1>4, <2>1
  <2>3. SameNews(tuis[s], tuis'[s]) /\ tuis'[s].conn = tuis[s].conn /\ tuis'[s].phase = p
    <3>1. Moved(tuis[s], tuis'[s], p, tuis[s].conn)
      BY <1>1, <2>2, MoveUpdate
    <3> QED BY <3>1 DEF Moved
  <2> QED BY <2>1, <2>2, <2>3 DEF TuiStep
<1>10. ASSUME NEW s \in Sessions, Disconnected(s)
       PROVE  \A x \in Sessions : TuiStep(x)
  <2>1. tuis' = [tuis EXCEPT ![s] = [tuis[s] EXCEPT !.phase = "disconnected", !.conn = None]]
        /\ "disconnected" \in Phases
    BY <1>10 DEF Disconnected, Phases
  <2>2. tuis'[s] = [tuis[s] EXCEPT !.phase = "disconnected", !.conn = None] /\ \A x \in Sessions : x # s => TuiStep(x)
    BY <1>4, <2>1
  <2>3. SameNews(tuis[s], tuis'[s]) /\ tuis'[s].conn = None /\ tuis'[s].phase = "disconnected"
    <3>1. Moved(tuis[s], tuis'[s], "disconnected", None)
      BY <1>1, <2>1, <2>2, LinkUpdate
    <3> QED BY <3>1 DEF Moved
  <2> QED BY <2>2, <2>3 DEF TuiStep
<1>11. ASSUME NEW s \in Sessions, NEW c \in Conns, Connect(s, c)
       PROVE  \A x \in Sessions : TuiStep(x)
  <2>1. tuis' = [tuis EXCEPT ![s] = [tuis[s] EXCEPT !.phase = "registering", !.conn = c]] /\ "registering" \in Phases
    BY <1>11 DEF Connect, Phases
  <2>2. tuis'[s] = [tuis[s] EXCEPT !.phase = "registering", !.conn = c] /\ \A x \in Sessions : x # s => TuiStep(x)
    BY <1>4, <2>1
  <2>3. SameNews(tuis[s], tuis'[s]) /\ tuis'[s].conn = c /\ tuis'[s].phase = "registering"
    <3>1. Moved(tuis[s], tuis'[s], "registering", c)
      BY <1>1, <2>1, <2>2, LinkUpdate
    <3> QED BY <3>1 DEF Moved
  <2> QED BY <1>11, <2>2, <2>3 DEF TuiStep
<1>12. ASSUME NEW s \in Sessions, WriteOutbound(s)
       PROVE  \A x \in Sessions : TuiStep(x)
  <2> DEFINE o == Tail(tuis[s].outbound)
  <2>1. tuis' = [tuis EXCEPT ![s] = [tuis[s] EXCEPT !.outbound = o]]
    BY <1>1, <1>12 DEF WriteOutbound
  <2>2. tuis[s].outbound # <<>> /\ tuis[s].outbound \in Seq(Outbounds)
    BY <1>12, TuiTypes DEF WriteOutbound
  <2>3. o \in Seq(Outbounds)
    BY <2>2
  <2> HIDE DEF o
  <2>4. tuis'[s] = [tuis[s] EXCEPT !.outbound = o] /\ \A x \in Sessions : x # s => TuiStep(x)
    BY <1>4, <2>1
  <2>5. SameLink(tuis[s], tuis'[s]) /\ tuis'[s].version = tuis[s].version /\ tuis'[s].lost = tuis[s].lost
        /\ tuis'[s].outbound = o
    BY <1>1, <2>3, <2>4, WriteUpdate
  <2> QED BY <1>12, <2>4, <2>5 DEF TuiStep, o
<1>13. ASSUME NEW s \in Sessions, ReadFrame(s)
       PROVE  \A x \in Sessions : TuiStep(x)
  <2> DEFINE frame == Head(Current(s).down)
             q == Append(tuis[s].requests, frame)
  <2>1. Current(s).down \in Seq(ServerFrames) /\ Current(s).down # <<>>
    BY <1>13, CurrentTypes, ConnTypes DEF ReadFrame, CanWrite, Current
  <2>2. frame \in ServerFrames
    BY <2>1
  <2>3. frame.type = "Command" => frame \in Commands
    <3> HIDE DEF frame
    <3> QED BY <2>2 DEF ServerFrames
  <2>4. tuis' = tuis \/ (frame.type = "Command" /\ tuis' = [tuis EXCEPT ![s] = [tuis[s] EXCEPT !.requests = q]])
    BY <1>13 DEF ReadFrame
  <2>5. frame \in Commands => q \in Seq(Commands)
    <3> HIDE DEF frame
    <3> QED BY TuiTypes
  <2> HIDE DEF frame, q
  <2>6. CASE tuis' = tuis
    BY <1>3, <2>6
  <2>7. CASE q \in Seq(Commands) /\ tuis' = [tuis EXCEPT ![s] = [tuis[s] EXCEPT !.requests = q]]
    <3>1. tuis'[s] = [tuis[s] EXCEPT !.requests = q] /\ \A x \in Sessions : x # s => TuiStep(x)
      BY <1>4, <2>7
    <3>2. SameLink(tuis[s], tuis'[s]) /\ SameNews(tuis[s], tuis'[s])
      BY <1>1, <2>7, <3>1, QuietUpdates
    <3> QED BY <3>1, <3>2 DEF TuiStep
  <2> QED BY <2>3, <2>4, <2>5, <2>6, <2>7
<1>14. ASSUME NEW c \in Conns, ServeRegister(c)
       PROVE  \A x \in Sessions : TuiStep(x)
  <2> DEFINE s == conns[c].sid
  <2>1. s \in Sessions /\ tuis' = [tuis EXCEPT ![s] = [tuis[s] EXCEPT !.pruned = FALSE]]
    BY <1>14, ConnTypes DEF ServeRegister
  <2> HIDE DEF s
  <2>2. tuis'[s] = [tuis[s] EXCEPT !.pruned = FALSE] /\ \A x \in Sessions : x # s => TuiStep(x)
    BY <1>4, <2>1
  <2>3. FALSE \in BOOLEAN /\ <<>> \in Seq(Commands)
    OBVIOUS
  <2>4. SameLink(tuis[s], tuis'[s]) /\ SameNews(tuis[s], tuis'[s])
    BY <1>1, <2>1, <2>2, <2>3, QuietUpdates
  <2> QED BY <2>2, <2>4 DEF TuiStep
<1>15. ASSUME PruneStale
       PROVE  \A x \in Sessions : TuiStep(x)
  <2> DEFINE r(s) == tuis[s].pruned \/ s \in Stale
  <2>1. tuis' = [s \in Sessions |-> [tuis[s] EXCEPT !.pruned = r(s)]]
    BY <1>15 DEF PruneStale
  <2>2. \A s \in Sessions : r(s) \in BOOLEAN
    BY TuiTypes
  <2> HIDE DEF r
  <2>3. <<>> \in Seq(Commands)
    OBVIOUS
  <2>4. ASSUME NEW s \in Sessions
        PROVE  SameLink(tuis[s], [tuis[s] EXCEPT !.pruned = r(s)]) /\ SameNews(tuis[s], [tuis[s] EXCEPT !.pruned = r(s)])
    BY <1>1, <2>2, <2>3, QuietUpdates
  <2> QED BY <2>1, <2>4 DEF TuiStep
<1>16. TuiActions
  BY TuiActing
<1> QED BY <1>3, <1>5, <1>6, <1>7, <1>8, <1>9, <1>10, <1>11, <1>12, <1>13, <1>14, <1>15, <1>16 DEF TuiActions

\* Only pruning marks a TUI as pruned and only a registration takes the mark away.
SamePruned(x, y) == y.pruned = x.pruned

\* No change of a TUI but pruning touches its pruned flag.
LEMMA PrunedKept ==
  ASSUME NEW u \in Tuis
  PROVE  /\ \A v, o, l : SamePruned(u, [u EXCEPT !.version = v, !.outbound = o, !.lost = l])
         /\ \A v, q, o, l : SamePruned(u, [u EXCEPT !.version = v, !.requests = q, !.outbound = o, !.lost = l])
         /\ \A o : SamePruned(u, [u EXCEPT !.alive = FALSE, !.outbound = o])
         /\ SamePruned(u, [u EXCEPT !.alive = FALSE, !.phase = "exited"])
         /\ \A p : SamePruned(u, [u EXCEPT !.phase = p])
         /\ \A p, c : SamePruned(u, [u EXCEPT !.phase = p, !.conn = c])
         /\ \A o : SamePruned(u, [u EXCEPT !.outbound = o])
         /\ \A q : SamePruned(u, [u EXCEPT !.requests = q])
BY DEF Tuis, SamePruned

\* Only PruneStale prunes, and only stale entries.
LEMMA PrunedSteps ==
  ASSUME BrokerTypes, [Next]_vars
  PROVE  /\ PruneStale => \A s \in Sessions : tuis'[s].pruned = (tuis[s].pruned \/ s \in Stale)
         /\ \/ PruneStale
            \/ \A s \in Sessions : tuis'[s].pruned = tuis[s].pruned
            \/ \E c \in Conns : ServeRegister(c) /\ \A s \in Sessions : s # conns[c].sid => tuis'[s].pruned = tuis[s].pruned
<1>1. tuis \in [Sessions -> Tuis]
  BY DEF BrokerTypes, TypeOK
<1>2. ASSUME NEW s \in Sessions, NEW t, tuis' = [tuis EXCEPT ![s] = t], SamePruned(tuis[s], t)
      PROVE  \A x \in Sessions : tuis'[x].pruned = tuis[x].pruned
  BY <1>1, <1>2 DEF SamePruned
<1>3. ASSUME NEW s \in Sessions,
             \/ PublishSnapshot(s) \/ QuitTui(s) \/ KillTui(s) \/ ReadAck(s) \/ Disconnected(s)
             \/ WriteOutbound(s) \/ ReadFrame(s) \/ StopThread(s)
             \/ (\E v \in Versions : ApplySessionRequest(s, v)) \/ (\E c \in Conns : Connect(s, c))
      PROVE  tuis' = tuis \/ \E t : tuis' = [tuis EXCEPT ![s] = t] /\ SamePruned(tuis[s], t)
  <2>1. CASE PublishSnapshot(s)
    <3>1. PICK v, o, l : tuis' = [tuis EXCEPT ![s] = [tuis[s] EXCEPT !.version = v, !.outbound = o, !.lost = l]]
      BY <1>1, <2>1 DEF PublishSnapshot
    <3>2. tuis[s] \in Tuis
      BY <1>1
    <3>3. SamePruned(tuis[s], [tuis[s] EXCEPT !.version = v, !.outbound = o, !.lost = l])
      BY ONLY <3>2, PrunedKept
    <3> QED BY <3>1, <3>3
  <2>2. CASE QuitTui(s)
    BY <1>1, <2>2, PrunedKept DEF QuitTui
  <2>3. CASE KillTui(s)
    BY <1>1, <2>3, PrunedKept DEF KillTui
  <2>4. CASE ReadAck(s) \/ StopThread(s)
    BY <1>1, <2>4, PrunedKept DEF ReadAck, StopThread
  <2>5. CASE Disconnected(s)
    <3>1. \E p, c : tuis' = [tuis EXCEPT ![s] = [tuis[s] EXCEPT !.phase = p, !.conn = c]]
      BY <1>1, <2>5 DEF Disconnected
    <3> QED BY <1>1, <3>1, PrunedKept
  <2>6. CASE WriteOutbound(s)
    BY <1>1, <2>6, PrunedKept DEF WriteOutbound
  <2>7. CASE ReadFrame(s)
    <3>1. tuis' = tuis \/ \E q : tuis' = [tuis EXCEPT ![s] = [tuis[s] EXCEPT !.requests = q]]
      BY <1>1, <2>7 DEF ReadFrame
    <3> QED BY <1>1, <3>1, PrunedKept
  <2>8. CASE \E v \in Versions : ApplySessionRequest(s, v)
    <3>1. PICK v, q, o, l : tuis' = [tuis EXCEPT ![s] = [tuis[s] EXCEPT !.version = v, !.requests = q, !.outbound = o, !.lost = l]]
      BY <1>1, <2>8 DEF ApplySessionRequest
    <3>2. tuis[s] \in Tuis
      BY <1>1
    <3>3. SamePruned(tuis[s], [tuis[s] EXCEPT !.version = v, !.requests = q, !.outbound = o, !.lost = l])
      BY ONLY <3>2, PrunedKept
    <3> QED BY <3>1, <3>3
  <2>9. CASE \E c \in Conns : Connect(s, c)
    <3>1. \E p, c : tuis' = [tuis EXCEPT ![s] = [tuis[s] EXCEPT !.phase = p, !.conn = c]]
      BY <1>1, <2>9 DEF Connect
    <3> QED BY <1>1, <3>1, PrunedKept
  <2> QED BY <1>3, <2>1, <2>2, <2>3, <2>4, <2>5, <2>6, <2>7, <2>8, <2>9
<1>4. ASSUME NEW c \in Conns, ServeRegister(c)
      PROVE  \A s \in Sessions : s # conns[c].sid => tuis'[s].pruned = tuis[s].pruned
  BY <1>1, <1>4 DEF ServeRegister
<1>5. ASSUME PruneStale
      PROVE  \A s \in Sessions : tuis'[s].pruned = (tuis[s].pruned \/ s \in Stale)
  <2> DEFINE r(s) == tuis[s].pruned \/ s \in Stale
  <2>1. tuis' = [s \in Sessions |-> [tuis[s] EXCEPT !.pruned = r(s)]]
    BY <1>5 DEF PruneStale
  <2>2. \A s \in Sessions : tuis[s] \in Tuis
    BY <1>1
  <2> HIDE DEF r
  <2>3. \A s \in Sessions : tuis'[s].pruned = r(s)
    BY <2>1, <2>2 DEF Tuis
  <2> QED BY <2>3 DEF r
<1>6. TuiActions
  BY TuiActing
<1> QED BY <1>2, <1>3, <1>4, <1>5, <1>6 DEF TuiActions

-----------------------------------------------------------------------------
\* What the states of the callers are.
LEMMA CallerTypes ==
  ASSUME BrokerTypes, NEW k \in Callers
  PROVE  /\ callers \in [Callers -> CallerStates] /\ callers[k] \in CallerStates
         /\ callers[k].pc \in {"idle", "waiting", "cleanup", "done"}
         /\ callers[k].pc \in {"waiting", "cleanup"} => callers[k].sid \in Sessions
<1>1. callers \in [Callers -> CallerStates] /\ callers[k] \in CallerStates
  BY DEF BrokerTypes, TypeOK
<1> QED BY <1>1 DEF CallerStates, BrokerTypes, CallerKnows

\* A caller whose request is answered.
LEMMA CallerAnswered ==
  ASSUME NEW x \in CallerStates, NEW r \in [id : RequestIds, boot : Boots]
  PROVE  /\ [x EXCEPT !.reply = r] \in CallerStates /\ [x EXCEPT !.reply = r].pc = x.pc
         /\ [x EXCEPT !.reply = r].sid = x.sid /\ [x EXCEPT !.reply = r].reply = r
         /\ [x EXCEPT !.reply = r].id = x.id /\ [x EXCEPT !.reply = r].boot = x.boot
BY DEF CallerStates

\* A caller moves on with the answer it has.
LEMMA CallerMoves ==
  ASSUME NEW x \in CallerStates, NEW p \in {"cleanup", "done"}
  PROVE  /\ [x EXCEPT !.pc = p] \in CallerStates /\ [x EXCEPT !.pc = p].pc = p
         /\ [x EXCEPT !.pc = p].sid = x.sid /\ [x EXCEPT !.pc = p].reply = x.reply
         /\ [x EXCEPT !.pc = p].id = x.id /\ [x EXCEPT !.pc = p].boot = x.boot
         /\ [x EXCEPT !.pc = p].generation = x.generation
BY DEF CallerStates

\* An idle caller waits for nothing.
LEMMA CallerIdle == IdleCaller \in CallerStates /\ IdleCaller.pc = "idle" /\ IdleCaller.reply = None
BY DEF IdleCaller, CallerStates

\* A thread delivers an answer.
Delivers(c, frame) ==
  LET s == conns[c].sid
      r == [id |-> frame.id, boot |-> frame.boot]
  IN  /\ OwnsEntry(c) /\ r \in [id : RequestIds, boot : Boots]
      /\ registry'[s].pending = registry[s].pending \ PendingFor(s, frame)
      /\ callers' = [k \in Callers |-> IF k \in PendingFor(s, frame) THEN [callers[k] EXCEPT !.reply = r] ELSE callers[k]]

\* A served frame delivers at most one answer.
LEMMA DeliverStep ==
  ASSUME BrokerTypes, NEW c \in Conns, ServeFrame(c)
  PROVE  callers' = callers \/ Delivers(c, Head(conns[c].up))
<1> DEFINE frame == Head(conns[c].up)
           s == conns[c].sid
<1>1. conns[c] # None /\ conns[c].up # <<>>
  BY DEF ServeFrame
<1>2. s \in Sessions /\ conns[c].up \in Seq(ClientFrames)
  BY <1>1, ConnTypes
<1>3. frame \in ClientFrames
  BY <1>1, <1>2
<1>4. callers' = callers \/ (frame.type = "Result" /\ CompleteCommand(c, frame))
  BY DEF ServeFrame, ServeEnds
<1>5. CASE frame.type = "Result" /\ CompleteCommand(c, frame) /\ OwnsEntry(c)
  <2> HIDE DEF frame
  <2>1. frame.id \in RequestIds /\ frame.boot \in Boots
    BY <1>3, <1>5 DEF ClientFrames
  <2>2. Registered(s) /\ registry[s] \in Entries /\ registry \in [Sessions -> Entries \cup {None}]
    BY <1>2, <1>5, EntryTypes DEF OwnsEntry
  <2>3. callers' = [k \in Callers |-> IF k \in PendingFor(s, frame)
                       THEN [callers[k] EXCEPT !.reply = [id |-> frame.id, boot |-> frame.boot]] ELSE callers[k]]
    BY <1>5 DEF CompleteCommand
  <2> DEFINE p == registry[s].pending \ PendingFor(s, frame)
             v == frame.v
             y == [registry[s] EXCEPT !.snapshot = v, !.stale = FALSE, !.pending = p]
  <2>4. registry' = [registry EXCEPT ![s] = y]
    BY <1>5 DEF CompleteCommand
  <2> HIDE DEF p, v, s
  <2>5. y.pending = p
    BY <2>2 DEF Entries
  <2> HIDE DEF y
  <2>6. registry'[s].pending = p
    BY <1>2, <2>2, <2>4, <2>5
  <2>7. [id |-> frame.id, boot |-> frame.boot] \in [id : RequestIds, boot : Boots]
    BY <2>1
  <2> QED BY <1>5, <2>3, <2>6, <2>7, Zenon DEF Delivers, p, s, frame
<1> QED BY <1>4, <1>5 DEF CompleteCommand

\* Every step on the callers is one of these.
LEMMA CallerSteps ==
  ASSUME BrokerTypes, [Next]_vars
  PROVE  \/ callers' = callers
         \/ \E c \in Conns : ServeFrame(c) /\ Delivers(c, Head(conns[c].up))
         \/ \E k \in Callers, s \in Sessions : Dispatch(k, s)
         \/ \E k \in Callers : ReceiveAnswer(k) \/ ReceiveTimesOut(k) \/ Cleanup(k)
         \/ DaemonExits
<1>1. ASSUME NEW s \in Sessions, Tui(s) \/ RegistrationThread(s)
      PROVE  callers' = callers
  BY <1>1 DEF Tui, PublishSnapshot, ApplySessionRequest, QuitTui, KillTui, RegistrationThread, Connect, ReadAck,
       AckTimesOut, ConnectionLost, WriteOutbound, WritePing, ReadFrame, StopThread
<1>2. ASSUME NEW c \in Conns, ConnectionThread(c)
      PROVE  callers' = callers \/ (ServeFrame(c) /\ Delivers(c, Head(conns[c].up)))
  BY <1>2, DeliverStep DEF ConnectionThread, ServeRegister, ServeAck, ServeAckFails, ServeCloneFails, ServeEof, ServeEnds
<1>3. ASSUME AcceptLoop
      PROVE  callers' = callers \/ DaemonExits
  BY <1>3 DEF AcceptLoop, TtlPasses, PruneStale, DaemonStarts
<1> QED BY <1>1, <1>2, <1>3 DEF Next, vars, Caller

\* Every step keeps the types of the callers,
LEMMA CallersKept ==
  ASSUME BrokerTypes, [Next]_vars
  PROVE  /\ callers' \in [Callers -> CallerStates]
         /\ \A k \in Callers : callers'[k].pc \in {"waiting", "cleanup"} => callers'[k].sid \in Sessions
<1>1. /\ callers \in [Callers -> CallerStates]
      /\ \A k \in Callers : callers[k].pc \in {"waiting", "cleanup"} => callers[k].sid \in Sessions
  BY DEF BrokerTypes, TypeOK, CallerKnows
<1>2. ASSUME NEW k \in Callers, NEW x \in CallerStates, callers' = [callers EXCEPT ![k] = x],
             x.pc \in {"waiting", "cleanup"} => x.sid \in Sessions
      PROVE  /\ callers' \in [Callers -> CallerStates]
             /\ \A j \in Callers : callers'[j].pc \in {"waiting", "cleanup"} => callers'[j].sid \in Sessions
  BY <1>1, <1>2
<1>3. ASSUME NEW c \in Conns, Delivers(c, Head(conns[c].up))
      PROVE  /\ callers' \in [Callers -> CallerStates]
             /\ \A j \in Callers : callers'[j].pc \in {"waiting", "cleanup"} => callers'[j].sid \in Sessions
  <2> DEFINE frame == Head(conns[c].up)
             w == PendingFor(conns[c].sid, frame)
             r == [id |-> frame.id, boot |-> frame.boot]
  <2>1. r \in [id : RequestIds, boot : Boots]
        /\ callers' = [k \in Callers |-> IF k \in w THEN [callers[k] EXCEPT !.reply = r] ELSE callers[k]]
    BY <1>3 DEF Delivers
  <2> HIDE DEF r, w
  <2>2. ASSUME NEW k \in Callers
        PROVE  callers'[k] \in CallerStates /\ (callers'[k].pc \in {"waiting", "cleanup"} => callers'[k].sid \in Sessions)
    <3>1. callers'[k] = [callers[k] EXCEPT !.reply = r] \/ callers'[k] = callers[k]
      BY <2>1
    <3>2. callers[k] \in CallerStates
      BY <1>1
    <3>3. /\ [callers[k] EXCEPT !.reply = r] \in CallerStates
          /\ [callers[k] EXCEPT !.reply = r].pc = callers[k].pc /\ [callers[k] EXCEPT !.reply = r].sid = callers[k].sid
      BY <2>1, <3>2, CallerAnswered
    <3> QED BY <1>1, <3>1, <3>2, <3>3
  <2>3. callers' = [k \in Callers |-> callers'[k]]
    BY <2>1
  <2> QED BY <2>2, <2>3
<1>4. ASSUME NEW k \in Callers, NEW s \in Sessions, Dispatch(k, s)
      PROVE  \E x \in CallerStates : callers' = [callers EXCEPT ![k] = x] /\ (x.pc \in {"waiting", "cleanup"} => x.sid \in Sessions)
  <2> DEFINE g == registry[s].generation
             i == requestId + 1
             x == [pc |-> "waiting", sid |-> s, generation |-> g, id |-> i, boot |-> boot, reply |-> None]
  <2>1. callers' = [callers EXCEPT ![k] = x] \/ callers' = [callers EXCEPT ![k] = IdleCaller]
    BY <1>4 DEF Dispatch
  <2>2. Registered(s) /\ requestId < MaxRequests /\ requestId \in 0..MaxRequests /\ boot \in Boots
    BY <1>4 DEF Dispatch, BrokerTypes, TypeOK
  <2>3. g \in Nat /\ i \in RequestIds
    BY <2>2, EntryTypes, Bounds DEF RequestIds
  <2> HIDE DEF g, i
  <2>4. x \in CallerStates /\ x.sid = s
    BY <2>2, <2>3 DEF CallerStates
  <2> HIDE DEF x
  <2> QED BY <2>1, <2>4, CallerIdle
<1>5. ASSUME NEW k \in Callers, ReceiveAnswer(k) \/ ReceiveTimesOut(k) \/ Cleanup(k)
      PROVE  \E x \in CallerStates : callers' = [callers EXCEPT ![k] = x] /\ (x.pc \in {"waiting", "cleanup"} => x.sid \in Sessions)
  <2>1. CASE Cleanup(k)
    BY <2>1, CallerIdle DEF Cleanup
  <2>2. CASE ReceiveAnswer(k) \/ ReceiveTimesOut(k)
    <3>1. PICK p \in {"cleanup", "done"} : callers' = [callers EXCEPT ![k] = [callers[k] EXCEPT !.pc = p]]
      BY <1>1, <2>2 DEF ReceiveAnswer, ReceiveTimesOut
    <3>2. callers[k] \in CallerStates /\ callers[k].sid \in Sessions
      BY <1>1, <2>2 DEF ReceiveAnswer, ReceiveTimesOut
    <3>3. [callers[k] EXCEPT !.pc = p] \in CallerStates /\ [callers[k] EXCEPT !.pc = p].sid = callers[k].sid
      BY <3>1, <3>2, CallerMoves
    <3> QED BY <3>1, <3>2, <3>3
  <2> QED BY <1>5, <2>1, <2>2
<1>6. CASE DaemonExits
  BY <1>6, CallerIdle DEF DaemonExits
<1>7. CASE callers' = callers
  BY <1>1, <1>7
<1> QED BY <1>2, <1>3, <1>4, <1>5, <1>6, <1>7, CallerSteps

\* A new registration.
LEMMA RegisterEntry ==
  ASSUME BrokerTypes, NEW c \in Conns, ServeRegister(c)
  PROVE  \E y \in Entries :
           /\ y.conn = c /\ y.generation = generation + 1 /\ y.pending = {} /\ y.snapshot = Head(conns[c].up).v
           /\ registry' = [registry EXCEPT ![conns[c].sid] = y]
<1> DEFINE g == generation + 1
           v == Head(conns[c].up).v
           y == [generation |-> g, conn |-> c, snapshot |-> v, pending |-> {}, stale |-> FALSE]
<1>1. g \in Nat /\ v \in Versions
  <2>1. generation \in Nat
    BY DEF BrokerTypes, TypeOK
  <2>2. v \in Versions
    BY RegisterOnConn
  <2> QED BY <2>1, <2>2
<1>2. registry' = [registry EXCEPT ![conns[c].sid] = y]
  BY DEF ServeRegister
<1> HIDE DEF g, v
<1>3. y \in Entries /\ y.conn = c /\ y.generation = g /\ y.pending = {} /\ y.snapshot = v
  BY <1>1 DEF Entries
<1> HIDE DEF y
<1> QED BY <1>2, <1>3 DEF g, v

\* and of the registry.
LEMMA RegistryKept ==
  ASSUME BrokerTypes, [Next]_vars
  PROVE  registry' \in [Sessions -> Entries \cup {None}]
<1>1. registry \in [Sessions -> Entries \cup {None}]
  BY DEF BrokerTypes, TypeOK
<1>2. CASE registry' = registry
  BY <1>1, <1>2
<1>3. CASE \E s \in Sessions : OneEntry(s)
  BY <1>1, <1>3 DEF OneEntry, EntryUpdate
<1>4. CASE \E c \in Conns : Served(c) /\ ServeFrame(c) /\ TakesOver(c, Head(conns[c].up).v)
  BY <1>1, <1>4, ConnTypes DEF TakesOver, EntryUpdate, Served
<1>5. CASE \E c \in Conns : Served(c) /\ Withdrawn(c) /\ conns'[c] # None /\ conns'[c].server = "closed"
  BY <1>1, <1>5, ConnTypes DEF Withdrawn, Served
<1>6. CASE \E c \in Conns : ServeRegister(c)
  BY <1>1, <1>6, RegisterEntry, RegisterOnConn, ConnTypes
<1>7. CASE \E k \in Callers, s \in Sessions : Dispatch(k, s) /\ Enters(k, s)
  BY <1>1, <1>7 DEF Enters
<1>8. CASE PruneStale
  BY <1>1, <1>8 DEF PruneStale
<1>9. CASE DaemonExits
  BY <1>9 DEF DaemonExits
<1> QED BY <1>2, <1>3, <1>4, <1>5, <1>6, <1>7, <1>8, <1>9, RegistrySteps DEF RegistryStep

\* The counters of the daemon.
LEMMA CountersKept ==
  ASSUME BrokerTypes, [Next]_vars
  PROVE  /\ up' \in BOOLEAN /\ boot' \in Boots /\ generation' \in Nat /\ requestId' \in 0..MaxRequests
         /\ ~up' => boot' < MaxBoots
         /\ \/ up' = up /\ generation' = generation
            \/ up' = up /\ \E c \in Conns : ServeRegister(c) /\ generation' = generation + 1
            \/ DaemonExits /\ ~up' /\ generation' = generation
            \/ DaemonStarts /\ ~up /\ up' /\ generation' = 0 /\ conns' = conns /\ registry' = registry
<1>1. /\ up \in BOOLEAN /\ boot \in Boots /\ generation \in Nat /\ requestId \in 0..MaxRequests
      /\ ~up => boot < MaxBoots
  BY DEF BrokerTypes, TypeOK, MayStart
<1>2. MaxBoots \in Nat /\ MaxRequests \in Nat
  BY Bounds
<1>3. CASE up' = up /\ boot' = boot /\ generation' = generation /\ requestId' = requestId
  BY <1>1, <1>3
<1>4. CASE \E k \in Callers, s \in Sessions : Dispatch(k, s)
  BY <1>1, <1>2, <1>4 DEF Dispatch
<1>5. CASE \E c \in Conns : ServeRegister(c)
  <2>1. PICK c \in Conns : ServeRegister(c)
    BY <1>5
  <2>2. up' = up /\ boot' = boot /\ generation' = generation + 1 /\ requestId' = requestId
    BY <2>1 DEF ServeRegister
  <2>3. generation' \in Nat
    BY <1>1, <2>2
  <2> QED BY <1>1, <2>1, <2>2, <2>3
<1>6. CASE DaemonExits
  <2>1. up' = FALSE /\ boot' = boot /\ generation' = generation /\ requestId' = requestId /\ boot < MaxBoots
    BY <1>6 DEF DaemonExits
  <2> QED BY <1>1, <1>6, <2>1
<1>7. CASE DaemonStarts
  <2>1. /\ ~up /\ up' = TRUE /\ boot' = boot + 1 /\ generation' = 0 /\ requestId' = 0
        /\ conns' = conns /\ registry' = registry
    BY <1>7 DEF DaemonStarts
  <2>2. boot' \in Boots /\ requestId' \in 0..MaxRequests /\ generation' \in Nat
    BY <1>1, <1>2, <2>1 DEF Boots
  <2> QED BY <1>7, <2>1, <2>2
<1>8. ASSUME NEW s \in Sessions, Tui(s) \/ RegistrationThread(s)
      PROVE  UNCHANGED daemon
  BY <1>8 DEF Tui, PublishSnapshot, ApplySessionRequest, QuitTui, KillTui, RegistrationThread, Connect, ReadAck,
       AckTimesOut, ConnectionLost, WriteOutbound, WritePing, ReadFrame, StopThread
<1>9. ASSUME NEW c \in Conns, ConnectionThread(c)
      PROVE  (up' = up /\ boot' = boot /\ generation' = generation /\ requestId' = requestId) \/ ServeRegister(c)
  BY <1>9 DEF ConnectionThread, ServeAck, ServeAckFails, ServeCloneFails, ServeFrame, ServeEof, daemon
<1>10. ASSUME AcceptLoop
       PROVE  (up' = up /\ boot' = boot /\ generation' = generation /\ requestId' = requestId) \/ DaemonExits \/ DaemonStarts
  BY <1>10 DEF AcceptLoop, TtlPasses, PruneStale
<1>11. ASSUME NEW k \in Callers, Caller(k)
       PROVE  \/ up' = up /\ boot' = boot /\ generation' = generation /\ requestId' = requestId
              \/ \E s \in Sessions : Dispatch(k, s)
  BY <1>11 DEF Caller, ReceiveAnswer, ReceiveTimesOut, Cleanup, daemon
<1>12. (\E s \in Sessions : Tui(s) \/ RegistrationThread(s)) =>
         up' = up /\ boot' = boot /\ generation' = generation /\ requestId' = requestId
  BY <1>8 DEF daemon
<1>13. UNCHANGED vars => up' = up /\ boot' = boot /\ generation' = generation /\ requestId' = requestId
  BY DEF vars
<1> QED BY <1>3, <1>4, <1>5, <1>6, <1>7, <1>9, <1>10, <1>11, <1>12, <1>13 DEF Next

\* Every step keeps the types.
LEMMA TypesKept ==
  ASSUME BrokerTypes, EntryOfConnection, [Next]_vars
  PROVE  BrokerTypes'
<1>1. TypeOK'
  BY TuisKept, ConnKeeps, RegistryKept, CallersKept, CountersKept DEF TypeOK, TuiFits
<1>2. FirstFrame'
  <2> SUFFICES ASSUME NEW c \in Conns, conns'[c] # None, conns'[c].server = "new"
               PROVE  \E v \in Versions : conns'[c].up = <<[type |-> "Register", v |-> v]>>
    BY DEF FirstFrame
  <2>1. CASE conns[c] = None
    BY <2>1, ConnKeeps
  <2>2. CASE conns[c] # None
    <3>1. conns'[c] = conns[c] \/ ConnUpdate(conns[c], conns'[c])
      BY <2>2, ConnKeeps
    <3>2. conns[c].server = "new" /\ conns'[c].up = conns[c].up
      BY <3>1 DEF ConnUpdate
    <3> QED BY <2>2, <3>2 DEF BrokerTypes, FirstFrame
  <2> QED BY <2>1, <2>2
<1>3. OwnConnection'
  <2> SUFFICES ASSUME NEW s \in Sessions
               PROVE  /\ tuis'[s].conn # None => conns'[tuis'[s].conn] # None /\ conns'[tuis'[s].conn].sid = s
                      /\ tuis'[s].phase \in {"registering", "connected"} => tuis'[s].conn # None
                      /\ tuis'[s].phase = "connected" => conns'[tuis'[s].conn].server \in {"open", "closed"}
    BY DEF OwnConnection
  <2>1. /\ tuis[s].conn \in Conns \cup {None}
        /\ tuis[s].conn # None => conns[tuis[s].conn] # None /\ conns[tuis[s].conn].sid = s
        /\ tuis[s].phase \in {"registering", "connected"} => tuis[s].conn # None
        /\ tuis[s].phase = "connected" => conns[tuis[s].conn].server \in {"open", "closed"}
    BY TuiTypes
  <2>2. ASSUME NEW c \in Conns, conns[c] # None
        PROVE  /\ conns'[c] # None /\ conns'[c].sid = conns[c].sid
               /\ conns[c].server \in {"open", "closed"} => conns'[c].server \in {"open", "closed"}
    BY <2>2, ConnKeeps, RegisterOnConn DEF ConnUpdate
  <2>3. CASE SameLink(tuis[s], tuis'[s])
    BY <2>1, <2>2, <2>3 DEF SameLink
  <2>4. CASE ReadAck(s) /\ tuis'[s].conn = tuis[s].conn /\ tuis'[s].phase = "connected"
    BY <2>1, <2>2, <2>4 DEF ReadAck, Current
  <2>5. CASE /\ tuis'[s].phase \in {"disconnected", "exited"} /\ tuis'[s].conn \in {tuis[s].conn, None}
    BY <2>1, <2>2, <2>5
  <2>6. CASE \E c \in Conns : Connect(s, c) /\ tuis'[s].conn = c /\ tuis'[s].phase = "registering"
    <3>1. PICK c \in Conns : Connect(s, c) /\ tuis'[s].conn = c /\ tuis'[s].phase = "registering"
      BY <2>6
    <3>2. PICK y \in Connections :
              /\ y.sid = s /\ y.generation = 0 /\ y.server = "new"
              /\ y.up = <<[type |-> "Register", v |-> tuis[s].version]>>
              /\ conns' = [conns EXCEPT ![c] = y]
      BY <3>1, ConnectOnConn
    <3>3. conns'[c] = y /\ y # None /\ c # None
      BY <3>2, BrokerAssumption DEF BrokerTypes, TypeOK
    <3> QED BY <3>1, <3>2, <3>3
  <2> QED BY <2>3, <2>4, <2>5, <2>6, TuiSteps DEF TuiStep
<1>4. CallerKnows' /\ MayStart'
  BY CallersKept, CountersKept DEF CallerKnows, MayStart
<1> QED BY <1>1, <1>2, <1>3, <1>4 DEF BrokerTypes

-----------------------------------------------------------------------------
\* A registration after a step was there before, or is new.
LEMMA EntrySteps ==
  ASSUME BrokerTypes, [Next]_vars, NEW s \in Sessions, registry'[s] # None
  PROVE  /\ ~DaemonExits
         /\ \/ /\ Registered(s) /\ registry'[s].conn = registry[s].conn
               /\ registry'[s].generation = registry[s].generation
            \/ \E c \in Conns : /\ ServeRegister(c) /\ conns[c].sid = s
                                /\ registry'[s].conn = c /\ registry'[s].generation = generation + 1
<1>1. registry \in [Sessions -> Entries \cup {None}]
  BY DEF BrokerTypes, TypeOK
<1>2. ~DaemonExits
  BY DEF DaemonExits
<1>3. CASE registry' = registry
  BY <1>2, <1>3 DEF Registered
<1>4. CASE \E x \in Sessions : OneEntry(x)
  <2>1. PICK x \in Sessions : OneEntry(x)
    BY <1>4
  <2>2. PICK y : EntryUpdate(registry[x], y) /\ registry' = [registry EXCEPT ![x] = y]
    BY <2>1 DEF OneEntry
  <2> QED BY <1>1, <1>2, <2>1, <2>2 DEF OneEntry, EntryUpdate, Registered
<1>5. CASE \E c \in Conns : Served(c) /\ ServeFrame(c) /\ TakesOver(c, Head(conns[c].up).v)
  <2>1. PICK c \in Conns : Served(c) /\ TakesOver(c, Head(conns[c].up).v)
    BY <1>5
  <2>2. PICK y : EntryUpdate(registry[conns[c].sid], y) /\ registry' = [registry EXCEPT ![conns[c].sid] = y]
    BY <2>1 DEF TakesOver
  <2>3. OwnsEntry(c)
    BY <2>1 DEF TakesOver
  <2> QED BY <1>1, <1>2, <2>2, <2>3 DEF EntryUpdate, Registered, OwnsEntry
<1>6. CASE \E c \in Conns : Served(c) /\ Withdrawn(c) /\ conns'[c] # None /\ conns'[c].server = "closed"
  BY <1>1, <1>2, <1>6 DEF Withdrawn, Registered
<1>7. CASE \E c \in Conns : ServeRegister(c)
  <2>1. PICK c \in Conns : ServeRegister(c)
    BY <1>7
  <2>2. PICK y \in Entries : y.conn = c /\ y.generation = generation + 1 /\ registry' = [registry EXCEPT ![conns[c].sid] = y]
    BY <2>1, RegisterEntry
  <2> QED BY <1>1, <1>2, <2>1, <2>2 DEF Registered
<1>8. CASE \E k \in Callers, x \in Sessions : Dispatch(k, x) /\ Enters(k, x)
  <2>1. PICK x \in Sessions, y \in Entries : y.conn = registry[x].conn /\ y.generation = registry[x].generation
                /\ registry' = [registry EXCEPT ![x] = y] /\ Registered(x)
    BY <1>8 DEF Enters
  <2> QED BY <1>1, <1>2, <2>1 DEF Registered
<1>9. CASE PruneStale
  BY <1>2, <1>9 DEF PruneStale, Registered
<1> QED BY <1>2, <1>3, <1>4, <1>5, <1>6, <1>7, <1>8, <1>9, RegistrySteps DEF RegistryStep

\* A registration disappears with the daemon, by pruning, or with its thread.
LEMMA EntryLeaves ==
  ASSUME BrokerTypes, [Next]_vars, NEW s \in Sessions, Registered(s), registry'[s] = None
  PROVE  \/ DaemonExits
         \/ PruneStale /\ s \in Stale
         \/ \E c \in Conns : /\ Served(c) /\ conns[c].sid = s /\ conns[c].generation = registry[s].generation
                             /\ conns'[c] # None /\ conns'[c].server = "closed"
<1>1. registry \in [Sessions -> Entries \cup {None}] /\ registry[s] # None /\ None \notin Entries
  BY BrokerAssumption DEF BrokerTypes, TypeOK, Registered
<1>2. CASE registry' = registry
  BY <1>1, <1>2
<1>3. CASE \E x \in Sessions : OneEntry(x)
  BY <1>1, <1>3 DEF OneEntry, EntryUpdate
<1>4. CASE \E c \in Conns : Served(c) /\ ServeFrame(c) /\ TakesOver(c, Head(conns[c].up).v)
  BY <1>1, <1>4 DEF TakesOver, EntryUpdate
<1>5. CASE \E c \in Conns : Served(c) /\ Withdrawn(c) /\ conns'[c] # None /\ conns'[c].server = "closed"
  BY <1>1, <1>5 DEF Withdrawn, OwnsEntry
<1>6. CASE \E c \in Conns : ServeRegister(c)
  <2>1. PICK c \in Conns : ServeRegister(c)
    BY <1>6
  <2>2. PICK y \in Entries : registry' = [registry EXCEPT ![conns[c].sid] = y]
    BY <2>1, RegisterEntry
  <2> QED BY <1>1, <2>2
<1>7. CASE \E k \in Callers, x \in Sessions : Dispatch(k, x) /\ Enters(k, x)
  <2>1. PICK x \in Sessions, y \in Entries : registry' = [registry EXCEPT ![x] = y]
    BY <1>7 DEF Enters
  <2> QED BY <1>1, <2>1
<1>8. CASE PruneStale
  BY <1>1, <1>8 DEF PruneStale
<1> QED BY <1>2, <1>3, <1>4, <1>5, <1>6, <1>7, <1>8, RegistrySteps DEF RegistryStep

\* Every entry keeps being of a connection of its session,
LEMMA EntryOfConnectionKept ==
  ASSUME BrokerTypes, EntryOfConnection, Generations, [Next]_vars
  PROVE  EntryOfConnection'
<1> SUFFICES ASSUME NEW s \in Sessions, registry'[s] # None
             PROVE  LET c == registry'[s].conn
                    IN  /\ conns'[c] # None /\ conns'[c].sid = s
                        /\ conns'[c].generation = registry'[s].generation /\ registry'[s].generation > 0
  BY DEF EntryOfConnection, Registered
<1>1. CASE Registered(s) /\ registry'[s].conn = registry[s].conn /\ registry'[s].generation = registry[s].generation
  <2> DEFINE c == registry[s].conn
  <2>1. c \in Conns /\ conns[c] # None /\ conns[c].sid = s /\ conns[c].generation = registry[s].generation
        /\ registry[s].generation > 0
    BY <1>1, EntryTypes DEF EntryOfConnection
  <2>2. ~ServeRegister(c)
    <3> HIDE DEF c
    <3>1. conns[c].generation # 0
      BY <2>1
    <3>2. conns[c].server # "new"
      BY <2>1, <3>1 DEF Generations
    <3> QED BY <2>1, <3>2, RegisterOnConn
  <2>3. ~DaemonExits
    BY EntrySteps
  <2>4. conns'[c] # None /\ conns'[c].sid = conns[c].sid /\ (conns'[c] = conns[c] \/ ConnUpdate(conns[c], conns'[c]))
    BY <2>1, <2>2, <2>3, ConnKeeps
  <2> HIDE DEF c
  <2>5. conns'[c].generation = conns[c].generation
    BY <2>4 DEF ConnUpdate
  <2> QED BY <1>1, <2>1, <2>4, <2>5 DEF c
<1>2. ASSUME NEW c \in Conns, ServeRegister(c), conns[c].sid = s, registry'[s].conn = c, registry'[s].generation = generation + 1
      PROVE  LET d == registry'[s].conn
             IN  /\ conns'[d] # None /\ conns'[d].sid = s
                 /\ conns'[d].generation = registry'[s].generation /\ registry'[s].generation > 0
  <2>1. conns[c] # None /\ conns[c].server = "new"
    BY <1>2, RegisterOnConn
  <2>2. generation \in Nat /\ conns \in [Conns -> Connections \cup {None}] /\ None \notin Connections
    BY BrokerAssumption DEF BrokerTypes, TypeOK
  <2>3. PICK y \in Connections :
              /\ y.sid = conns[c].sid /\ y.generation = generation + 1
              /\ y.server = "registered" /\ y.up = <<>>
              /\ conns' = [conns EXCEPT ![c] = y]
    BY <1>2, RegisterOnConn
  <2>4. conns'[c] = y /\ y # None
    BY <2>2, <2>3
  <2> QED BY <1>2, <2>2, <2>3, <2>4
<1> QED BY <1>1, <1>2, EntrySteps

\* generations keep being given out once and in order,
LEMMA GenerationsKept ==
  ASSUME BrokerTypes, EntryOfConnection, Generations, [Next]_vars
  PROVE  Generations'
<1>1. generation \in Nat /\ generation' \in Nat
  BY CountersKept DEF BrokerTypes, TypeOK
<1>2. \A c \in Conns : conns[c] # None => conns[c].generation \in Nat
  BY ConnTypes
<1>3. ASSUME NEW c \in Conns, conns'[c] # None
      PROVE  /\ \/ conns'[c].generation = 0
                \/ conns[c] # None /\ conns'[c].generation = conns[c].generation
                \/ ServeRegister(c) /\ conns'[c].generation = generation + 1
             /\ conns'[c].server = "new" => conns'[c].generation = 0
             /\ conns'[c].server \in {"registered", "open"} => conns'[c].generation > 0
  <2>1. CASE conns[c] = None
    BY <1>3, <2>1, ConnKeeps
  <2>2. CASE conns[c] # None /\ (conns'[c] = conns[c] \/ ConnUpdate(conns[c], conns'[c]))
    BY <2>2 DEF ConnUpdate, Generations
  <2>3. CASE ServeRegister(c) /\ conns'[c].server = "registered" /\ conns'[c].generation = generation + 1
    BY <1>1, <2>3
  <2>4. CASE conns'[c].generation = 0 /\ conns'[c].server = "closed"
    BY <2>4
  <2> QED BY <2>1, <2>2, <2>3, <2>4, ConnKeeps
<1>4. ASSUME NEW c \in Conns, ServeRegister(c)
      PROVE  /\ generation' = generation + 1
             /\ \A d \in Conns : d # c => conns'[d] = conns[d]
  <2>1. PICK y \in Connections : conns' = [conns EXCEPT ![c] = y]
    BY <1>4, RegisterOnConn
  <2>2. conns \in [Conns -> Connections \cup {None}]
    BY DEF BrokerTypes, TypeOK
  <2> QED BY <1>4, <2>1, <2>2, RegisterOnConn
<1>5. ASSUME NEW c \in Conns, conns'[c] # None
      PROVE  conns'[c].generation <= generation'
  <2>1. CASE DaemonStarts /\ ~up /\ generation' = 0 /\ conns' = conns
    BY <1>5, <2>1 DEF Generations
  <2>2. CASE generation' = generation \/ generation' = generation + 1
    BY <1>1, <1>2, <1>3, <1>4, <1>5, <2>2 DEF Generations
  <2> QED BY <2>1, <2>2, CountersKept
<1>6. ASSUME NEW c \in Conns, NEW d \in Conns, conns'[c] # None, conns'[d] # None,
             conns'[c].generation = conns'[d].generation
      PROVE  c = d \/ conns'[c].generation = 0
  <2>1. CASE conns'[c].generation = 0 \/ conns'[d].generation = 0
    BY <1>6, <2>1
  <2>2. CASE conns[c] # None /\ conns'[c].generation = conns[c].generation
             /\ conns[d] # None /\ conns'[d].generation = conns[d].generation
    BY <1>6, <2>2 DEF Generations
  <2>3. CASE ServeRegister(c) /\ conns'[c].generation = generation + 1
    <3>1. d # c => conns'[d] = conns[d]
      BY <1>4, <2>3
    <3>2. d # c => conns[d].generation <= generation /\ conns[d].generation \in Nat
      BY <1>2, <1>6, <3>1 DEF Generations
    <3>3. d # c => conns'[d].generation # generation + 1
      BY <1>1, <3>1, <3>2
    <3> QED BY <1>6, <2>3, <3>3
  <2>4. CASE ServeRegister(d) /\ conns'[d].generation = generation + 1
    <3>1. d # c => conns'[c] = conns[c]
      BY <1>4, <2>4
    <3>2. d # c => conns[c].generation <= generation /\ conns[c].generation \in Nat
      BY <1>2, <1>6, <3>1 DEF Generations
    <3> QED BY <1>1, <1>6, <2>4, <3>1, <3>2
  <2> QED BY <1>3, <1>6, <2>1, <2>2, <2>3, <2>4
<1>7. ASSUME ~up'
      PROVE  /\ \A s \in Sessions : registry'[s] = None
             /\ \A c \in Conns : conns'[c] # None => conns'[c].generation = 0 /\ conns'[c].server = "closed"
  <2>1. CASE DaemonExits
    <3>1. \A s \in Sessions : registry'[s] = None
      BY <2>1 DEF DaemonExits
    <3>2. \A c \in Conns : conns'[c] # None => conns'[c].generation = 0 /\ conns'[c].server = "closed"
      BY <2>1, ExitOnConns
    <3> QED BY <3>1, <3>2
  <2>2. CASE ~up /\ ~DaemonExits
    <3>1. /\ \A s \in Sessions : ~Registered(s)
          /\ \A c \in Conns : conns[c] # None => conns[c].generation = 0 /\ conns[c].server = "closed"
      BY <2>2 DEF Generations
    <3>2. \A c \in Conns : ~ServeRegister(c)
      BY <3>1, RegisterOnConn
    <3>3. \A s \in Sessions : registry'[s] = None
      BY <3>1, <3>2, EntrySteps
    <3>4. ASSUME NEW c \in Conns, conns'[c] # None
          PROVE  conns'[c].generation = 0 /\ conns'[c].server = "closed"
      <4>1. conns[c] # None
        BY <2>2, <3>4, ConnKeeps
      <4>2. conns'[c] = conns[c] \/ ConnUpdate(conns[c], conns'[c])
        BY <2>2, <3>2, <4>1, ConnKeeps
      <4> QED BY <3>1, <4>1, <4>2 DEF ConnUpdate
    <3> QED BY <3>3, <3>4
  <2>3. up \in BOOLEAN
    BY DEF BrokerTypes, TypeOK
  <2>4. up /\ ~DaemonExits => up'
    BY <1>7, CountersKept
  <2> QED BY <1>7, <2>1, <2>2, <2>3, <2>4
<1> QED BY <1>3, <1>5, <1>6, <1>7 DEF Generations, Registered

\* the newest served connection stays listed unless it was pruned,
LEMMA NewestIsListedKept ==
  ASSUME BrokerTypes, EntryOfConnection, Generations, NewestIsListed, [Next]_vars
  PROVE  NewestIsListed'
<1> SUFFICES ASSUME NEW c \in Conns, Served(c)', Newest(c)', ~tuis'[conns'[c].sid].pruned
             PROVE  registry'[conns'[c].sid] # None /\ registry'[conns'[c].sid].conn = c
  BY DEF NewestIsListed, Registered
<1>1. conns'[c] # None /\ conns'[c].server \in {"registered", "open"}
  BY DEF Served
<1>2. \A d \in Conns \ {c} : conns'[d] # None /\ conns'[d].sid = conns'[c].sid => conns'[d].generation < conns'[c].generation
  BY DEF Newest
<1>3. generation \in Nat
  BY DEF BrokerTypes, TypeOK
<1>4. conns[c] # None
  BY <1>1, ConnKeeps
<1> DEFINE s == conns[c].sid
<1>5. s \in Sessions /\ conns'[c].sid = s /\ conns[c].generation \in Nat
  BY <1>4, ConnKeeps, ConnTypes
<1>6. CASE ServeRegister(c)
  <2>1. PICK y \in Entries :
           /\ y.conn = c /\ y.generation = generation + 1 /\ y.pending = {} /\ y.snapshot = Head(conns[c].up).v
           /\ registry' = [registry EXCEPT ![conns[c].sid] = y]
    BY <1>6, RegisterEntry
  <2>2. registry'[s] = y
    BY <1>5, <2>1 DEF BrokerTypes, TypeOK
  <2> QED BY <1>5, <2>1, <2>2, BrokerAssumption
<1>7. CASE ~ServeRegister(c)
  <2>1. ~DaemonExits
    BY <1>1, <1>4, ExitOnConns
  <2>2. conns'[c] = conns[c] \/ ConnUpdate(conns[c], conns'[c])
    BY <1>4, <1>7, <2>1, ConnKeeps
  <2>3. conns'[c].generation = conns[c].generation /\ Served(c)
    BY <1>1, <1>4, <2>2 DEF ConnUpdate, Served
  <2>4. \A d \in Conns : ServeRegister(d) => conns[d].sid # s
    <3> SUFFICES ASSUME NEW d \in Conns, ServeRegister(d), conns[d].sid = s PROVE FALSE
      OBVIOUS
    <3>1. d # c /\ conns[d] # None
      BY <1>7, RegisterOnConn
    <3>2. PICK y \in Connections :
              /\ y.sid = conns[d].sid /\ y.generation = generation + 1
              /\ y.server = "registered" /\ y.up = <<>>
              /\ conns' = [conns EXCEPT ![d] = y]
      BY RegisterOnConn
    <3>3. conns'[d] = y /\ y # None
      BY <3>2, BrokerAssumption DEF BrokerTypes, TypeOK
    <3>4. generation + 1 < conns'[c].generation
      BY <1>2, <1>5, <3>1, <3>2, <3>3
    <3>5. conns[c].generation <= generation
      BY <1>4 DEF Generations
    <3> QED BY <1>3, <1>5, <2>3, <3>4, <3>5
  <2>5. Newest(c)
    <3> SUFFICES ASSUME NEW d \in Conns \ {c}, conns[d] # None, conns[d].sid = s
                 PROVE  conns[d].generation < conns[c].generation
      BY DEF Newest
    <3>1. conns'[d] # None /\ conns'[d].sid = s /\ (conns'[d] = conns[d] \/ ConnUpdate(conns[d], conns'[d]))
      BY <2>1, <2>4, ConnKeeps
    <3>2. conns'[d].generation = conns[d].generation
      BY <3>1 DEF ConnUpdate
    <3> QED BY <1>2, <1>5, <2>3, <3>1, <3>2
  <2>6. ~tuis[s].pruned /\ ~(PruneStale /\ s \in Stale)
    <3>1. tuis[s].pruned \in BOOLEAN /\ ~tuis'[s].pruned
      BY <1>5, TuiTypes
    <3>2. \/ tuis'[s].pruned = tuis[s].pruned /\ ~PruneStale
          \/ PruneStale /\ tuis'[s].pruned = (tuis[s].pruned \/ s \in Stale)
      <4>1. PruneStale => tuis'[s].pruned = (tuis[s].pruned \/ s \in Stale)
        BY <1>5, PrunedSteps, Zenon
      <4>2. ~PruneStale => tuis'[s].pruned = tuis[s].pruned
        BY <1>5, <2>4, PrunedSteps
      <4> QED BY <4>1, <4>2
    <3> QED BY <3>1, <3>2, Zenon
  <2>7. Registered(s) /\ registry[s].conn = c
    BY <2>3, <2>5, <2>6 DEF NewestIsListed
  <2>8. conns[c].generation = registry[s].generation /\ registry[s].generation > 0
    BY <1>5, <2>7 DEF EntryOfConnection
  <2>9. registry'[s] # None
    <3> SUFFICES ASSUME registry'[s] = None PROVE FALSE
      OBVIOUS
    <3>1. PICK d \in Conns : /\ Served(d) /\ conns[d].generation = registry[s].generation
                             /\ conns'[d] # None /\ conns'[d].server = "closed"
      BY <1>5, <2>1, <2>6, <2>7, EntryLeaves
    <3>2. conns[d] # None
      BY <3>1 DEF Served
    <3>3. c = d \/ conns[c].generation = 0
      BY <1>4, <2>8, <3>1, <3>2 DEF Generations
    <3> QED BY <1>1, <2>8, <3>1, <3>3
  <2>10. registry'[s].conn = registry[s].conn
    BY <1>5, <2>4, <2>9, EntrySteps
  <2> QED BY <1>5, <2>7, <2>9, <2>10
<1> QED BY <1>6, <1>7

\* Who is pending after a step was pending before, or has just sent a command.
LEMMA PendingSteps ==
  ASSUME BrokerTypes, [Next]_vars, NEW s \in Sessions, registry'[s] # None, NEW k \in registry'[s].pending
  PROVE  \/ Registered(s) /\ registry'[s].generation = registry[s].generation /\ k \in registry[s].pending
         \/ k \in Callers /\ Enters(k, s)
<1>1. registry \in [Sessions -> Entries \cup {None}]
  BY DEF BrokerTypes, TypeOK
<1>2. ~DaemonExits
  BY DEF DaemonExits
<1>3. CASE registry' = registry
  BY <1>3 DEF Registered
<1>4. CASE \E x \in Sessions : OneEntry(x)
  <2>1. PICK x \in Sessions : OneEntry(x)
    BY <1>4
  <2>2. PICK y : EntryUpdate(registry[x], y) /\ registry' = [registry EXCEPT ![x] = y]
    BY <2>1 DEF OneEntry
  <2> QED BY <1>1, <2>1, <2>2 DEF OneEntry, EntryUpdate, Registered
<1>5. CASE \E c \in Conns : Served(c) /\ ServeFrame(c) /\ TakesOver(c, Head(conns[c].up).v)
  <2>1. PICK c \in Conns : Served(c) /\ TakesOver(c, Head(conns[c].up).v)
    BY <1>5
  <2>2. PICK y : EntryUpdate(registry[conns[c].sid], y) /\ registry' = [registry EXCEPT ![conns[c].sid] = y]
    BY <2>1 DEF TakesOver
  <2>3. OwnsEntry(c)
    BY <2>1 DEF TakesOver
  <2> QED BY <1>1, <2>2, <2>3 DEF EntryUpdate, Registered, OwnsEntry
<1>6. CASE \E c \in Conns : Served(c) /\ Withdrawn(c) /\ conns'[c] # None /\ conns'[c].server = "closed"
  BY <1>1, <1>6 DEF Withdrawn, Registered
<1>7. CASE \E c \in Conns : ServeRegister(c)
  <2>1. PICK c \in Conns : ServeRegister(c)
    BY <1>7
  <2>2. PICK y \in Entries :
           /\ y.conn = c /\ y.generation = generation + 1 /\ y.pending = {} /\ y.snapshot = Head(conns[c].up).v
           /\ registry' = [registry EXCEPT ![conns[c].sid] = y]
    BY <2>1, RegisterEntry
  <2> QED BY <1>1, <2>2 DEF Registered
<1>8. CASE \E j \in Callers, x \in Sessions : Dispatch(j, x) /\ Enters(j, x)
  <2>1. PICK j \in Callers, x \in Sessions : Enters(j, x)
    BY <1>8
  <2>2. PICK y \in Entries : /\ y.generation = registry[x].generation /\ y.pending = registry[x].pending \cup {j}
                             /\ registry' = [registry EXCEPT ![x] = y]
    BY <2>1 DEF Enters
  <2>3. Registered(x)
    BY <2>1 DEF Enters
  <2> QED BY <1>1, <2>1, <2>2, <2>3 DEF Registered
<1>9. CASE PruneStale
  BY <1>9 DEF PruneStale, Registered
<1> QED BY <1>2, <1>3, <1>4, <1>5, <1>6, <1>7, <1>8, <1>9, RegistrySteps DEF RegistryStep

\* One request is pending in the registry and waited for by its caller.
Waits(x, s, g) == x.pc \in {"waiting", "cleanup"} /\ x.sid = s /\ x.generation = g /\ x.reply = None

\* and what is pending keeps a caller that waits.
LEMMA PendingHasWaiterKept ==
  ASSUME BrokerTypes, PendingHasWaiter, [Next]_vars
  PROVE  PendingHasWaiter'
<1> SUFFICES ASSUME NEW s \in Sessions, registry'[s] # None, NEW k \in registry'[s].pending
             PROVE  Waits(callers'[k], s, registry'[s].generation)
  BY DEF PendingHasWaiter, Registered, Waits
<1>1. CASE k \in Callers /\ Enters(k, s)
  <2>1. registry'[s].generation = registry[s].generation
    BY <1>1 DEF Enters, BrokerTypes, TypeOK
  <2> QED BY <1>1, <2>1 DEF Enters, Waits
<1>2. CASE Registered(s) /\ registry'[s].generation = registry[s].generation /\ k \in registry[s].pending
  <2>1. Waits(callers[k], s, registry[s].generation)
    BY <1>2 DEF PendingHasWaiter, Waits
  <2>2. k \in Callers /\ callers \in [Callers -> CallerStates] /\ callers[k] \in CallerStates
    BY <1>2, EntryTypes, CallerTypes
  <2>3. ~DaemonExits
    BY EntrySteps
  <2>4. CASE callers'[k] = callers[k]
    BY <1>2, <2>1, <2>4
  <2>5. CASE \E c \in Conns : ServeFrame(c) /\ Delivers(c, Head(conns[c].up))
    <3>1. PICK c \in Conns : ServeFrame(c) /\ Delivers(c, Head(conns[c].up))
      BY <2>5
    <3> DEFINE w == PendingFor(conns[c].sid, Head(conns[c].up))
               r == [id |-> Head(conns[c].up).id, boot |-> Head(conns[c].up).boot]
    <3>2. /\ registry'[conns[c].sid].pending = registry[conns[c].sid].pending \ w
          /\ callers' = [j \in Callers |-> IF j \in w THEN [callers[j] EXCEPT !.reply = r] ELSE callers[j]]
          /\ Registered(conns[c].sid)
      BY <3>1 DEF Delivers, OwnsEntry
    <3>3. conns[c].sid \in Sessions
      BY <3>1, ConnTypes DEF ServeFrame
    <3>4. k \in w => k \in registry[conns[c].sid].pending
      BY DEF PendingFor
    <3> HIDE DEF w, r
    <3>5. k \in w => callers[k].sid = conns[c].sid
      BY <3>2, <3>3, <3>4 DEF PendingHasWaiter
    <3>6. k \notin w
      BY <2>1, <3>2, <3>5 DEF Waits
    <3>7. callers'[k] = callers[k]
      BY <2>2, <3>2, <3>6
    <3> QED BY <2>4, <3>7
  <2>6. CASE \E j \in Callers, x \in Sessions : Dispatch(j, x)
    <3>1. PICK j \in Callers, x \in Sessions : Dispatch(j, x)
      BY <2>6
    <3>2. j # k
      BY <2>1, <3>1 DEF Dispatch, Waits
    <3>3. callers'[k] = callers[k]
      BY <2>2, <3>1, <3>2, DispatchStep DEF Enters
    <3> QED BY <2>4, <3>3
  <2>7. CASE \E j \in Callers : ReceiveAnswer(j)
    <3>1. PICK j \in Callers : callers[j].reply # None /\ callers' = [callers EXCEPT ![j].pc = "done"]
      BY <2>7 DEF ReceiveAnswer
    <3>2. j # k
      BY <2>1, <3>1 DEF Waits
    <3> QED BY <2>2, <2>4, <3>1, <3>2
  <2>8. CASE \E j \in Callers : ReceiveTimesOut(j)
    <3>1. PICK j \in Callers : callers' = [callers EXCEPT ![j].pc = "cleanup"]
      BY <2>8 DEF ReceiveTimesOut
    <3>2. CASE j # k
      BY <2>2, <2>4, <3>1, <3>2
    <3>3. CASE j = k
      <4>1. callers'[k] = [callers[k] EXCEPT !.pc = "cleanup"]
        BY <2>2, <3>1, <3>3
      <4>2. /\ callers'[k].pc = "cleanup" /\ callers'[k].sid = callers[k].sid /\ callers'[k].reply = callers[k].reply
            /\ callers'[k].generation = callers[k].generation
        BY <2>2, <4>1 DEF CallerStates
      <4> QED BY <1>2, <2>1, <4>2 DEF Waits
    <3> QED BY <3>2, <3>3
  <2>9. CASE \E j \in Callers : Cleanup(j)
    <3>1. PICK j \in Callers : Cleanup(j)
      BY <2>9
    <3>2. callers' = [callers EXCEPT ![j] = IdleCaller]
      BY <3>1, CleanupStep
    <3>3. j # k
      <4> SUFFICES ASSUME j = k PROVE FALSE
        OBVIOUS
      <4>1. Registered(callers[k].sid) /\ registry[callers[k].sid].generation = callers[k].generation /\ callers[k].sid = s
        BY <1>2, <2>1 DEF Waits
      <4>2. registry'[s].pending = registry[s].pending \ {k}
        BY <3>1, <4>1, CleanupStep
      <4> QED BY <4>2
    <3> QED BY <2>2, <2>4, <3>2, <3>3
  <2> QED BY <2>3, <2>4, <2>5, <2>6, <2>7, <2>8, <2>9, CallerSteps
<1> QED BY <1>1, <1>2, PendingSteps

-----------------------------------------------------------------------------
\* What sequences of frames carry.
LEMMA SentAppend ==
  ASSUME NEW frames \in Seq(ClientFrames), NEW frame \in ClientFrames, NEW v
  PROVE  /\ CarriesState(frame) /\ frame.v = v => LastSent(Append(frames, frame), v)
         /\ ~CarriesState(frame) /\ LastSent(frames, v) => LastSent(Append(frames, frame), v)
         /\ ~CarriesState(frame) /\ NoneSent(frames) => NoneSent(Append(frames, frame))
<1> DEFINE all == Append(frames, frame)
           n == Len(frames)
<1>1. n \in Nat /\ Len(all) = n + 1 /\ all[n + 1] = frame /\ \A i \in 1..n : all[i] = frames[i]
  OBVIOUS
<1> HIDE DEF all, n
<1>2. CarriesState(frame) /\ frame.v = v => LastSent(all, v)
  <2> SUFFICES ASSUME CarriesState(frame), frame.v = v
               PROVE  LastSent(all, v)
    OBVIOUS
  <2>1. n + 1 \in 1..Len(all) /\ \A m \in (n + 1 + 1)..Len(all) : FALSE
    BY <1>1
  <2>2. CarriesState(all[n + 1]) /\ all[n + 1].v = v
    BY <1>1
  <2> QED BY <2>1, <2>2 DEF LastSent
<1>3. ~CarriesState(frame) /\ LastSent(frames, v) => LastSent(all, v)
  <2> SUFFICES ASSUME ~CarriesState(frame), LastSent(frames, v)
               PROVE  LastSent(all, v)
    OBVIOUS
  <2>1. PICK i \in 1..n : /\ CarriesState(frames[i]) /\ frames[i].v = v
                          /\ \A m \in (i+1)..n : ~CarriesState(frames[m])
    BY DEF LastSent, n
  <2>2. i \in 1..Len(all) /\ CarriesState(all[i]) /\ all[i].v = v
    BY <1>1, <2>1
  <2>3. ASSUME NEW m \in (i+1)..Len(all)
        PROVE  ~CarriesState(all[m])
    <3>1. m = n + 1 \/ (m \in (i+1)..n /\ m \in 1..n)
      BY <1>1, <2>1, <2>3
    <3> QED BY <1>1, <2>1, <3>1
  <2> QED BY <2>2, <2>3 DEF LastSent
<1>4. ~CarriesState(frame) /\ NoneSent(frames) => NoneSent(all)
  <2> SUFFICES ASSUME ~CarriesState(frame), NoneSent(frames), NEW m \in 1..Len(all)
               PROVE  ~CarriesState(all[m])
    BY DEF NoneSent
  <2>1. m = n + 1 \/ m \in 1..n
    BY <1>1
  <2>2. \A i \in 1..n : ~CarriesState(frames[i])
    BY DEF NoneSent, n
  <2> QED BY <1>1, <2>1, <2>2
<1> QED BY <1>2, <1>3, <1>4 DEF all

\* The last snapshot on its way is still last when the first frame is taken.
LEMMA SentTail ==
  ASSUME NEW frames \in Seq(ClientFrames), frames # <<>>, NEW v
  PROVE  /\ LastSent(frames, v) => \/ LastSent(Tail(frames), v)
                                   \/ NoneSent(Tail(frames)) /\ CarriesState(Head(frames)) /\ Head(frames).v = v
         /\ NoneSent(frames) => NoneSent(Tail(frames)) /\ ~CarriesState(Head(frames))
<1> DEFINE rest == Tail(frames)
           first == Head(frames)
           n == Len(frames)
<1>1. n \in Nat /\ n > 0 /\ Len(rest) = n - 1 /\ frames[1] = first /\ \A i \in 1..(n - 1) : rest[i] = frames[i + 1]
  OBVIOUS
<1> HIDE DEF rest, first, n
<1>2. ASSUME LastSent(frames, v)
      PROVE  LastSent(rest, v) \/ (NoneSent(rest) /\ CarriesState(first) /\ first.v = v)
  <2>1. PICK i \in 1..n : /\ CarriesState(frames[i]) /\ frames[i].v = v
                          /\ \A m \in (i+1)..n : ~CarriesState(frames[m])
    BY <1>2 DEF LastSent, n
  <2>2. ASSUME NEW m \in i..(n - 1)
        PROVE  ~CarriesState(rest[m])
    <3>1. m + 1 \in (i+1)..n /\ m \in 1..(n - 1)
      BY <1>1, <2>1, <2>2
    <3> QED BY <1>1, <2>1, <3>1
  <2>3. CASE i = 1
    BY <1>1, <2>1, <2>2, <2>3 DEF NoneSent
  <2>4. CASE i # 1
    <3>1. i - 1 \in 1..Len(rest) /\ rest[i - 1] = frames[i] /\ (i - 1) + 1 = i
      BY <1>1, <2>1, <2>4
    <3>2. \A m \in ((i - 1) + 1)..Len(rest) : ~CarriesState(rest[m])
      BY <1>1, <2>2, <3>1
    <3>3. CarriesState(rest[i - 1]) /\ rest[i - 1].v = v
      BY <2>1, <3>1
    <3> QED BY <3>1, <3>2, <3>3 DEF LastSent
  <2> QED BY <2>3, <2>4
<1>3. ASSUME NoneSent(frames)
      PROVE  NoneSent(rest) /\ ~CarriesState(first)
  <2>1. \A i \in 1..n : ~CarriesState(frames[i])
    BY <1>3 DEF NoneSent, n
  <2>2. 1 \in 1..n /\ \A i \in 1..(n - 1) : i + 1 \in 1..n
    BY <1>1
  <2>3. ~CarriesState(first)
    BY <1>1, <2>1, <2>2
  <2>4. \A i \in 1..(n - 1) : ~CarriesState(rest[i])
    BY <1>1, <2>1, <2>2
  <2> QED BY <1>1, <2>3, <2>4 DEF NoneSent
<1> QED BY <1>2, <1>3 DEF rest, first

\* The last item stays when the first one of several is taken.
LEMMA LastOfTail ==
  ASSUME NEW q \in Seq(Outbounds), q # <<>>, Tail(q) # <<>>
  PROVE  Tail(q)[Len(Tail(q))] = q[Len(q)]
OBVIOUS

\* What was queued last is last,
LEMMA LastOfAppend ==
  ASSUME NEW q \in Seq(Outbounds), NEW item \in Outbounds
  PROVE  Append(q, item)[Len(Append(q, item))] = item /\ Append(q, item) # <<>>
OBVIOUS

\* and the head when nothing else is queued.
LEMMA HeadIsLast ==
  ASSUME NEW q \in Seq(Outbounds), q # <<>>, Tail(q) = <<>>
  PROVE  Head(q) = q[Len(q)]
<1>1. Len(q) \in Nat /\ Len(q) # 0 /\ Head(q) = q[1]
  OBVIOUS
<1>2. ASSUME NEW r \in Seq(Outbounds), Len(r) > 0
      PROVE  r # <<>>
  BY <1>2
<1>3. Tail(q) \in Seq(Outbounds) /\ Len(Tail(q)) = Len(q) - 1
  OBVIOUS
<1>4. ~(Len(Tail(q)) > 0)
  BY <1>2, <1>3
<1> QED BY <1>1, <1>3, <1>4

\* The last item is the current state.
IsNews(item, v) == item.type = "Publish" \/ item.v = v

\* What is queued last keeps being the current snapshot.
LEMMA PublishedLastKept ==
  ASSUME BrokerTypes, PublishedLast, [Next]_vars
  PROVE  PublishedLast'
<1> SUFFICES ASSUME NEW s \in Sessions, ~tuis'[s].lost, tuis'[s].outbound # <<>>
             PROVE  IsNews(tuis'[s].outbound[Len(tuis'[s].outbound)], tuis'[s].version)
  BY DEF PublishedLast, IsNews
<1> DEFINE q == tuis[s].outbound
<1>1. q \in Seq(Outbounds)
  BY TuiTypes
<1>2. ~tuis[s].lost /\ q # <<>> => IsNews(q[Len(q)], tuis[s].version)
  BY DEF PublishedLast, IsNews
<1>3. CASE SameNews(tuis[s], tuis'[s])
  BY <1>2, <1>3 DEF SameNews
<1>4. CASE Queued(tuis[s], tuis'[s])
  <2>1. ASSUME NEW item \in Outbounds, tuis'[s].outbound = Append(q, item), item.type = "Publish" \/ item.v = tuis'[s].version
        PROVE  IsNews(tuis'[s].outbound[Len(tuis'[s].outbound)], tuis'[s].version)
    BY <1>1, <2>1, LastOfAppend DEF IsNews
  <2> QED BY <1>3, <1>4, <2>1 DEF Queued
<1>5. CASE /\ WriteOutbound(s) /\ tuis'[s].version = tuis[s].version /\ tuis'[s].lost = tuis[s].lost
           /\ tuis'[s].outbound = Tail(q)
  <2>1. q # <<>>
    BY <1>5 DEF WriteOutbound
  <2>2. Tail(q)[Len(Tail(q))] = q[Len(q)]
    BY <1>1, <1>5, <2>1, LastOfTail
  <2>3. IsNews(q[Len(q)], tuis[s].version)
    BY <1>2, <1>5, <2>1
  <2> QED BY <1>5, <2>2, <2>3
<1> QED BY <1>3, <1>4, <1>5, TuiSteps DEF TuiStep

\* What a step does to the frames on their way to the daemon.
SameUp(x, y) == y.up = x.up

\* Changes of a connection that leave the frames on their way up alone.
LEMMA UpKept ==
  ASSUME NEW x \in Connections
  PROVE  /\ SameUp(x, [x EXCEPT !.client = FALSE])
         /\ \A d : SameUp(x, [x EXCEPT !.down = d])
         /\ \A d : SameUp(x, [x EXCEPT !.server = "open", !.down = d])
BY DEF Connections, SameUp

\* A frame a TUI writes is last on its way up, unless the connection is closed.
LEMMA UpWritten ==
  ASSUME BrokerTypes, NEW s \in Sessions, CanWrite(s), NEW frame \in ClientFrames
  PROVE  LET c == tuis[s].conn
         IN  /\ WriteUp(c, frame)[c].up = IF conns[c].server = "closed" THEN conns[c].up ELSE Append(conns[c].up, frame)
             /\ \A d \in Conns : d # c => WriteUp(c, frame)[d] = conns[d]
             /\ c \in Conns /\ WriteUp(c, frame)[c] \in Connections /\ WriteUp(c, frame)[c].server = conns[c].server
             /\ WriteUp(c, frame) \in [Conns -> Connections \cup {None}]
<1> DEFINE c == tuis[s].conn
           u == IF conns[c].server = "closed" THEN conns[c].up ELSE Append(conns[c].up, frame)
           y == [conns[c] EXCEPT !.up = u]
<1>1. c \in Conns /\ conns[c] # None
  BY CurrentTypes DEF CanWrite
<1>2. conns[c] \in Connections /\ conns[c].up \in Seq(ClientFrames) /\ conns \in [Conns -> Connections \cup {None}]
  BY <1>1, ConnTypes
<1>3. u \in Seq(ClientFrames)
  BY <1>2
<1>4. WriteUp(c, frame) = [conns EXCEPT ![c] = y]
  BY <1>1, <1>2 DEF WriteUp
<1> HIDE DEF c, u
<1>5. y \in Connections /\ y.up = u /\ y.server = conns[c].server
  BY <1>2, <1>3 DEF Connections
<1> HIDE DEF y
<1>6. /\ WriteUp(c, frame)[c] = y /\ \A d \in Conns : d # c => WriteUp(c, frame)[d] = conns[d]
      /\ WriteUp(c, frame) \in [Conns -> Connections \cup {None}]
  BY <1>1, <1>2, <1>4, <1>5
<1> QED BY <1>1, <1>5, <1>6 DEF c, u

\* A TUI adds one frame to its connection.
Adds(s, frame) ==
  LET c == tuis[s].conn
  IN  c \in Conns /\ conns'[c].up = Append(conns[c].up, frame) /\ \A d \in Conns : d # c => conns'[d] = conns[d]

SameUps == \A c \in Conns : conns[c] # None => SameUp(conns[c], conns'[c]) \/ conns'[c].server = "closed"

\* One connection that keeps its frames keeps all of them.
LEMMA OneSameUp ==
  ASSUME BrokerTypes, NEW c \in Conns, NEW y, conns' = [conns EXCEPT ![c] = y],
         SameUp(conns[c], y) \/ y.server = "closed"
  PROVE  SameUps
BY DEF SameUps, SameUp, BrokerTypes, TypeOK

\* A step of a TUI writes what it had queued, the current snapshot or none, or connects.
\* Of the steps of a TUI only WriteOutbound and the registration send a snapshot.
LEMMA TuiUps ==
  ASSUME BrokerTypes, NEW s \in Sessions, Tui(s) \/ RegistrationThread(s)
  PROVE  \/ SameUps
         \/ WriteOutbound(s)
         \/ \E frame \in ClientFrames : Adds(s, frame) /\ (~CarriesState(frame) \/ frame.v = tuis[s].version)
         \/ \E c \in Conns : Connect(s, c)
<1> DEFINE c == tuis[s].conn
<1>1. ASSUME c # None
      PROVE  /\ c \in Conns /\ conns[c] # None /\ conns[c] \in Connections
             /\ conns \in [Conns -> Connections \cup {None}]
             /\ conns[c].up \in Seq(ClientFrames) /\ conns[c].down \in Seq(ServerFrames)
  BY <1>1, TuiTypes, ConnTypes
<1>2. tuis[s].phase \in {"registering", "connected"} => c # None
  BY TuiTypes
<1>3. CASE conns' = conns
  BY <1>3 DEF SameUps, SameUp
<1>4. ASSUME c # None, conns' = [conns EXCEPT ![c].client = FALSE]
      PROVE  SameUps
  <2>1. conns' = [conns EXCEPT ![c] = [conns[c] EXCEPT !.client = FALSE]]
    BY <1>1, <1>4
  <2> QED BY <1>1, <1>4, <2>1, UpKept, OneSameUp
<1>5. ASSUME c # None, conns' = [conns EXCEPT ![c].down = Tail(@)]
      PROVE  SameUps
  <2>1. conns' = [conns EXCEPT ![c] = [conns[c] EXCEPT !.down = Tail(conns[c].down)]]
    BY <1>1, <1>5
  <2>2. SameUp(conns[c], [conns[c] EXCEPT !.down = Tail(conns[c].down)])
    BY <1>1, <1>5, UpKept
  <2> QED BY <1>1, <1>5, <2>1, <2>2, OneSameUp
<1>6. ASSUME CanWrite(s), NEW frame \in ClientFrames, conns' = WriteUp(c, frame)
      PROVE  SameUps \/ Adds(s, frame)
  <2>1. /\ conns'[c].up = IF conns[c].server = "closed" THEN conns[c].up ELSE Append(conns[c].up, frame)
        /\ \A d \in Conns : d # c => conns'[d] = conns[d]
        /\ c \in Conns
    BY <1>6, UpWritten
  <2> QED BY <2>1 DEF SameUps, SameUp, Adds
<1>7. CASE KillTui(s)
  BY <1>3, <1>4, <1>7 DEF KillTui
<1>8. CASE AckTimesOut(s) \/ ConnectionLost(s)
  BY <1>2, <1>4, <1>8 DEF AckTimesOut, ConnectionLost, Disconnected
<1>9. CASE ReadAck(s)
  BY <1>2, <1>5, <1>9 DEF ReadAck
<1>10. CASE WritePing(s)
  <2>1. [type |-> "Ping"] \in ClientFrames /\ ~CarriesState([type |-> "Ping"])
    BY Frames DEF CarriesState
  <2> QED BY <1>6, <1>10, <2>1 DEF WritePing
<1>11. CASE StopThread(s)
  <2> DEFINE f == [type |-> "Unregister"]
  <2>1. f \in ClientFrames /\ ~CarriesState(f)
    BY Frames DEF CarriesState
  <2>2. CASE conns' = conns
    BY <1>3, <2>2
  <2>3. CASE CanWrite(s) /\ conns' = [WriteUp(c, f) EXCEPT ![c].client = FALSE]
    <3> HIDE DEF f
    <3> DEFINE w == WriteUp(c, f)
    <3>1. /\ w[c].up = IF conns[c].server = "closed" THEN conns[c].up ELSE Append(conns[c].up, f)
          /\ \A d \in Conns : d # c => w[d] = conns[d]
          /\ c \in Conns /\ w[c] \in Connections /\ w \in [Conns -> Connections \cup {None}]
      BY <2>1, <2>3, UpWritten
    <3>2. conns' = [w EXCEPT ![c] = [w[c] EXCEPT !.client = FALSE]]
      BY <2>3, <3>1
    <3> HIDE DEF w
    <3>3. SameUp(w[c], [w[c] EXCEPT !.client = FALSE])
      BY <3>1, UpKept
    <3>4. conns'[c].up = w[c].up /\ \A d \in Conns : d # c => conns'[d] = conns[d]
      BY <3>1, <3>2, <3>3 DEF SameUp
    <3>5. SameUps \/ Adds(s, f)
      BY <3>1, <3>4 DEF SameUps, SameUp, Adds
    <3> QED BY <2>1, <3>5
  <2> QED BY <1>11, <2>2, <2>3 DEF StopThread
<1>12. CASE ReadFrame(s)
  <2> DEFINE frame == Head(conns[c].down)
             refusal == [type |-> "Result", id |-> frame.id, boot |-> frame.boot, v |-> tuis[s].version]
             popped == [conns EXCEPT ![c].down = Tail(@)]
  <2>1. c # None /\ conns[c].down # <<>> /\ tuis[s].version \in Versions
    BY <1>2, <1>12, TuiTypes DEF ReadFrame, CanWrite, Current
  <2>2. conns' = popped \/ (frame.type = "Command" /\ conns' = [popped EXCEPT ![c].up = Append(@, refusal)])
    BY <1>12 DEF ReadFrame, Current
  <2>3. CASE conns' = popped
    BY <1>5, <2>1, <2>3
  <2>4. CASE frame.type = "Command" /\ conns' = [popped EXCEPT ![c].up = Append(@, refusal)]
    <3>1. frame \in ServerFrames
      BY <1>1, <2>1
    <3> HIDE DEF frame
    <3>2. refusal \in ClientFrames /\ refusal.v = tuis[s].version
      BY <2>1, <2>4, <3>1, Frames DEF ServerFrames, Commands
    <3> DEFINE z == [conns[c] EXCEPT !.down = Tail(conns[c].down)]
    <3>3. popped[c] = z /\ (\A d \in Conns : d # c => popped[d] = conns[d]) 
          /\ popped \in [Conns -> Connections \cup {None}] /\ z \in Connections
      <4>1. popped = [conns EXCEPT ![c] = z]
        BY <1>1, <2>1
      <4>2. Tail(conns[c].down) \in Seq(ServerFrames)
        BY <1>1, <2>1
      <4>3. z \in Connections
        BY <1>1, <2>1, <4>2, ConnDown DEF ConnUpdate
      <4> QED BY <1>1, <2>1, <4>1, <4>3
    <3>4. SameUp(conns[c], z)
      BY <1>1, <2>1, UpKept
    <3> HIDE DEF refusal, popped, z
    <3>5. conns' = [popped EXCEPT ![c] = [z EXCEPT !.up = Append(z.up, refusal)]]
      BY <1>1, <2>1, <2>4, <3>3
    <3>6. [z EXCEPT !.up = Append(z.up, refusal)].up = Append(z.up, refusal)
      <4> DEFINE u == Append(z.up, refusal)
      <4> HIDE DEF u
      <4>1. [z EXCEPT !.up = u].up = u
        BY <3>3 DEF Connections
      <4> QED BY <4>1 DEF u
    <3>7. conns'[c].up = Append(conns[c].up, refusal) /\ \A d \in Conns : d # c => conns'[d] = conns[d]
      BY <1>1, <2>1, <3>3, <3>4, <3>5, <3>6 DEF SameUp
    <3> QED BY <1>1, <2>1, <3>2, <3>7 DEF Adds
  <2> QED BY <2>2, <2>3, <2>4
<1>13. CASE PublishSnapshot(s) \/ QuitTui(s) \/ \E v \in Versions : ApplySessionRequest(s, v)
  BY <1>3, <1>13 DEF PublishSnapshot, QuitTui, ApplySessionRequest
<1> QED BY <1>7, <1>8, <1>9, <1>10, <1>11, <1>12, <1>13 DEF Tui, RegistrationThread

\* What a TUI writes from its channel is the state it publishes, or its answer.
LEMMA OutboundUp ==
  ASSUME BrokerTypes, NEW s \in Sessions, WriteOutbound(s)
  PROVE  \E frame \in ClientFrames :
           /\ CarriesState(frame)
           /\ IsNews(Head(tuis[s].outbound), tuis[s].version) => frame.v = tuis[s].version
           /\ \A d \in Conns : d # tuis[s].conn => conns'[d] = conns[d]
           /\ conns[tuis[s].conn].server # "closed" => Adds(s, frame)
<1> DEFINE item == Head(tuis[s].outbound)
           frame == IF item.type = "Publish"
               THEN [type |-> "Snapshot", v |-> tuis[s].version]
               ELSE [type |-> "Result", id |-> item.id, boot |-> item.boot, v |-> item.v]
<1>1. item \in Outbounds /\ tuis[s].version \in Versions
  BY TuiTypes DEF WriteOutbound
<1>2. CanWrite(s) /\ conns' = WriteUp(tuis[s].conn, frame)
  BY DEF WriteOutbound
<1> HIDE DEF item
<1>3. frame \in ClientFrames /\ CarriesState(frame)
  BY <1>1, Frames DEF Outbounds, CarriesState
<1>4. IsNews(item, tuis[s].version) => frame.v = tuis[s].version
  BY DEF IsNews
<1> HIDE DEF frame
<1>5. /\ conns'[tuis[s].conn].up = IF conns[tuis[s].conn].server = "closed" THEN conns[tuis[s].conn].up
                                   ELSE Append(conns[tuis[s].conn].up, frame)
      /\ \A d \in Conns : d # tuis[s].conn => conns'[d] = conns[d]
      /\ tuis[s].conn \in Conns
  BY <1>2, <1>3, UpWritten
<1>6. conns[tuis[s].conn].server # "closed" => Adds(s, frame)
  BY <1>5 DEF Adds
<1> QED BY <1>3, <1>4, <1>5, <1>6 DEF item

\* Every step on the frames of a connection is one of these.
LEMMA UpSteps ==
  ASSUME BrokerTypes, EntryOfConnection, [Next]_vars
  PROVE  \/ SameUps
         \/ \E s \in Sessions : WriteOutbound(s)
         \/ \E s \in Sessions, frame \in ClientFrames :
              Adds(s, frame) /\ (~CarriesState(frame) \/ frame.v = tuis[s].version)
         \/ \E s \in Sessions, c \in Conns : Connect(s, c)
         \/ \E c \in Conns : ServeFrame(c) /\ \A d \in Conns : d # c => conns'[d] = conns[d]
         \/ \E c \in Conns : ServeRegister(c)
<1>1. CASE conns' = conns
  BY <1>1 DEF SameUps, SameUp
<1>2. CASE \E s \in Sessions : Tui(s) \/ RegistrationThread(s)
  BY <1>2, TuiUps
<1>3. ASSUME NEW c \in Conns, ServeAck(c)
      PROVE  SameUps
  <2> DEFINE d == <<[type |-> "Registered"]>> \o conns[c].down
             y == [conns[c] EXCEPT !.server = "open", !.down = d]
  <2>1. conns[c] # None /\ conns' = [conns EXCEPT ![c] = y]
    BY <1>3 DEF ServeAck
  <2>2. conns[c] \in Connections
    BY <2>1, ConnTypes
  <2> HIDE DEF d
  <2>3. SameUp(conns[c], y)
    BY <2>2, UpKept
  <2> HIDE DEF y
  <2> QED BY <2>1, <2>3, OneSameUp
<1>4. ASSUME NEW c \in Conns, ServeAckFails(c) \/ ServeEof(c)
      PROVE  SameUps
  <2>1. Served(c)
    BY <1>4 DEF ServeAckFails, ServeEof, Served
  <2>2. conns'[c].server = "closed" /\ \A d \in Conns : d # c => conns'[d] = conns[d]
    BY <1>4, <2>1, EndsStep DEF ServeEof
  <2> QED BY <2>2 DEF SameUps, SameUp
<1>5. ASSUME NEW c \in Conns, ServeCloneFails(c)
      PROVE  SameUps
  <2> DEFINE d == <<[type |-> "Registered"]>>
  <2>1. Served(c) /\ conns' = [Closed(c) EXCEPT ![c].down = d]
    BY <1>5 DEF ServeCloneFails, Served
  <2>2. PICK y : ConnUpdate(conns[c], y) /\ y.server = "closed" /\ Closed(c) = [conns EXCEPT ![c] = y]
    BY <2>1, ClosedConn
  <2>3. conns \in [Conns -> Connections \cup {None}] /\ y \in Connections
    BY <2>2 DEF BrokerTypes, TypeOK, ConnUpdate
  <2> HIDE DEF d
  <2>4. conns' = [conns EXCEPT ![c] = [y EXCEPT !.down = d]]
    BY <2>1, <2>2, <2>3
  <2>5. [y EXCEPT !.down = d].server = "closed"
    BY <2>2, <2>3 DEF Connections
  <2> QED BY <2>4, <2>5, OneSameUp
<1>6. ASSUME NEW c \in Conns, ServeFrame(c)
      PROVE  \A d \in Conns : d # c => conns'[d] = conns[d]
  BY <1>6, FrameStep, EndsStep DEF Served
<1>7. CASE \E c \in Conns : ConnectionThread(c)
  BY <1>3, <1>4, <1>5, <1>6, <1>7 DEF ConnectionThread
<1>8. CASE AcceptLoop
  <2>1. CASE DaemonExits
    BY <2>1, ExitOnConns DEF SameUps
  <2> QED BY <1>1, <1>8, <2>1 DEF AcceptLoop, TtlPasses, PruneStale, DaemonStarts
<1>9. ASSUME NEW k \in Callers, NEW s \in Sessions, Dispatch(k, s)
      PROVE  SameUps
  <2> DEFINE c == registry[s].conn
             command == [type |-> "Command", id |-> requestId + 1, boot |-> boot]
             y == [conns[c] EXCEPT !.down = Append(conns[c].down, command)]
  <2>1. Registered(s)
    BY <1>9 DEF Dispatch
  <2>2. c \in Conns /\ conns[c] # None
    BY <2>1, EntryTypes DEF EntryOfConnection
  <2>3. conns[c] \in Connections /\ conns \in [Conns -> Connections \cup {None}]
    BY <2>2, ConnTypes
  <2>4. conns' = conns \/ conns' = [conns EXCEPT ![c].down = Append(@, command)]
    BY <1>9 DEF Dispatch
  <2> HIDE DEF command
  <2>5. conns' = conns \/ conns' = [conns EXCEPT ![c] = y]
    BY <2>2, <2>3, <2>4
  <2>6. SameUp(conns[c], y)
    BY <2>3, UpKept
  <2> HIDE DEF y, c
  <2>7. CASE conns' = [conns EXCEPT ![c] = y]
    BY <2>2, <2>6, <2>7, OneSameUp
  <2>8. CASE conns' = conns
    BY <2>8 DEF SameUps, SameUp
  <2> QED BY <2>5, <2>7, <2>8
<1>10. CASE \E k \in Callers : Caller(k)
  BY <1>1, <1>9, <1>10 DEF Caller, ReceiveAnswer, ReceiveTimesOut, Cleanup
<1> QED BY <1>1, <1>2, <1>7, <1>8, <1>10 DEF Next, vars

\* The snapshot of a registration is changed by its own thread alone.
LEMMA SnapshotSteps ==
  ASSUME BrokerTypes, EntryOfConnection, Generations, [Next]_vars, NEW s \in Sessions, registry'[s] # None
  PROVE  \/ Registered(s) /\ registry'[s].conn = registry[s].conn /\ registry'[s].snapshot = registry[s].snapshot
         \/ ServeFrame(registry'[s].conn)
         \/ ServeRegister(registry'[s].conn)
<1>1. registry \in [Sessions -> Entries \cup {None}]
  BY DEF BrokerTypes, TypeOK
<1>2. ~DaemonExits
  BY DEF DaemonExits
<1>3. CASE registry' = registry
  BY <1>3 DEF Registered
<1>4. CASE \E x \in Sessions : OneEntry(x)
  <2>1. PICK x \in Sessions : OneEntry(x)
    BY <1>4
  <2>2. PICK y : EntryUpdate(registry[x], y) /\ y.snapshot = registry[x].snapshot /\ registry' = [registry EXCEPT ![x] = y]
    BY <2>1 DEF OneEntry
  <2> QED BY <1>1, <2>1, <2>2 DEF OneEntry, EntryUpdate, Registered
<1>5. CASE \E c \in Conns : Served(c) /\ ServeFrame(c) /\ TakesOver(c, Head(conns[c].up).v)
  <2>1. PICK c \in Conns : Served(c) /\ ServeFrame(c) /\ TakesOver(c, Head(conns[c].up).v)
    BY <1>5
  <2> DEFINE x == conns[c].sid
  <2>2. PICK y : EntryUpdate(registry[x], y) /\ registry' = [registry EXCEPT ![x] = y]
    BY <2>1 DEF TakesOver
  <2>3. Registered(x) /\ registry[x].generation = conns[c].generation /\ x \in Sessions /\ conns[c] # None
    BY <2>1, ConnTypes DEF TakesOver, OwnsEntry, Served
  <2>4. registry[x].conn = c
    <3> DEFINE d == registry[x].conn
    <3>1. d \in Conns /\ conns[d] # None /\ conns[d].generation = registry[x].generation /\ registry[x].generation > 0
      BY <2>3, EntryTypes DEF EntryOfConnection
    <3> HIDE DEF d, x
    <3>2. c = d \/ conns[c].generation = 0
      BY <2>3, <3>1 DEF Generations
    <3>3. conns[c].generation # 0
      BY <2>3, <3>1
    <3> QED BY <3>2, <3>3 DEF d
  <2>5. CASE s = x
    BY <1>1, <2>1, <2>2, <2>3, <2>4, <2>5 DEF EntryUpdate
  <2>6. CASE s # x
    BY <1>1, <2>2, <2>3, <2>6 DEF Registered
  <2> QED BY <2>5, <2>6
<1>6. CASE \E c \in Conns : Served(c) /\ Withdrawn(c) /\ conns'[c] # None /\ conns'[c].server = "closed"
  BY <1>1, <1>6 DEF Withdrawn, Registered
<1>7. CASE \E c \in Conns : ServeRegister(c)
  <2>1. PICK c \in Conns : ServeRegister(c)
    BY <1>7
  <2>2. PICK y \in Entries :
           /\ y.conn = c /\ y.generation = generation + 1 /\ y.pending = {} /\ y.snapshot = Head(conns[c].up).v
           /\ registry' = [registry EXCEPT ![conns[c].sid] = y]
    BY <2>1, RegisterEntry
  <2> QED BY <1>1, <2>1, <2>2 DEF Registered
<1>8. CASE \E j \in Callers, x \in Sessions : Dispatch(j, x) /\ Enters(j, x)
  <2>1. PICK x \in Sessions, y \in Entries : y.conn = registry[x].conn /\ y.snapshot = registry[x].snapshot
                /\ registry' = [registry EXCEPT ![x] = y] /\ Registered(x)
    BY <1>8 DEF Enters
  <2> QED BY <1>1, <2>1 DEF Registered
<1>9. CASE PruneStale
  BY <1>9 DEF PruneStale, Registered
<1> QED BY <1>2, <1>3, <1>4, <1>5, <1>6, <1>7, <1>8, <1>9, RegistrySteps DEF RegistryStep

\* The current snapshot stays on its way, or has arrived.
LEMMA ArrivesKept ==
  ASSUME BrokerTypes, EntryOfConnection, Generations, PublishedLast, Arrives, [Next]_vars
  PROVE  Arrives'
<1> SUFFICES ASSUME NEW s \in Sessions, tuis'[s].phase \in {"registering", "connected"}, ~tuis'[s].lost,
                    tuis'[s].outbound = <<>>, conns'[tuis'[s].conn].server # "closed"
             PROVE  \/ LastSent(conns'[tuis'[s].conn].up, tuis'[s].version)
                    \/ /\ NoneSent(conns'[tuis'[s].conn].up)
                       /\ registry'[s] # None /\ registry'[s].conn = tuis'[s].conn
                            => registry'[s].snapshot = tuis'[s].version
  BY DEF Arrives, Current, Registered
<1> DEFINE c == tuis[s].conn
           v == tuis[s].version
           Goal == \/ LastSent(conns'[c].up, v)
                   \/ /\ NoneSent(conns'[c].up)
                      /\ registry'[s] # None /\ registry'[s].conn = c => registry'[s].snapshot = v
<1>1. ASSUME tuis[s].phase \in {"registering", "connected"}
      PROVE  /\ c \in Conns /\ conns[c] # None /\ conns[c].sid = s
             /\ conns[c].up \in Seq(ClientFrames) /\ conns \in [Conns -> Connections \cup {None}]
             /\ \A x \in Sessions : x # s => tuis[x].conn # c
  BY <1>1, CurrentTypes, ConnTypes, TuiTypes
<1>2. ASSUME SameNews(tuis[s], tuis'[s]), tuis'[s].conn = tuis[s].conn, tuis[s].phase \in {"registering", "connected"}
      PROVE  Goal
  <2>1. ~tuis[s].lost /\ tuis[s].outbound = <<>> /\ conns'[c].server # "closed"
    BY <1>2 DEF SameNews
  <2>2. conns[c].server # "closed"
    <3> SUFFICES ASSUME conns[c].server = "closed" PROVE FALSE
      OBVIOUS
    <3>1. ~ServeRegister(c)
      BY <1>1, <1>2, RegisterOnConn
    <3>2. conns'[c] = conns[c] \/ ConnUpdate(conns[c], conns'[c]) \/ conns'[c].server = "closed"
      BY <1>1, <1>2, <3>1, ConnKeeps
    <3> QED BY <2>1, <3>2 DEF ConnUpdate
  <2>3. LastSent(conns[c].up, v) \/ (NoneSent(conns[c].up) /\ (Registered(s) /\ registry[s].conn = c => registry[s].snapshot = v))
    BY <1>2, <2>1, <2>2 DEF Arrives, Current
  <2>4. CASE ServeFrame(c)
    <3> DEFINE frame == Head(conns[c].up)
    <3>1. conns[c].up # <<>> /\ Served(c) /\ conns[c].up \in Seq(ClientFrames)
      BY <1>1, <1>2, <2>4, FrameStep DEF Served
    <3>2. ~ServeEnds(c)
      BY <1>1, <1>2, <2>1, <3>1, EndsStep
    <3>3. /\ conns'[c].up = Tail(conns[c].up)
          /\ \/ registry' = registry /\ ~CarriesState(frame)
             \/ CarriesState(frame) /\ ((~OwnsEntry(c) /\ registry' = registry) \/ TakesOver(c, frame.v))
      BY <1>1, <1>2, <2>4, <3>2, FrameStep
    <3> HIDE DEF c
    <3>4. /\ LastSent(conns[c].up, v) => LastSent(Tail(conns[c].up), v)
                                          \/ (NoneSent(Tail(conns[c].up)) /\ CarriesState(frame) /\ frame.v = v)
          /\ NoneSent(conns[c].up) => NoneSent(Tail(conns[c].up)) /\ ~CarriesState(frame)
      BY <3>1, SentTail
    <3> HIDE DEF frame, v
    <3>5. CASE LastSent(Tail(conns[c].up), v)
      BY <3>3, <3>5
    <3>6. CASE NoneSent(Tail(conns[c].up)) /\ CarriesState(frame) /\ frame.v = v
      <4>1. CASE ~OwnsEntry(c) /\ registry' = registry
        <5>1. ~(Registered(s) /\ registry[s].conn = c)
          BY <1>1, <1>2, <4>1 DEF OwnsEntry, EntryOfConnection, c
        <5> QED BY <3>3, <3>6, <4>1, <5>1 DEF Registered
      <4>2. CASE TakesOver(c, frame.v)
        <5>1. PICK y : y.snapshot = frame.v /\ registry' = [registry EXCEPT ![conns[c].sid] = y]
          BY <4>2 DEF TakesOver
        <5>2. registry'[s] = y
          BY <1>1, <1>2, <5>1 DEF BrokerTypes, TypeOK, c
        <5> QED BY <3>3, <3>6, <5>1, <5>2
      <4> QED BY <3>3, <3>6, <4>1, <4>2
    <3>7. CASE NoneSent(Tail(conns[c].up)) /\ ~CarriesState(frame) /\ (Registered(s) /\ registry[s].conn = c => registry[s].snapshot = v)
      BY <3>3, <3>7 DEF Registered
    <3> QED BY <2>3, <3>4, <3>5, <3>6, <3>7 DEF c, v
  <2>5. CASE ServeRegister(c)
    <3> DEFINE w == Head(conns[c].up).v
    <3>1. conns[c].up = <<[type |-> "Register", v |-> w]>>
      BY <1>1, <1>2, <2>5, RegisterOnConn
    <3>2. PICK y \in Connections :
              /\ y.sid = conns[c].sid /\ y.generation = generation + 1
              /\ y.server = "registered" /\ y.up = <<>>
              /\ conns' = [conns EXCEPT ![c] = y]
      BY <1>1, <1>2, <2>5, RegisterOnConn
    <3>3. conns'[c].up = <<>>
      BY <1>1, <1>2, <3>2
    <3>4. PICK e \in Entries :
           /\ e.conn = c /\ e.generation = generation + 1 /\ e.pending = {} /\ e.snapshot = Head(conns[c].up).v
           /\ registry' = [registry EXCEPT ![conns[c].sid] = e]
      BY <1>1, <1>2, <2>5, RegisterEntry
    <3>5. registry'[s] = e
      BY <1>1, <1>2, <3>4 DEF BrokerTypes, TypeOK
    <3> HIDE DEF w, c
    <3>6. w = v
      <4>1. Len(conns[c].up) = 1 /\ conns[c].up[1] = [type |-> "Register", v |-> w]
        BY <3>1
      <4>2. CarriesState(conns[c].up[1]) /\ conns[c].up[1].v = w
        BY <4>1 DEF CarriesState
      <4>3. 1 \in 1..1 /\ \A n \in 1..1 : n = 1
        OBVIOUS
      <4>4. ~NoneSent(conns[c].up)
        BY <4>1, <4>2, <4>3 DEF NoneSent
      <4>5. LastSent(conns[c].up, v)
        BY <2>3, <4>4 DEF c
      <4> QED BY <4>1, <4>2, <4>3, <4>5 DEF LastSent
    <3>7. NoneSent(conns'[c].up)
      BY <3>3 DEF NoneSent
    <3> QED BY <3>4, <3>5, <3>6, <3>7 DEF w, c
  <2>6. CASE ~ServeFrame(c) /\ ~ServeRegister(c)
    <3>1. (registry'[s] # None /\ registry'[s].conn = c) => Registered(s) /\ registry[s].conn = c /\ registry'[s].snapshot = registry[s].snapshot
      BY <2>6, SnapshotSteps
    <3>2. ASSUME conns'[c].up = conns[c].up
          PROVE  Goal
      BY <2>3, <3>1, <3>2
    <3>3. ASSUME NEW frame \in ClientFrames, Adds(s, frame), ~CarriesState(frame) \/ frame.v = v
          PROVE  Goal
      <4>1. conns'[c].up = Append(conns[c].up, frame)
        BY <3>3 DEF Adds
      <4>2. conns[c].up \in Seq(ClientFrames)
        BY <1>1, <1>2
      <4> HIDE DEF c, v
      <4>3. /\ CarriesState(frame) /\ frame.v = v => LastSent(Append(conns[c].up, frame), v)
            /\ ~CarriesState(frame) /\ LastSent(conns[c].up, v) => LastSent(Append(conns[c].up, frame), v)
            /\ ~CarriesState(frame) /\ NoneSent(conns[c].up) => NoneSent(Append(conns[c].up, frame))
        BY <4>2, SentAppend
      <4> QED BY <2>3, <3>1, <3>3, <4>1, <4>3 DEF c, v
    <3>4. ASSUME NEW d \in Conns, d # c, \A e \in Conns : e # d => conns'[e] = conns[e]
          PROVE  Goal
      BY <1>1, <1>2, <3>2, <3>4
    <3>5. CASE SameUps
      BY <1>1, <1>2, <2>1, <3>2, <3>5 DEF SameUps, SameUp
    <3>6. ASSUME NEW x \in Sessions, WriteOutbound(x)
          PROVE  Goal
      <4>1. x # s
        BY <2>1, <3>6 DEF WriteOutbound
      <4>2. \A e \in Conns : e # tuis[x].conn => conns'[e] = conns[e]
        BY <3>6, OutboundUp
      <4> QED BY <1>1, <1>2, <3>2, <4>1, <4>2
    <3>7. ASSUME NEW x \in Sessions, NEW frame \in ClientFrames, Adds(x, frame), ~CarriesState(frame) \/ frame.v = tuis[x].version
          PROVE  Goal
      <4>1. CASE x = s
        BY <3>3, <3>7, <4>1
      <4>2. CASE x # s
        BY <1>1, <1>2, <3>2, <3>7, <4>2 DEF Adds
      <4> QED BY <4>1, <4>2
    <3>8. ASSUME NEW x \in Sessions, NEW d \in Conns, Connect(x, d)
          PROVE  Goal
      <4>1. conns[d] = None /\ \E y \in Connections :
              /\ y.sid = x /\ y.generation = 0 /\ y.server = "new"
              /\ y.up = <<[type |-> "Register", v |-> tuis[x].version]>>
              /\ conns' = [conns EXCEPT ![d] = y]
        BY <3>8, ConnectOnConn
      <4>2. d # c /\ \A e \in Conns : e # d => conns'[e] = conns[e]
        BY <1>1, <1>2, <4>1
      <4> QED BY <3>4, <4>2
    <3>9. ASSUME NEW d \in Conns, ServeRegister(d)
          PROVE  Goal
      <4>1. d # c
        BY <2>6, <3>9
      <4>2. PICK y \in Connections : conns' = [conns EXCEPT ![d] = y]
        BY <3>9, RegisterOnConn
      <4> QED BY <1>1, <1>2, <3>4, <4>1, <4>2
    <3>10. ASSUME NEW d \in Conns, ServeFrame(d), \A e \in Conns : e # d => conns'[e] = conns[e]
           PROVE  Goal
      BY <2>6, <3>4, <3>10
    <3> HIDE DEF Goal
    <3> QED BY <3>5, <3>6, <3>7, <3>8, <3>9, <3>10, UpSteps
  <2> HIDE DEF Goal
  <2> QED BY <2>4, <2>5, <2>6
<1>3. CASE SameNews(tuis[s], tuis'[s]) /\ tuis'[s].conn = tuis[s].conn /\ tuis[s].phase \in {"registering", "connected"}
  BY <1>2, <1>3 DEF SameNews
<1>4. CASE SameLink(tuis[s], tuis'[s]) /\ Queued(tuis[s], tuis'[s])
  <2>1. tuis[s].outbound \in Seq(Outbounds)
    BY TuiTypes
  <2>2. \A item \in Outbounds : tuis'[s].outbound # Append(tuis[s].outbound, item)
    BY <2>1, LastOfAppend
  <2> QED BY <1>4, <2>2 DEF Queued, SameNews
<1>5. CASE /\ WriteOutbound(s) /\ SameLink(tuis[s], tuis'[s]) /\ tuis'[s].version = v /\ tuis'[s].lost = tuis[s].lost
           /\ tuis'[s].outbound = Tail(tuis[s].outbound)
  <2> DEFINE q == tuis[s].outbound
  <2>1. q \in Seq(Outbounds) /\ q # <<>> /\ Tail(q) = <<>>
    BY <1>5, TuiTypes DEF WriteOutbound
  <2>2. Head(q) = q[Len(q)]
    <3> HIDE DEF q
    <3> QED BY <2>1, HeadIsLast
  <2>3. IsNews(q[Len(q)], v)
    <3>1. ~tuis[s].lost
      BY <1>5
    <3>2. ~tuis[s].lost /\ q # <<>> => IsNews(q[Len(q)], tuis[s].version)
      BY DEF PublishedLast, IsNews
    <3> QED BY <2>1, <3>1, <3>2
  <2>4. tuis'[s].conn = c /\ tuis[s].phase \in {"registering", "connected"}
    BY <1>5 DEF SameLink
  <2>5. PICK frame \in ClientFrames :
           /\ CarriesState(frame)
           /\ IsNews(Head(tuis[s].outbound), tuis[s].version) => frame.v = tuis[s].version
           /\ \A d \in Conns : d # tuis[s].conn => conns'[d] = conns[d]
           /\ conns[tuis[s].conn].server # "closed" => Adds(s, frame)
    BY <1>5, OutboundUp
  <2>6. conns[c].server # "closed"
    <3> SUFFICES ASSUME conns[c].server = "closed" PROVE FALSE
      OBVIOUS
    <3>1. ~ServeRegister(c)
      BY <1>1, <2>4, RegisterOnConn
    <3>2. conns'[c] = conns[c] \/ ConnUpdate(conns[c], conns'[c]) \/ conns'[c].server = "closed"
      BY <1>1, <2>4, <3>1, ConnKeeps
    <3> QED BY <2>4, <3>2 DEF ConnUpdate
  <2>7. conns'[c].up = Append(conns[c].up, frame) /\ frame.v = v
    BY <2>2, <2>3, <2>5, <2>6 DEF Adds
  <2>8. conns[c].up \in Seq(ClientFrames)
    BY <1>1, <2>4
  <2>9. LastSent(conns'[c].up, v)
    <3> HIDE DEF c, v
    <3> QED BY <2>5, <2>7, <2>8, SentAppend
  <2> QED BY <1>5, <2>4, <2>9
<1>6. ASSUME NEW d \in Conns, Connect(s, d), SameNews(tuis[s], tuis'[s]), tuis'[s].conn = d
      PROVE  LastSent(conns'[d].up, tuis'[s].version)
  <2> DEFINE f == [type |-> "Register", v |-> tuis[s].version]
  <2>1. PICK y \in Connections :
              /\ y.sid = s /\ y.generation = 0 /\ y.server = "new"
              /\ y.up = <<f>> /\ conns' = [conns EXCEPT ![d] = y]
    BY <1>6, ConnectOnConn
  <2>2. conns'[d].up = <<f>>
    BY <2>1 DEF BrokerTypes, TypeOK
  <2>3. f \in ClientFrames /\ CarriesState(f) /\ f.v = tuis'[s].version
    BY <1>6, Frames, TuiTypes DEF CarriesState, SameNews
  <2> HIDE DEF f
  <2>4. <<>> \in Seq(ClientFrames) /\ Append(<<>>, f) = <<f>>
    OBVIOUS
  <2> QED BY <2>2, <2>3, <2>4, SentAppend
<1> HIDE DEF c, v
<1> QED BY <1>3, <1>4, <1>5, <1>6, TuiSteps DEF TuiStep, SameLink, c, v, ReadAck

-----------------------------------------------------------------------------
\* What a caller has received answers its request id, and it knows the daemon
\* process it asked.
ReplyHasId ==
  \A k \in Callers :
    /\ callers[k].pc \in {"waiting", "cleanup"} => callers[k].boot \in Boots
    /\ callers[k].reply # None => callers[k].reply.id = callers[k].id /\ callers[k].boot \in Boots

\* An answer keeps the id of the request it is for.
LEMMA ReplyHasIdKept ==
  ASSUME BrokerTypes, PendingHasWaiter, ReplyHasId, [Next]_vars
  PROVE  ReplyHasId'
<1> DEFINE P(x) == /\ x.pc \in {"waiting", "cleanup"} => x.boot \in Boots
                   /\ x.reply # None => x.reply.id = x.id /\ x.boot \in Boots
<1>1. callers \in [Callers -> CallerStates] /\ \A k \in Callers : P(callers[k])
  BY DEF BrokerTypes, TypeOK, ReplyHasId
<1>2. SUFFICES \A k \in Callers : P(callers'[k])
  BY DEF ReplyHasId
<1>3. ASSUME NEW k \in Callers, NEW x, callers' = [callers EXCEPT ![k] = x], P(x)
      PROVE  \A j \in Callers : P(callers'[j])
  <2> HIDE DEF P
  <2> QED BY <1>1, <1>3
<1>4. P(IdleCaller)
  BY DEF IdleCaller
<1>5. ASSUME NEW c \in Conns, ServeFrame(c), Delivers(c, Head(conns[c].up)), NEW k \in Callers
      PROVE  P(callers'[k])
  <2> DEFINE frame == Head(conns[c].up)
             w == PendingFor(conns[c].sid, frame)
             r == [id |-> frame.id, boot |-> frame.boot]
  <2>1. /\ r \in [id : RequestIds, boot : Boots] /\ Registered(conns[c].sid)
        /\ callers' = [j \in Callers |-> IF j \in w THEN [callers[j] EXCEPT !.reply = r] ELSE callers[j]]
    BY <1>5 DEF Delivers, OwnsEntry
  <2>2. conns[c].sid \in Sessions
    BY <1>5, ConnTypes DEF ServeFrame
  <2>3. k \in w => k \in registry[conns[c].sid].pending /\ callers[k].id = frame.id
    BY DEF PendingFor
  <2>4. r.id = frame.id
    OBVIOUS
  <2> HIDE DEF w, r, frame
  <2>5. k \in w => callers[k].pc \in {"waiting", "cleanup"}
    BY <2>1, <2>2, <2>3 DEF PendingHasWaiter
  <2>6. CASE k \notin w
    BY <1>1, <2>1, <2>6
  <2>7. CASE k \in w
    <3>1. callers'[k] = [callers[k] EXCEPT !.reply = r] /\ callers[k] \in CallerStates
      BY <1>1, <2>1, <2>7
    <3>2. callers'[k].reply = r /\ callers'[k].pc = callers[k].pc /\ callers'[k].id = callers[k].id
          /\ callers'[k].boot = callers[k].boot
      BY <2>1, <3>1, CallerAnswered
    <3> QED BY <1>1, <2>3, <2>4, <2>5, <2>7, <3>2
  <2> QED BY <2>6, <2>7
<1>6. ASSUME NEW k \in Callers, NEW s \in Sessions, Dispatch(k, s)
      PROVE  \A j \in Callers : P(callers'[j])
  <2> DEFINE g == registry[s].generation
             i == requestId + 1
             x == [pc |-> "waiting", sid |-> s, generation |-> g, id |-> i, boot |-> boot, reply |-> None]
  <2>1. callers' = [callers EXCEPT ![k] = x] \/ callers' = [callers EXCEPT ![k] = IdleCaller]
    BY <1>6 DEF Dispatch
  <2>2. boot \in Boots
    BY DEF BrokerTypes, TypeOK
  <2>3. P(x)
    BY <2>2
  <2> HIDE DEF x, P
  <2> QED BY <1>3, <1>4, <2>1, <2>3
<1>7. ASSUME NEW k \in Callers, ReceiveAnswer(k) \/ ReceiveTimesOut(k)
      PROVE  \A j \in Callers : P(callers'[j])
  <2>1. PICK p \in {"cleanup", "done"} : callers' = [callers EXCEPT ![k] = [callers[k] EXCEPT !.pc = p]]
    BY <1>1, <1>7 DEF ReceiveAnswer, ReceiveTimesOut
  <2>2. callers[k] \in CallerStates /\ callers[k].pc = "waiting"
    BY <1>1, <1>7 DEF ReceiveAnswer, ReceiveTimesOut
  <2> DEFINE x == [callers[k] EXCEPT !.pc = p]
  <2>3. x.pc = p /\ x.reply = callers[k].reply /\ x.id = callers[k].id /\ x.boot = callers[k].boot
    BY <2>1, <2>2, CallerMoves
  <2> HIDE DEF x
  <2>4. P(x)
    BY <1>1, <2>2, <2>3
  <2> HIDE DEF P
  <2> QED BY <1>3, <2>1, <2>4 DEF x
<1>8. ASSUME NEW k \in Callers, Cleanup(k)
      PROVE  \A j \in Callers : P(callers'[j])
  <2> HIDE DEF P
  <2> QED BY <1>3, <1>4, <1>8 DEF Cleanup
<1>9. CASE DaemonExits
  <2> HIDE DEF P
  <2> QED BY <1>4, <1>9 DEF DaemonExits
<1>10. CASE callers' = callers
  BY <1>1, <1>10
<1> HIDE DEF P
<1> QED BY <1>5, <1>6, <1>7, <1>8, <1>9, <1>10, CallerSteps

\* The invariant holds in every reachable state.
LEMMA BrokerInvariant == Spec => [](BrokerInv /\ ReplyHasId)
<1>1. Init => BrokerInv /\ ReplyHasId
  <2>1. Init => ReplyHasId
    BY DEF Init, ReplyHasId, IdleCaller
  <2> QED BY <2>1, BrokerInitInv
<1>2. BrokerInv /\ ReplyHasId /\ [Next]_vars => (BrokerInv /\ ReplyHasId)'
  <2> SUFFICES ASSUME BrokerInv, ReplyHasId, [Next]_vars
               PROVE  BrokerInv' /\ ReplyHasId'
    OBVIOUS
  <2>1. BrokerTypes /\ EntryOfConnection /\ Generations /\ NewestIsListed /\ PublishedLast /\ Arrives /\ PendingHasWaiter
    BY DEF BrokerInv
  <2>2. BrokerTypes'
    BY <2>1, TypesKept
  <2>3. EntryOfConnection' /\ Generations'
    BY <2>1, EntryOfConnectionKept, GenerationsKept
  <2>4. NewestIsListed'
    BY <2>1, NewestIsListedKept
  <2>5. PublishedLast' /\ Arrives'
    BY <2>1, PublishedLastKept, ArrivesKept
  <2>6. PendingHasWaiter' /\ ReplyHasId'
    BY <2>1, PendingHasWaiterKept, ReplyHasIdKept
  <2> QED BY <2>2, <2>3, <2>4, <2>5, <2>6 DEF BrokerInv
<1> QED BY <1>1, <1>2, PTL DEF Spec

\* The queues stay within their capacities and every value has its type,
\* whatever the daemon, the TUIs and the callers do.
THEOREM BrokerTyped == Spec => []TypeOK
<1>1. BrokerInv => TypeOK
  BY DEF BrokerInv, BrokerTypes
<1> QED BY <1>1, BrokerInvariant, PTL

\* complete_command and the cleanup of dispatch_session_command leave no
\* pending request behind and answer no other request id, however many daemon
\* processes follow each other.
THEOREM PendingIsWaitedFor == Spec => [](PendingHasWaiter /\ ReplyHasId)
<1>1. BrokerInv => PendingHasWaiter
  BY DEF BrokerInv
<1> QED BY <1>1, BrokerInvariant, PTL

\* With one daemon process, what dispatch_session_command returns is the answer
\* to its own command. (A second process starts its request ids at 1 again.)
THEOREM AnswersAreOwn ==
  ASSUME MaxBoots = 1
  PROVE  Spec => []AnswerIsOwn
<1>1. BrokerInv /\ ReplyHasId => AnswerIsOwn
  <2> SUFFICES ASSUME BrokerInv, ReplyHasId
               PROVE  AnswerIsOwn
    OBVIOUS
  <2>1. PendingHasWaiter /\ BrokerTypes
    BY DEF BrokerInv
  <2>2. ASSUME NEW k \in Callers, callers[k].reply # None
        PROVE  callers[k].reply.id = callers[k].id /\ callers[k].reply.boot = callers[k].boot
    <3>1. callers[k].reply.id = callers[k].id /\ callers[k].boot \in Boots
      BY <2>2 DEF ReplyHasId
    <3>2. callers[k] \in CallerStates
      BY <2>1, CallerTypes
    <3>3. callers[k].reply \in [id : RequestIds, boot : Boots]
      BY <2>2, <3>2 DEF CallerStates
    <3>4. callers[k].reply.boot \in Boots
      BY <3>3
    <3>5. \A b \in Boots : b = 1
      BY DEF Boots
    <3> QED BY <3>1, <3>4, <3>5
  <2> QED BY <2>1, <2>2 DEF AnswerIsOwn
<1> QED BY <1>1, BrokerInvariant, PTL

\* register_with_route and unregister_generation: a TUI whose connection
\* registered last is listed under that connection until it is pruned.
THEOREM LinkedIsListed == Spec => []ConnectedIsListed
<1>1. BrokerInv => ConnectedIsListed
  <2> SUFFICES ASSUME BrokerInv, NEW s \in Sessions, Linked(s), LastToRegister(s), ~tuis[s].pruned
               PROVE  Registered(s) /\ registry[s].conn = tuis[s].conn
    BY DEF ConnectedIsListed
  <2> DEFINE c == tuis[s].conn
  <2>1. BrokerTypes /\ NewestIsListed
    BY DEF BrokerInv
  <2>2. c \in Conns /\ conns[c] # None /\ conns[c].sid = s /\ conns[c].server = "open"
    BY <2>1, CurrentTypes DEF Linked, Current
  <2>3. Served(c)
    BY <2>2 DEF Served
  <2>4. Newest(c)
    BY <2>2 DEF LastToRegister, Newest, Current
  <2> QED BY <2>1, <2>2, <2>3, <2>4 DEF NewestIsListed
<1> QED BY <1>1, BrokerInvariant, PTL

\* update_snapshot and complete_command against respond and publish: once a
\* listed TUI has nothing left to send, the broker shows its latest state.
THEOREM QuietIsCurrent == Spec => []QuietSnapshotIsCurrent
<1>1. BrokerInv => QuietSnapshotIsCurrent
  <2> SUFFICES ASSUME BrokerInv, NEW s \in Sessions, Linked(s), Registered(s), registry[s].conn = tuis[s].conn,
                      tuis[s].outbound = <<>>, Current(s).up = <<>>, ~tuis[s].lost
               PROVE  registry[s].snapshot = tuis[s].version
    BY DEF QuietSnapshotIsCurrent
  <2>1. Arrives
    BY DEF BrokerInv
  <2>2. tuis[s].phase = "connected" /\ Current(s).server = "open"
    BY DEF Linked
  <2>3. ~LastSent(Current(s).up, tuis[s].version)
    BY DEF LastSent
  <2> QED BY <2>1, <2>2, <2>3 DEF Arrives
<1> QED BY <1>1, BrokerInvariant, PTL
=============================================================================
