-------------------------------- MODULE Parts --------------------------------
(***************************************************************************)
(* The smaller state machines of the program: the chat pane, the analyzers,*)
(* the Review Map in the terminal, pairing and the setup of the server.    *)
(* Each has the variables of its module; they share none, so a behaviour   *)
(* is about one of them, and the variables of the others stay unused.      *)
(***************************************************************************)
EXTENDS Integers, Sequences, FiniteSets

CONSTANTS
  Items, MaxVersion, MaxTurns, MaxConcurrent, MaxReplay, Damaged,  \* ChatPane
  Batches, StdoutLimit,                                            \* ModelBackends
  BaseMap, ServedMaps, Retries, PollLimit, MaxPolls,               \* ReviewMapPane
  Codes, Lifetime, MaxTime, MaxClients, Threads,                   \* PairedClients
  Partial,                                                         \* ServerSetup
  NoValue                                                          \* no value

VARIABLES
  part,                                           \* the component this behaviour is about
  convo, work, transcript, session, past,         \* ChatPane
  job, proc, output, probed,                      \* ModelBackends
  pane, workers,                                  \* ReviewMapPane
  memory, clients, codes, op, world_of_pairing,   \* PairedClients
  files, service, setup                           \* ServerSetup

chatState == <<convo, work, transcript, session, past>>
backendState == <<job, proc, output, probed>>
paneState == <<pane, workers>>
pairingState == <<memory, clients, codes, op, world_of_pairing>>
setupState == <<files, service, setup>>
partVars == <<part, chatState, backendState, paneState, pairingState, setupState>>

Chat == INSTANCE ChatPane WITH disk <- transcript, None <- NoValue
Backends == INSTANCE ModelBackends WITH None <- NoValue
Pane == INSTANCE ReviewMapPane WITH None <- NoValue
Pairing == INSTANCE PairedClients WITH disk <- clients, world <- world_of_pairing
Setup == INSTANCE ServerSetup WITH None <- NoValue

ASSUME ChatAssumption ==
  /\ MaxVersion \in Nat /\ MaxTurns \in Nat /\ MaxReplay \in Nat /\ MaxConcurrent \in Nat \ {0}
  /\ NoValue \notin Chat!Panes /\ NoValue \notin Chat!Sessions
  /\ NoValue \notin Chat!Transcripts /\ Damaged \notin Chat!Transcripts

ASSUME PartsAssumption ==
  /\ Batches \in Nat \ {0}
  /\ Lifetime \in Nat /\ MaxClients \in Nat
  /\ NoValue \notin {"old", "new", "Ok", "Err", "Dry"} /\ Partial \notin {NoValue, "old", "new"}

ASSUME PaneAssumption ==
  /\ BaseMap \in Pane!Maps /\ ServedMaps \subseteq Pane!Maps
  /\ PollLimit \in Nat \ {0} /\ NoValue \notin Pane!FailureCodes /\ NoValue \notin Nat

NoChat == convo = <<>> /\ work = <<>> /\ transcript = <<>> /\ session = <<>> /\ past = <<>>
NoBackends == job = <<>> /\ proc = <<>> /\ output = <<>> /\ probed = <<>>
NoPane == pane = <<>> /\ workers = <<>>
NoPairing == memory = <<>> /\ clients = <<>> /\ codes = <<>> /\ op = <<>> /\ world_of_pairing = <<>>
NoSetup == files = <<>> /\ service = <<>> /\ setup = <<>>

PartsInit ==
  \/ part = "chat" /\ Chat!Init /\ NoBackends /\ NoPane /\ NoPairing /\ NoSetup
  \/ part = "backends" /\ Backends!Init /\ NoChat /\ NoPane /\ NoPairing /\ NoSetup
  \/ part = "map" /\ Pane!Init /\ NoChat /\ NoBackends /\ NoPairing /\ NoSetup
  \/ part = "pairing" /\ Pairing!Init /\ NoChat /\ NoBackends /\ NoPane /\ NoSetup
  \/ part = "setup" /\ Setup!Init /\ NoChat /\ NoBackends /\ NoPane /\ NoPairing

PartsNext ==
  /\ UNCHANGED part
  /\ \/ part = "chat" /\ Chat!Next /\ UNCHANGED <<backendState, paneState, pairingState, setupState>>
     \/ part = "backends" /\ Backends!Next /\ UNCHANGED <<chatState, paneState, pairingState, setupState>>
     \/ part = "map" /\ Pane!Next /\ UNCHANGED <<chatState, backendState, pairingState, setupState>>
     \/ part = "pairing" /\ Pairing!Next /\ UNCHANGED <<chatState, backendState, paneState, setupState>>
     \/ part = "setup" /\ Setup!Next /\ UNCHANGED <<chatState, backendState, paneState, pairingState>>

PartsSpec == PartsInit /\ [][PartsNext]_partVars

-----------------------------------------------------------------------------
(* Properties: what each component promises, stated in full in its own     *)
(* module.                                                                 *)

\* The chat: a question goes out with everything the reviewer wrote that the session has
\* not seen, and an answer that was shown is there after a restart (send_chat_turn,
\* poll_chat, ChatStore).
ChatKeepsUp == part = "chat" => Chat!ModelIsTold /\ Chat!AnswersAreKept

\* The analyzers: a result is made of accepted answers of its own attempts, and nothing of
\* an attempt is left running or lying about when it ends (OllamaAnalyzer, PiAnalyzer,
\* SystemCommandExecutor).
AttemptsAreSeparate == part = "backends" => Backends!AnswersOfThisAttempt /\ Backends!NothingLeftRunning

\* The Review Map in the terminal: the marked row is always drawn, and the pane shows the
\* last news of the worker that was started last (ReviewMapState, ReviewMapRuntime).
MapPaneIsCurrent == part = "map" => Pane!SelectionIsShown /\ Pane!LastNewsStands

\* A credential handed out works after any restart until it is revoked, and never after
\* its revocation succeeded (ReviewMapClientTokenStore).
PairingLasts == part = "pairing" => Pairing!PairingLasts

\* A setup of the server that fails half way leaves what was there before (apply_setup).
FailedSetupIsUndone == part = "setup" => Setup!FailedSetupIsUndone
=============================================================================
