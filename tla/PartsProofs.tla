----------------------------- MODULE PartsProofs -----------------------------
(***************************************************************************)
(* Proofs about the smaller state machines: pairing, the setup of the      *)
(* server, the analyzers, the chat and the Review Map in the terminal,     *)
(* each with its inductive invariant, the specification that composes      *)
(* them, watch mode, and the messages of the session commands and the      *)
(* Review Map over HTTP.                                                   *)
(***************************************************************************)
EXTENDS WatchRuntime, Parts, FiniteSetTheorems, WellFoundedInduction, NaturalsInduction, TLAPS

-----------------------------------------------------------------------------
(* Pairing.                                                                *)

PairingRecords == [code : Nat, expires : Nat]
PairingKinds == {"Idle", "Issue", "Exchange", "Reject", "Token"}
PairingOps == [kind : PairingKinds, at : Nat, keep : SUBSET PairingRecords, code : Nat]
PairingWorlds ==
  [time : Nat, up : BOOLEAN, issued : Nat, clients : Nat,
   granted : SUBSET Nat, revoking : SUBSET Nat, revoked : SUBSET Nat]

Named == 1 .. world_of_pairing.clients

PairingTypes ==
  /\ world_of_pairing \in PairingWorlds
  /\ codes \subseteq PairingRecords
  /\ op \in [1 .. Threads -> PairingOps]
  /\ memory \subseteq Named /\ clients \subseteq Named
  /\ world_of_pairing.granted \subseteq Named
  /\ world_of_pairing.revoked \subseteq world_of_pairing.revoking /\ world_of_pairing.revoking \subseteq Named

\* A server that is down issues nothing, and authorizes nobody.
DownIsIdle == ~world_of_pairing.up => memory = {} /\ \A t \in 1 .. Threads : op[t].kind \in {"Idle", "Issue"}

PairingInv == PairingTypes /\ DownIsIdle /\ Pairing!PairingLasts

\* Nothing is paired yet.
LEMMA PairingInitInv == Pairing!Init => PairingInv
BY DEF Pairing!Init, Pairing!Idle, Pairing!PairingLasts, Pairing!authorize, PairingInv, PairingTypes, PairingWorlds,
       PairingOps, DownIsIdle, PairingRecords, PairingKinds, Named

\* The invariant is about the clients, the server and what is under way; it survives a
\* step that leaves the clients and the server alone.
LEMMA PairingFrame ==
  ASSUME PairingInv, NEW t \in 1 .. Threads, NEW o \in PairingOps, op' = [op EXCEPT ![t] = o],
         world_of_pairing.up \/ o.kind \in {"Idle", "Issue"},
         UNCHANGED <<memory, clients>>, codes' \subseteq PairingRecords, world_of_pairing' \in PairingWorlds,
         world_of_pairing'.up = world_of_pairing.up, world_of_pairing'.clients = world_of_pairing.clients,
         world_of_pairing'.granted = world_of_pairing.granted,
         world_of_pairing'.revoking = world_of_pairing.revoking,
         world_of_pairing'.revoked = world_of_pairing.revoked
  PROVE  PairingInv'
<1>1. PairingTypes'
  BY DEF PairingInv, PairingTypes, Named
<1>2. DownIsIdle'
  BY DEF PairingInv, PairingTypes, DownIsIdle
<1>3. Pairing!PairingLasts'
  BY DEF PairingInv, Pairing!PairingLasts, Pairing!authorize
<1> QED BY <1>1, <1>2, <1>3 DEF PairingInv

\* An idle operation, and a read code that is live, are of their types.
LEMMA PairingOpTypes ==
  ASSUME PairingInv, NEW t \in 1 .. Threads
  PROVE  /\ Pairing!Idle \in PairingOps
         /\ Pairing!Live(codes, world_of_pairing.time) \subseteq codes
         /\ codes \subseteq PairingRecords
         /\ op[t] \in PairingOps /\ op[t].keep \subseteq PairingRecords
         /\ world_of_pairing.time \in Nat /\ world_of_pairing.issued \in Nat
         /\ ~world_of_pairing.up => op[t].kind \in {"Idle", "Issue"}
BY DEF PairingInv, PairingTypes, PairingWorlds, PairingOps, PairingKinds, DownIsIdle, Pairing!Idle, Pairing!Live

\* The operations on the codes touch no client.
LEMMA PairingCodesInv ==
  ASSUME PairingInv, NEW t \in 1 .. Threads,
         \/ Pairing!ReadToIssue(t) \/ Pairing!ReadToExchange(t) \/ Pairing!Write(t)
         \/ Pairing!WriteExchange(t) \/ Pairing!WriteFails(t)
  PROVE  PairingInv'
<1> USE PairingOpTypes
<1>1. CASE Pairing!ReadToIssue(t)
  <2> DEFINE o == [kind |-> "Issue", at |-> world_of_pairing.time, code |-> world_of_pairing.issued + 1,
                   keep |-> Pairing!Live(codes, world_of_pairing.time)
                              \cup {[code |-> world_of_pairing.issued + 1,
                                     expires |-> world_of_pairing.time + Lifetime]}]
  <2>1. o \in PairingOps
    BY PartsAssumption DEF PairingOps, PairingKinds, PairingRecords
  <2>2. /\ op' = [op EXCEPT ![t] = o] /\ UNCHANGED <<memory, clients, codes>>
        /\ world_of_pairing' = [world_of_pairing EXCEPT !.issued = @ + 1]
    BY <1>1 DEF Pairing!ReadToIssue
  <2>3. world_of_pairing' \in PairingWorlds
    BY <2>2 DEF PairingWorlds, PairingInv, PairingTypes
  <2> QED BY <2>1, <2>2, <2>3, PairingFrame DEF PairingWorlds, PairingInv, PairingTypes
<1>2. CASE Pairing!ReadToExchange(t)
  <2>1. PICK code \in 1 .. world_of_pairing.issued :
          LET live == Pairing!Live(codes, world_of_pairing.time)
              hit  == {r \in live : r.code = code}
          IN  op' = [op EXCEPT ![t] = [kind |-> IF hit = {} THEN "Reject" ELSE "Exchange",
                                       at |-> world_of_pairing.time, code |-> code, keep |-> live \ hit]]
    BY <1>2 DEF Pairing!ReadToExchange
  <2> DEFINE live == Pairing!Live(codes, world_of_pairing.time)
             hit  == {r \in live : r.code = code}
             o    == [kind |-> IF hit = {} THEN "Reject" ELSE "Exchange", at |-> world_of_pairing.time,
                      code |-> code, keep |-> live \ hit]
  <2>2. o \in PairingOps
    BY DEF PairingOps, PairingKinds
  <2>3. world_of_pairing.up /\ UNCHANGED <<memory, clients, codes, world_of_pairing>>
    BY <1>2 DEF Pairing!ReadToExchange
  <2> QED BY <2>1, <2>2, <2>3, PairingFrame DEF PairingInv, PairingTypes
<1>3. CASE Pairing!Write(t) \/ Pairing!WriteFails(t)
  BY <1>3, PairingFrame DEF Pairing!Write, Pairing!WriteFails, Pairing!Idle, PairingInv, PairingTypes
<1>4. CASE Pairing!WriteExchange(t)
  <2>1. [op[t] EXCEPT !.kind = "Token"] \in PairingOps
    BY DEF PairingOps, PairingKinds
  <2>2. op' = [op EXCEPT ![t] = [op[t] EXCEPT !.kind = "Token"]]
    BY <1>4 DEF Pairing!WriteExchange, PairingInv, PairingTypes
  <2> QED BY <1>4, <2>1, <2>2, PairingFrame DEF Pairing!WriteExchange, PairingInv, PairingTypes
<1> QED BY <1>1, <1>2, <1>3, <1>4

\* A new client is none that was granted or revoked, and the file is written with all
\* clients of the running server.
LEMMA PairingIssueInv ==
  ASSUME PairingInv, NEW t \in 1 .. Threads, Pairing!Issue(t)
  PROVE  PairingInv'
<1> DEFINE client == world_of_pairing.clients + 1
<1>1. world_of_pairing.up /\ world_of_pairing.clients \in Nat
  BY DEF PairingInv, PairingTypes, DownIsIdle, PairingWorlds, Pairing!Issue
<1>2. /\ UNCHANGED codes /\ memory' = memory \cup {client}
      /\ \/ /\ world_of_pairing' = [world_of_pairing EXCEPT !.clients = client, !.granted = @ \cup {client}]
            /\ clients' = memory'
         \/ world_of_pairing' = [world_of_pairing EXCEPT !.clients = client] /\ clients' = clients
  BY DEF Pairing!Issue
<1>3. /\ world_of_pairing' \in PairingWorlds
      /\ world_of_pairing'.up /\ world_of_pairing'.clients = client
      /\ world_of_pairing'.revoking = world_of_pairing.revoking
      /\ world_of_pairing'.revoked = world_of_pairing.revoked
      /\ \/ clients' = memory' /\ world_of_pairing'.granted = world_of_pairing.granted \cup {client}
         \/ clients' = clients /\ world_of_pairing'.granted = world_of_pairing.granted
  <2>1. world_of_pairing \in PairingWorlds /\ client \in Nat
    BY <1>1 DEF PairingInv, PairingTypes
  <2>2. CASE /\ world_of_pairing' = [world_of_pairing EXCEPT !.clients = client, !.granted = @ \cup {client}]
             /\ clients' = memory'
    BY <1>1, <2>1, <2>2 DEF PairingWorlds
  <2>3. CASE world_of_pairing' = [world_of_pairing EXCEPT !.clients = client] /\ clients' = clients
    BY <1>1, <2>1, <2>3 DEF PairingWorlds
  <2> QED BY <1>2, <2>2, <2>3
<1>8. client \notin Named /\ Named' = Named \cup {client}
  BY <1>1, <1>3 DEF Named
<1>4. op' \in [1 .. Threads -> PairingOps]
  BY PairingOpTypes DEF PairingInv, PairingTypes, Pairing!Issue
<1>5. PairingTypes'
  BY <1>2, <1>3, <1>4, <1>8 DEF PairingInv, PairingTypes
<1>6. DownIsIdle'
  BY <1>3 DEF DownIsIdle
<1>7. Pairing!PairingLasts'
  BY <1>1, <1>2, <1>3, <1>8 DEF PairingInv, PairingTypes, Pairing!PairingLasts, Pairing!authorize
<1> QED BY <1>5, <1>6, <1>7 DEF PairingInv

\* A revocation takes one client away, and from the file when it succeeded.
LEMMA PairingRevokeInv ==
  ASSUME PairingInv, NEW client \in Named, Pairing!revoke(client)
  PROVE  PairingInv'
<1>1. /\ world_of_pairing' \in PairingWorlds /\ UNCHANGED <<codes, op>> /\ Named' = Named
      /\ world_of_pairing.up /\ world_of_pairing'.up /\ memory' = memory \ {client}
      /\ world_of_pairing'.revoking = world_of_pairing.revoking \cup {client}
      /\ world_of_pairing'.granted = world_of_pairing.granted
      /\ \/ clients' = memory' /\ world_of_pairing'.revoked = world_of_pairing.revoked \cup {client}
         \/ clients' = clients /\ world_of_pairing'.revoked = world_of_pairing.revoked
  <2>1. world_of_pairing \in PairingWorlds /\ client \in Nat /\ world_of_pairing.up
    BY DEF PairingInv, PairingTypes, Named, Pairing!revoke, Pairing!authorize
  <2>2. /\ UNCHANGED <<codes, op>> /\ memory' = memory \ {client}
        /\ \/ /\ world_of_pairing' = [world_of_pairing EXCEPT !.revoked = @ \cup {client}, !.revoking = @ \cup {client}]
              /\ clients' = memory'
           \/ world_of_pairing' = [world_of_pairing EXCEPT !.revoking = @ \cup {client}] /\ clients' = clients
    BY DEF Pairing!revoke
  <2>3. CASE /\ world_of_pairing' = [world_of_pairing EXCEPT !.revoked = @ \cup {client}, !.revoking = @ \cup {client}]
             /\ clients' = memory'
    BY <2>1, <2>2, <2>3 DEF PairingWorlds, Named
  <2>4. CASE world_of_pairing' = [world_of_pairing EXCEPT !.revoking = @ \cup {client}] /\ clients' = clients
    BY <2>1, <2>2, <2>4 DEF PairingWorlds, Named
  <2> QED BY <2>2, <2>3, <2>4
<1>2. PairingTypes'
  BY <1>1 DEF PairingInv, PairingTypes
<1>3. DownIsIdle'
  BY <1>1 DEF DownIsIdle
<1>4. Pairing!PairingLasts'
  BY <1>1 DEF PairingInv, PairingTypes, Pairing!PairingLasts, Pairing!authorize
<1> QED BY <1>2, <1>3, <1>4 DEF PairingInv

\* A server starts with what is on disk.
LEMMA PairingServerInv ==
  ASSUME PairingInv, Pairing!Stop \/ Pairing!Start \/ Pairing!Tick
  PROVE  PairingInv'
<1>1. /\ world_of_pairing' \in PairingWorlds /\ UNCHANGED <<codes, clients>> /\ Named' = Named
      /\ world_of_pairing'.revoking = world_of_pairing.revoking
      /\ world_of_pairing'.granted = world_of_pairing.granted
      /\ world_of_pairing'.revoked = world_of_pairing.revoked
      /\ \/ memory' = {} /\ ~world_of_pairing'.up
         \/ memory' = clients /\ world_of_pairing'.up
         \/ memory' = memory /\ world_of_pairing'.up = world_of_pairing.up
  <2>1. world_of_pairing \in PairingWorlds
    BY DEF PairingInv, PairingTypes
  <2>2. CASE Pairing!Stop
    BY <2>1, <2>2 DEF PairingWorlds, Named, Pairing!Stop
  <2>3. CASE Pairing!Start
    BY <2>1, <2>3 DEF PairingWorlds, Named, Pairing!Start
  <2>4. CASE Pairing!Tick
    BY <2>1, <2>4 DEF PairingWorlds, Named, Pairing!Tick
  <2> QED BY <2>2, <2>3, <2>4
<1>2. op' \in [1 .. Threads -> PairingOps]
  BY PairingOpTypes DEF PairingInv, PairingTypes, Pairing!Stop, Pairing!Start, Pairing!Tick
<1>3. PairingTypes'
  BY <1>1, <1>2 DEF PairingInv, PairingTypes
<1>4. DownIsIdle'
  <2>1. CASE Pairing!Stop
    BY <2>1 DEF PairingInv, PairingTypes, PairingWorlds, DownIsIdle, Pairing!Stop, Pairing!Idle
  <2>2. CASE Pairing!Start
    BY <2>2 DEF PairingInv, PairingTypes, PairingWorlds, DownIsIdle, Pairing!Start
  <2>3. CASE Pairing!Tick
    BY <2>3 DEF PairingInv, PairingTypes, PairingWorlds, DownIsIdle, Pairing!Tick
  <2> QED BY <2>1, <2>2, <2>3
<1>5. Pairing!PairingLasts'
  BY <1>1 DEF PairingInv, Pairing!PairingLasts, Pairing!authorize
<1> QED BY <1>3, <1>4, <1>5 DEF PairingInv

\* Every request, restart and revocation keeps the invariant.
LEMMA PairingNextInv == PairingInv /\ [Pairing!Next]_pairingState => PairingInv'
<1> SUFFICES ASSUME PairingInv, [Pairing!Next]_pairingState PROVE PairingInv' OBVIOUS
<1>1. CASE UNCHANGED pairingState
  BY <1>1 DEF pairingState, PairingInv, PairingTypes, Named, DownIsIdle, Pairing!PairingLasts, Pairing!authorize
<1>2. CASE Pairing!Next
  BY <1>2, PairingCodesInv, PairingIssueInv, PairingRevokeInv, PairingServerInv DEF Pairing!Next, Named
<1> QED BY <1>1, <1>2

-----------------------------------------------------------------------------
(* Setup of the server.                                                    *)

SetupTexts == {NoValue, "old", "new", Partial}
SetupFiles == [unit : SetupTexts, endpoint : SetupTexts]
SetupServices == [loaded : SetupTexts, running : SetupTexts]
SetupSteps ==
  {"Plan", "Read", "Endpoint", "Unit", "Reload", "Enable", "Publish", "Restore", "RestoreEndpoint", "Done"}
SetupRuns ==
  [step : SetupSteps, unit : SetupTexts, endpoint : SetupTexts, was : SetupFiles,
   untold : BOOLEAN, undone : BOOLEAN, result : {NoValue, "Ok", "Err", "Dry"}]

SetupTypes ==
  /\ files \in SetupFiles
  /\ service \in SetupServices
  /\ setup \in SetupRuns

\* What the run remembers is what there was, as far as it could be read.
SetupRemembers == setup.untold \/ (setup.unit = setup.was.unit /\ setup.endpoint = setup.was.endpoint)

\* How far the run has come, and what it has changed by then.
SetupProgress ==
  /\ setup.step \in {"Plan", "Read"} => files = setup.was /\ ~setup.untold
  /\ setup.step \in {"Endpoint", "Unit", "Reload", "Enable", "Publish", "Restore"} => SetupRemembers
  /\ setup.step = "Endpoint" => files = setup.was
  /\ setup.step = "Unit" => files.unit = setup.was.unit /\ files.endpoint = "new"
  /\ setup.step \in {"Reload", "Enable", "Publish"} => files.unit = "new" /\ files.endpoint = "new"
  /\ setup.step = "Enable" => service.loaded = "new"
  /\ setup.step = "Publish" => service.running # NoValue
  /\ setup.step = "RestoreEndpoint" =>
       setup.untold \/ ~setup.undone \/ (files.unit = setup.was.unit /\ setup.endpoint = setup.was.endpoint)
  /\ setup.step # "Done" => setup.result = NoValue

SetupInv == SetupTypes /\ SetupProgress /\ Setup!FailedSetupIsUndone

\* A first run begins on a machine that has a service or none.
LEMMA SetupInitInv == Setup!Init => SetupInv
BY PartsAssumption DEF Setup!Init, SetupInv, SetupTypes, SetupTexts, SetupFiles, SetupServices, SetupSteps, SetupRuns,
   SetupProgress, SetupRemembers, Setup!FailedSetupIsUndone

\* Up to the first write nothing changes.
LEMMA SetupReadsInv ==
  ASSUME SetupInv, Setup!build_setup_plan \/ Setup!ReadPrevious \/ Setup!DryRun \/ Setup!Again
  PROVE  SetupInv'
<1> USE DEF SetupInv
<1>1. CASE Setup!build_setup_plan
  <2>1. setup.step = "Plan" /\ UNCHANGED <<files, service>>
    BY <1>1 DEF Setup!build_setup_plan, Setup!Step
  <2>2. CASE setup' = [setup EXCEPT !.step = "Done", !.result = "Err"]
    <3>1. SetupTypes'
      BY <2>1, <2>2 DEF SetupTypes, SetupTexts, SetupFiles, SetupServices, SetupSteps, SetupRuns
    <3>2. SetupProgress' /\ Setup!FailedSetupIsUndone'
      BY <2>1, <2>2, PartsAssumption
         DEF SetupTypes, SetupTexts, SetupFiles, SetupServices, SetupRuns, SetupProgress, SetupRemembers,
             Setup!FailedSetupIsUndone
    <3> QED BY <3>1, <3>2
  <2>3. CASE setup' = [setup EXCEPT !.step = "Read"]
    <3>1. SetupTypes'
      BY <2>1, <2>3 DEF SetupTypes, SetupTexts, SetupFiles, SetupServices, SetupSteps, SetupRuns
    <3>2. SetupProgress' /\ Setup!FailedSetupIsUndone'
      BY <2>1, <2>3, PartsAssumption
         DEF SetupTypes, SetupTexts, SetupFiles, SetupServices, SetupRuns, SetupProgress, SetupRemembers,
             Setup!FailedSetupIsUndone
    <3> QED BY <3>1, <3>2
  <2> QED BY <1>1, <2>2, <2>3 DEF Setup!build_setup_plan, Setup!Step
<1>2. CASE Setup!ReadPrevious
  <2>1. PICK unit \in {files.unit, NoValue}, endpoint \in {files.endpoint, NoValue} : setup.step = "Read" /\ UNCHANGED <<files, service>> /\
                setup' = [setup EXCEPT !.step = "Endpoint", !.unit = unit, !.endpoint = endpoint,
                                       !.untold = unit # files.unit \/ endpoint # files.endpoint]
    BY <1>2 DEF Setup!ReadPrevious
  <2>2. SetupTypes'
    BY <2>1 DEF SetupTypes, SetupTexts, SetupFiles, SetupServices, SetupSteps, SetupRuns
  <2>3. SetupProgress' /\ Setup!FailedSetupIsUndone'
    BY <2>1, PartsAssumption
         DEF SetupTypes, SetupTexts, SetupFiles, SetupServices, SetupRuns, SetupProgress, SetupRemembers,
             Setup!FailedSetupIsUndone
  <2> QED BY <2>2, <2>3
<1>3. CASE Setup!DryRun
  <2>1. setup.step = "Read" /\ UNCHANGED <<files, service>> /\ setup' = [setup EXCEPT !.step = "Done", !.result = "Dry"]
    BY <1>3 DEF Setup!DryRun
  <2>2. SetupTypes'
    BY <2>1 DEF SetupTypes, SetupTexts, SetupFiles, SetupServices, SetupSteps, SetupRuns
  <2>3. SetupProgress' /\ Setup!FailedSetupIsUndone'
    BY <2>1, PartsAssumption
         DEF SetupTypes, SetupTexts, SetupFiles, SetupServices, SetupRuns, SetupProgress, SetupRemembers,
             Setup!FailedSetupIsUndone
  <2> QED BY <2>2, <2>3
<1>4. CASE Setup!Again
  <2>1. setup.step = "Done" /\ UNCHANGED <<files, service>> /\
        setup' = [setup EXCEPT !.step = "Plan", !.was = files, !.unit = NoValue, !.endpoint = NoValue,
                               !.untold = FALSE, !.undone = TRUE, !.result = NoValue]
    BY <1>4 DEF Setup!Again
  <2>2. SetupTypes'
    BY <2>1 DEF SetupTypes, SetupTexts, SetupFiles, SetupServices, SetupSteps, SetupRuns
  <2>3. SetupProgress' /\ Setup!FailedSetupIsUndone'
    BY <2>1, PartsAssumption
         DEF SetupTypes, SetupTexts, SetupFiles, SetupServices, SetupRuns, SetupProgress, SetupRemembers,
             Setup!FailedSetupIsUndone
  <2> QED BY <2>2, <2>3
<1> QED BY <1>1, <1>2, <1>3, <1>4

\* The writes, and the commands that start the service.
LEMMA SetupWritesInv ==
  ASSUME SetupInv, Setup!WriteEndpoint \/ Setup!WriteUnit \/ Setup!Reload \/ Setup!Enable \/ Setup!publish
  PROVE  SetupInv'
<1> USE DEF SetupInv
<1>1. CASE Setup!WriteEndpoint
  <2>1. setup.step = "Endpoint" /\ UNCHANGED service
    BY <1>1 DEF Setup!WriteEndpoint, Setup!Step, Setup!Fails
  <2>2. CASE files' = [files EXCEPT !.endpoint = "new"] /\ setup' = [setup EXCEPT !.step = "Unit"]
    <3>1. SetupTypes'
      BY <2>1, <2>2 DEF SetupTypes, SetupTexts, SetupFiles, SetupServices, SetupSteps, SetupRuns
    <3>2. SetupProgress' /\ Setup!FailedSetupIsUndone'
      BY <2>1, <2>2, PartsAssumption
         DEF SetupTypes, SetupTexts, SetupFiles, SetupServices, SetupRuns, SetupProgress, SetupRemembers,
             Setup!FailedSetupIsUndone
    <3> QED BY <3>1, <3>2
  <2>3. ASSUME NEW left \in {files.endpoint, Partial}, files' = [files EXCEPT !.endpoint = left],
               setup' = [setup EXCEPT !.step = "Done", !.untold = @ \/ left = Partial, !.result = "Err"]
        PROVE  SetupInv'
    <3>1. SetupTypes'
      BY <2>1, <2>3 DEF SetupTypes, SetupTexts, SetupFiles, SetupServices, SetupSteps, SetupRuns
    <3>2. SetupProgress' /\ Setup!FailedSetupIsUndone'
      BY <2>1, <2>3, PartsAssumption
         DEF SetupTypes, SetupTexts, SetupFiles, SetupServices, SetupRuns, SetupProgress, SetupRemembers,
             Setup!FailedSetupIsUndone
    <3> QED BY <3>1, <3>2
  <2> QED BY <1>1, <2>2, <2>3 DEF Setup!WriteEndpoint, Setup!Step, Setup!Fails
<1>2. CASE Setup!WriteUnit
  <2>1. setup.step = "Unit" /\ UNCHANGED service
    BY <1>2 DEF Setup!WriteUnit, Setup!Step
  <2>2. CASE files' = [files EXCEPT !.unit = "new"] /\ setup' = [setup EXCEPT !.step = "Reload"]
    <3>1. SetupTypes'
      BY <2>1, <2>2 DEF SetupTypes, SetupTexts, SetupFiles, SetupServices, SetupSteps, SetupRuns
    <3>2. SetupProgress' /\ Setup!FailedSetupIsUndone'
      BY <2>1, <2>2, PartsAssumption
         DEF SetupTypes, SetupTexts, SetupFiles, SetupServices, SetupRuns, SetupProgress, SetupRemembers,
             Setup!FailedSetupIsUndone
    <3> QED BY <3>1, <3>2
  <2>3. ASSUME NEW left \in {files.unit, Partial}, files' = [files EXCEPT !.unit = left], setup' = [setup EXCEPT !.step = "Restore"]
        PROVE  SetupInv'
    <3>1. SetupTypes'
      BY <2>1, <2>3 DEF SetupTypes, SetupTexts, SetupFiles, SetupServices, SetupSteps, SetupRuns
    <3>2. SetupProgress' /\ Setup!FailedSetupIsUndone'
      BY <2>1, <2>3, PartsAssumption
         DEF SetupTypes, SetupTexts, SetupFiles, SetupServices, SetupRuns, SetupProgress, SetupRemembers,
             Setup!FailedSetupIsUndone
    <3> QED BY <3>1, <3>2
  <2> QED BY <1>2, <2>2, <2>3 DEF Setup!WriteUnit, Setup!Step
<1>3. CASE Setup!Reload
  <2>1. setup.step = "Reload" /\ UNCHANGED files
    BY <1>3 DEF Setup!Reload, Setup!Step
  <2>2. CASE service' = [service EXCEPT !.loaded = files.unit] /\ setup' = [setup EXCEPT !.step = "Enable"]
    <3>1. SetupTypes'
      BY <2>1, <2>2 DEF SetupTypes, SetupTexts, SetupFiles, SetupServices, SetupSteps, SetupRuns
    <3>2. SetupProgress' /\ Setup!FailedSetupIsUndone'
      BY <2>1, <2>2, PartsAssumption
         DEF SetupTypes, SetupTexts, SetupFiles, SetupServices, SetupRuns, SetupProgress, SetupRemembers,
             Setup!FailedSetupIsUndone
    <3> QED BY <3>1, <3>2
  <2>3. CASE UNCHANGED service /\ setup' = [setup EXCEPT !.step = "Restore"]
    <3>1. SetupTypes'
      BY <2>1, <2>3 DEF SetupTypes, SetupTexts, SetupFiles, SetupServices, SetupSteps, SetupRuns
    <3>2. SetupProgress' /\ Setup!FailedSetupIsUndone'
      BY <2>1, <2>3, PartsAssumption
         DEF SetupTypes, SetupTexts, SetupFiles, SetupServices, SetupRuns, SetupProgress, SetupRemembers,
             Setup!FailedSetupIsUndone
    <3> QED BY <3>1, <3>2
  <2> QED BY <1>3, <2>2, <2>3 DEF Setup!Reload, Setup!Step
<1>4. CASE Setup!Enable
  <2>1. setup.step = "Enable" /\ UNCHANGED files
    BY <1>4 DEF Setup!Enable, Setup!Step
  <2>2. CASE /\ service' = [service EXCEPT !.running = IF @ = NoValue THEN service.loaded ELSE @]
             /\ setup' = [setup EXCEPT !.step = "Publish"]
    <3>1. SetupTypes'
      BY <2>1, <2>2 DEF SetupTypes, SetupTexts, SetupFiles, SetupServices, SetupSteps, SetupRuns
    <3>2. SetupProgress' /\ Setup!FailedSetupIsUndone'
      BY <2>1, <2>2, PartsAssumption
         DEF SetupTypes, SetupTexts, SetupFiles, SetupServices, SetupRuns, SetupProgress, SetupRemembers,
             Setup!FailedSetupIsUndone
    <3> QED BY <3>1, <3>2
  <2>3. CASE UNCHANGED service /\ setup' = [setup EXCEPT !.step = "Restore"]
    <3>1. SetupTypes'
      BY <2>1, <2>3 DEF SetupTypes, SetupTexts, SetupFiles, SetupServices, SetupSteps, SetupRuns
    <3>2. SetupProgress' /\ Setup!FailedSetupIsUndone'
      BY <2>1, <2>3, PartsAssumption
         DEF SetupTypes, SetupTexts, SetupFiles, SetupServices, SetupRuns, SetupProgress, SetupRemembers,
             Setup!FailedSetupIsUndone
    <3> QED BY <3>1, <3>2
  <2> QED BY <1>4, <2>2, <2>3 DEF Setup!Enable, Setup!Step
<1>5. CASE Setup!publish
  <2>1. setup.step = "Publish" /\ UNCHANGED <<files, service>>
    BY <1>5 DEF Setup!publish
  <2>2. CASE setup' = [setup EXCEPT !.step = "Done", !.result = "Ok"]
    <3>1. SetupTypes'
      BY <2>1, <2>2 DEF SetupTypes, SetupTexts, SetupFiles, SetupServices, SetupSteps, SetupRuns
    <3>2. SetupProgress' /\ Setup!FailedSetupIsUndone'
      BY <2>1, <2>2, PartsAssumption
         DEF SetupTypes, SetupTexts, SetupFiles, SetupServices, SetupRuns, SetupProgress, SetupRemembers,
             Setup!FailedSetupIsUndone
    <3> QED BY <3>1, <3>2
  <2>3. CASE setup' = [setup EXCEPT !.step = "Restore"]
    <3>1. SetupTypes'
      BY <2>1, <2>3 DEF SetupTypes, SetupTexts, SetupFiles, SetupServices, SetupSteps, SetupRuns
    <3>2. SetupProgress' /\ Setup!FailedSetupIsUndone'
      BY <2>1, <2>3, PartsAssumption
         DEF SetupTypes, SetupTexts, SetupFiles, SetupServices, SetupRuns, SetupProgress, SetupRemembers,
             Setup!FailedSetupIsUndone
    <3> QED BY <3>1, <3>2
  <2> QED BY <1>5, <2>2, <2>3 DEF Setup!publish
<1> QED BY <1>1, <1>2, <1>3, <1>4, <1>5

\* The way back.
LEMMA SetupUndoesInv ==
  ASSUME SetupInv, Setup!restore \/ Setup!restore_file
  PROVE  SetupInv'
<1> USE DEF SetupInv
<1>1. CASE Setup!restore
  <2>1. setup.step = "Restore"
    BY <1>1 DEF Setup!restore, Setup!Step
  <2>2. CASE /\ files' = [files EXCEPT !.unit = setup.unit]
             /\ service' = [loaded |-> setup.unit, running |-> setup.unit]
             /\ setup' = [setup EXCEPT !.step = "RestoreEndpoint"]
    <3>1. SetupTypes'
      BY <2>1, <2>2 DEF SetupTypes, SetupTexts, SetupFiles, SetupServices, SetupSteps, SetupRuns
    <3>2. SetupProgress' /\ Setup!FailedSetupIsUndone'
      BY <2>1, <2>2, PartsAssumption
         DEF SetupTypes, SetupTexts, SetupFiles, SetupServices, SetupRuns, SetupProgress, SetupRemembers,
             Setup!FailedSetupIsUndone
    <3> QED BY <3>1, <3>2
  <2>3. CASE /\ files' \in SetupFiles /\ service' \in SetupServices
             /\ setup' = [setup EXCEPT !.step = "RestoreEndpoint", !.undone = FALSE]
    <3>1. SetupTypes'
      BY <2>1, <2>3 DEF SetupTypes, SetupTexts, SetupFiles, SetupServices, SetupSteps, SetupRuns
    <3>2. SetupProgress' /\ Setup!FailedSetupIsUndone'
      BY <2>1, <2>3, PartsAssumption
         DEF SetupTypes, SetupTexts, SetupFiles, SetupServices, SetupRuns, SetupProgress, SetupRemembers,
             Setup!FailedSetupIsUndone
    <3> QED BY <3>1, <3>2
  <2>4. files' \in SetupFiles /\ service' \in SetupServices
    BY <1>1 DEF Setup!restore, SetupTypes, SetupTexts, SetupFiles, SetupServices, SetupRuns
  <2> QED BY <1>1, <2>2, <2>3, <2>4 DEF Setup!restore, Setup!Step
<1>2. CASE Setup!restore_file
  <2>1. setup.step = "RestoreEndpoint" /\ UNCHANGED service
    BY <1>2 DEF Setup!restore_file
  <2>2. CASE /\ files' = [files EXCEPT !.endpoint = setup.endpoint]
             /\ setup' = [setup EXCEPT !.step = "Done", !.result = "Err"]
    <3>1. SetupTypes'
      BY <2>1, <2>2 DEF SetupTypes, SetupTexts, SetupFiles, SetupServices, SetupSteps, SetupRuns
    <3>2. SetupProgress' /\ Setup!FailedSetupIsUndone'
      BY <2>1, <2>2, PartsAssumption
         DEF SetupTypes, SetupTexts, SetupFiles, SetupServices, SetupRuns, SetupProgress, SetupRemembers,
             Setup!FailedSetupIsUndone
    <3> QED BY <3>1, <3>2
  <2>3. ASSUME NEW left \in {files.endpoint, Partial}, files' = [files EXCEPT !.endpoint = left],
               setup' = [setup EXCEPT !.step = "Done", !.result = "Err", !.undone = FALSE]
        PROVE  SetupInv'
    <3>1. SetupTypes'
      BY <2>1, <2>3 DEF SetupTypes, SetupTexts, SetupFiles, SetupServices, SetupSteps, SetupRuns
    <3>2. SetupProgress' /\ Setup!FailedSetupIsUndone'
      BY <2>1, <2>3, PartsAssumption
         DEF SetupTypes, SetupTexts, SetupFiles, SetupServices, SetupRuns, SetupProgress, SetupRemembers,
             Setup!FailedSetupIsUndone
    <3> QED BY <3>1, <3>2
  <2> QED BY <1>2, <2>2, <2>3 DEF Setup!restore_file
<1> QED BY <1>1, <1>2

\* Every step of a setup, done or undone, keeps the invariant.
LEMMA SetupNextInv == SetupInv /\ [Setup!Next]_setupState => SetupInv'
<1> SUFFICES ASSUME SetupInv, [Setup!Next]_setupState PROVE SetupInv' OBVIOUS
<1>1. CASE UNCHANGED setupState
  BY <1>1 DEF setupState, SetupInv, SetupTypes, SetupProgress, SetupRemembers, Setup!FailedSetupIsUndone
<1>2. CASE Setup!Next
  BY <1>2, SetupReadsInv, SetupWritesInv, SetupUndoesInv DEF Setup!Next
<1> QED BY <1>1, <1>2

-----------------------------------------------------------------------------
(* The analyzers.                                                          *)

BackendPhases == {"Probe", "Tags", "Chat", "Spawn", "Stdin", "Wait", "Join", "Done"}
BackendCodes ==
  {"OllamaUnavailable", "AnalysisTimedOut", "ModelMissing", "AnalysisFailed", "AnalysisInvalid", "AnalysisLowQuality"}
KeptAnswers == [request : Nat, attempt : Nat, now : Nat]
BackendJobs ==
  [backend : {"ollama", "pi"}, request : 1 .. Backends!Requests, attempt : Nat, repair : BOOLEAN, calls : Nat,
   kept : Seq(KeptAnswers), phase : BackendPhases, timedOut : BOOLEAN, result : BackendCodes \cup {NoValue, "Ok"}]
BackendOutputs == [attempt : Nat, answer : Backends!Answers]

\* One answer is kept per request that is over, each of the attempt it was accepted in.
KeepsOwnAnswers(j) ==
  /\ Len(j.kept) = IF j.result = "Ok" THEN Backends!Requests ELSE j.request - 1
  /\ \A i \in DOMAIN j.kept : j.kept[i].request = i /\ j.kept[i].attempt = j.kept[i].now

\* A request has an attempt and a repair.
AttemptsAreCounted(j) ==
  /\ j.attempt <= 2 * j.request
  /\ j.phase # "Done" /\ ~j.repair => j.attempt < 2 * j.request

RunsInOrder(j) ==
  /\ j.phase # "Done" => j.result = NoValue
  /\ j.backend = "ollama" => j.phase \in {"Tags", "Chat", "Done"}

BackendJobInv(j) == j \in BackendJobs /\ KeepsOwnAnswers(j) /\ AttemptsAreCounted(j) /\ RunsInOrder(j)

\* The workspace holds what the attempt under way has submitted.
OutputIsOwn(o, j) == o # NoValue => o \in BackendOutputs /\ o.attempt = j.attempt

\* A child runs only while somebody waits for it.
ChildIsWatched(p, j) == j.phase \notin {"Stdin", "Wait", "Join"} => p = NoValue

BackendInv == BackendJobInv(job) /\ OutputIsOwn(output, job) /\ ChildIsWatched(proc, job)

\* A request and its synthesis, if there are batches to be put together.
LEMMA RequestsNat == Backends!Requests \in Nat /\ Backends!Requests > 0
BY PartsAssumption DEF Backends!Requests

\* The invariant says what AttemptsAreSeparate does.
LEMMA BackendSafe == BackendInv => Backends!AnswersOfThisAttempt /\ Backends!NothingLeftRunning
BY RequestsNat DEF BackendInv, BackendJobInv, BackendJobs, KeepsOwnAnswers, AttemptsAreCounted, ChildIsWatched,
   Backends!AnswersOfThisAttempt, Backends!NothingLeftRunning

\* An analysis starts with its first attempt, and nothing runs yet.
LEMMA BackendInitInv == Backends!Init => BackendInv
<1> SUFFICES ASSUME Backends!Init PROVE BackendInv OBVIOUS
<1>1. PICK backend \in {"ollama", "pi"} :
        job = [backend |-> backend, request |-> 1, attempt |-> 1, repair |-> FALSE, calls |-> 0, kept |-> <<>>,
               phase |-> IF backend = "pi" THEN "Probe" ELSE "Tags", timedOut |-> FALSE, result |-> NoValue]
  BY DEF Backends!Init
<1>2. job \in BackendJobs
  BY <1>1, RequestsNat DEF BackendJobs, BackendPhases
<1>3. KeepsOwnAnswers(job) /\ AttemptsAreCounted(job) /\ RunsInOrder(job)
  BY <1>1, PartsAssumption DEF KeepsOwnAnswers, AttemptsAreCounted, RunsInOrder
<1> QED BY <1>2, <1>3 DEF Backends!Init, BackendInv, BackendJobInv, OutputIsOwn, ChildIsWatched

\* A step within an attempt changes neither the request nor what was kept.
LEMMA SameAttempt ==
  ASSUME BackendInv, job.phase # "Done", NEW stage \in BackendPhases \ {"Done"}, NEW timed \in BOOLEAN, NEW n \in Nat,
         job' = [job EXCEPT !.phase = stage, !.timedOut = timed, !.calls = n],
         job.backend = "ollama" => stage \in {"Tags", "Chat"},
         UNCHANGED output \/ OutputIsOwn(output', job), ChildIsWatched(proc', job')
  PROVE  BackendInv'
<1>1. job' \in BackendJobs
  BY DEF BackendInv, BackendJobInv, BackendJobs
<1>2. KeepsOwnAnswers(job') /\ AttemptsAreCounted(job') /\ RunsInOrder(job')
  BY DEF BackendInv, BackendJobInv, BackendJobs, KeepsOwnAnswers, AttemptsAreCounted, RunsInOrder
<1>3. OutputIsOwn(output', job')
  BY DEF BackendInv, BackendJobInv, BackendJobs, OutputIsOwn
<1> QED BY <1>1, <1>2, <1>3 DEF BackendInv, BackendJobInv

\* A failure ends the analysis, with no child.
LEMMA FailInv ==
  ASSUME BackendInv, job.phase # "Done", NEW code \in BackendCodes, Backends!Fail(code), UNCHANGED output, proc' = NoValue
  PROVE  BackendInv'
<1>1. job' = [job EXCEPT !.phase = "Done", !.result = code]
  BY DEF Backends!Fail
<1>2. job' \in BackendJobs
  BY <1>1 DEF BackendInv, BackendJobInv, BackendJobs, BackendPhases
<1>3. KeepsOwnAnswers(job') /\ AttemptsAreCounted(job') /\ RunsInOrder(job')
  BY <1>1, PartsAssumption
     DEF BackendInv, BackendJobInv, BackendJobs, BackendCodes, KeepsOwnAnswers, AttemptsAreCounted, RunsInOrder
<1>4. OutputIsOwn(output', job') /\ ChildIsWatched(proc', job')
  BY <1>1 DEF BackendInv, BackendJobInv, BackendJobs, OutputIsOwn, ChildIsWatched
<1> QED BY <1>2, <1>3, <1>4 DEF BackendInv, BackendJobInv

\* An attempt starts in a workspace of its own.
LEMMA StartAttemptInv ==
  ASSUME NEW j \in BackendJobs, KeepsOwnAnswers(j), j.result = NoValue, j.attempt < 2 * j.request,
         ~j.repair => j.attempt + 1 < 2 * j.request, Backends!StartAttempt(j), proc' = NoValue
  PROVE  BackendInv'
<1> DEFINE stage == IF j.backend = "pi" THEN "Spawn" ELSE "Chat"
<1>1. job' = [j EXCEPT !.attempt = @ + 1, !.phase = stage, !.timedOut = FALSE] /\ output' = NoValue
  BY DEF Backends!StartAttempt
<1>2. stage \in BackendPhases \ {"Done"} /\ (j.backend = "ollama" => stage = "Chat")
  BY DEF BackendPhases, BackendJobs
<1> HIDE DEF stage
<1>3. job' \in BackendJobs
  <2>1. j.attempt + 1 \in Nat
    BY DEF BackendJobs
  <2>2. job' = [j EXCEPT !.attempt = j.attempt + 1, !.phase = stage, !.timedOut = FALSE]
    BY <1>1
  <2> QED BY <1>2, <2>1, <2>2 DEF BackendJobs
<1>4. KeepsOwnAnswers(job') /\ AttemptsAreCounted(job') /\ RunsInOrder(job')
  BY <1>1, <1>2 DEF BackendJobs, KeepsOwnAnswers, AttemptsAreCounted, RunsInOrder
<1> QED BY <1>1, <1>3, <1>4, PartsAssumption DEF BackendInv, BackendJobInv, OutputIsOwn, ChildIsWatched

\* An accepted answer is kept, and the next request or the end follows; another one is
\* repaired once.
LEMMA ReceivedInv ==
  ASSUME BackendInv, job.phase # "Done", NEW answer \in Backends!Answers, Backends!Received(answer, job.attempt),
         proc' = NoValue
  PROVE  BackendInv'
<1> DEFINE kept == [job EXCEPT !.kept = Append(@, [request |-> job.request, attempt |-> job.attempt, now |-> job.attempt]),
                               !.repair = FALSE]
<1>1. /\ job \in BackendJobs /\ KeepsOwnAnswers(job) /\ job.result = NoValue
      /\ job.attempt <= 2 * job.request /\ (~job.repair => job.attempt < 2 * job.request)
  BY DEF BackendInv, BackendJobInv, AttemptsAreCounted, RunsInOrder
<1>7. job.request <= Backends!Requests /\ job.request \in Nat /\ job.repair \in BOOLEAN
  BY <1>1, RequestsNat DEF BackendJobs
<1>2. /\ kept \in BackendJobs /\ Len(kept.kept) = job.request
      /\ \A i \in DOMAIN kept.kept : kept.kept[i].request = i /\ kept.kept[i].attempt = kept.kept[i].now
  <2>1. [request |-> job.request, attempt |-> job.attempt, now |-> job.attempt] \in KeptAnswers
    BY <1>1 DEF BackendJobs, KeptAnswers
  <2>2. kept \in BackendJobs
    <3>1. Append(job.kept, [request |-> job.request, attempt |-> job.attempt, now |-> job.attempt]) \in Seq(KeptAnswers)
      BY <1>1, <2>1 DEF BackendJobs
    <3>2. kept = [job EXCEPT !.kept = Append(job.kept, [request |-> job.request, attempt |-> job.attempt, now |-> job.attempt]),
                             !.repair = FALSE]
      BY <1>1 DEF BackendJobs
    <3> QED BY <1>1, <3>1, <3>2 DEF BackendJobs
  <2>3. Len(job.kept) = job.request - 1
    BY <1>1, PartsAssumption DEF KeepsOwnAnswers
  <2> QED BY <1>1, <2>1, <2>2, <2>3 DEF BackendJobs, KeepsOwnAnswers
<1>3. CASE answer = "Good" /\ job.request < Backends!Requests
  <2> DEFINE j == [kept EXCEPT !.request = @ + 1]
  <2>1. Backends!StartAttempt(j)
    BY <1>3, <1>7, RequestsNat DEF Backends!Received
  <2>2. j \in BackendJobs
    <3>1. kept.request + 1 \in 1 .. Backends!Requests
      BY <1>1, <1>3, <1>7, RequestsNat DEF BackendJobs
    <3> HIDE DEF kept
    <3>2. j = [kept EXCEPT !.request = kept.request + 1]
      BY <1>2 DEF BackendJobs
    <3> QED BY <1>2, <3>1, <3>2 DEF BackendJobs
  <2>3. /\ j.result = NoValue /\ j.request = job.request + 1 /\ j.attempt = job.attempt /\ ~j.repair
        /\ j.kept = kept.kept
    BY <1>1, <1>2 DEF BackendJobs
  <2>4. KeepsOwnAnswers(j)
    BY <1>1, <1>2, <2>3, PartsAssumption DEF KeepsOwnAnswers, BackendJobs
  <2>5. j.attempt < 2 * j.request /\ j.attempt + 1 < 2 * j.request
    BY <1>1, <2>3 DEF BackendJobs
  <2> HIDE DEF j
  <2> QED BY <2>1, <2>2, <2>3, <2>4, <2>5, StartAttemptInv
<1>4. CASE answer = "Good" /\ job.request = Backends!Requests
  <2>1. job' = [kept EXCEPT !.phase = "Done", !.result = "Ok"] /\ UNCHANGED output
    BY <1>4 DEF Backends!Received
  <2>2. job' \in BackendJobs
    BY <1>2, <2>1 DEF BackendJobs, BackendPhases
  <2>3. /\ job'.result = "Ok" /\ job'.phase = "Done" /\ job'.attempt = job.attempt /\ job'.request = job.request
        /\ job'.kept = kept.kept
    BY <1>2, <2>1 DEF BackendJobs
  <2>4. KeepsOwnAnswers(job') /\ AttemptsAreCounted(job') /\ RunsInOrder(job')
    BY <1>1, <1>2, <1>4, <2>3 DEF KeepsOwnAnswers, AttemptsAreCounted, RunsInOrder
  <2> QED BY <2>1, <2>2, <2>3, <2>4 DEF BackendInv, BackendJobInv, OutputIsOwn, ChildIsWatched
<1>5. CASE answer # "Good" /\ ~job.repair
  <2> DEFINE j == [job EXCEPT !.repair = TRUE]
  <2>1. Backends!StartAttempt(j)
    BY <1>5 DEF Backends!Received
  <2>2. /\ j \in BackendJobs /\ j.result = NoValue /\ j.request = job.request /\ j.attempt = job.attempt /\ j.repair
        /\ j.kept = job.kept
    BY <1>1 DEF BackendJobs
  <2>3. KeepsOwnAnswers(j) /\ j.attempt < 2 * j.request
    BY <1>1, <1>5, <2>2 DEF KeepsOwnAnswers
  <2> HIDE DEF j
  <2> QED BY <2>1, <2>2, <2>3, StartAttemptInv
<1>6. CASE answer # "Good" /\ job.repair
  <2>1. UNCHANGED output /\ \E code \in BackendCodes : Backends!Fail(code)
    BY <1>6 DEF Backends!Received, BackendCodes
  <2> QED BY <2>1, FailInv
<1> QED BY <1>3, <1>4, <1>5, <1>6, <1>7, RequestsNat

\* Ollama: an answer is of the attempt that asked for it, and there is no child.
LEMMA OllamaInv ==
  ASSUME BackendInv, Backends!model_digest \/ Backends!request_once \/ Backends!OverallTimeout
  PROVE  BackendInv'
<1>1. CASE Backends!model_digest
  <2>1. UNCHANGED <<proc, output>> /\ job.phase = "Tags" /\ proc = NoValue
    BY <1>1 DEF Backends!model_digest, BackendInv, ChildIsWatched
  <2>2. CASE job' = [job EXCEPT !.phase = "Chat"]
    <3>1. job' = [job EXCEPT !.phase = "Chat", !.timedOut = job.timedOut, !.calls = job.calls]
      BY <2>2 DEF BackendInv, BackendJobInv, BackendJobs
    <3> QED BY <2>1, <3>1, SameAttempt DEF BackendInv, BackendJobInv, BackendJobs, BackendPhases, ChildIsWatched
  <2>3. CASE \E code \in {"OllamaUnavailable", "AnalysisTimedOut", "ModelMissing"} : Backends!Fail(code)
    BY <2>1, <2>3, FailInv DEF BackendCodes
  <2> QED BY <1>1, <2>2, <2>3 DEF Backends!model_digest
<1>2. CASE Backends!request_once
  <2>1. UNCHANGED proc /\ job.phase = "Chat" /\ proc = NoValue
    BY <1>2 DEF Backends!request_once, BackendInv, ChildIsWatched
  <2>2. CASE \E code \in {"OllamaUnavailable", "AnalysisTimedOut", "ModelMissing", "AnalysisFailed", "AnalysisInvalid"} :
               Backends!Fail(code) /\ UNCHANGED output
    BY <2>1, <2>2, FailInv DEF BackendCodes
  <2>3. CASE \E answer \in Backends!Answers : Backends!Received(answer, job.attempt)
    BY <2>1, <2>3, ReceivedInv
  <2> QED BY <1>2, <2>2, <2>3 DEF Backends!request_once
<1>3. CASE Backends!OverallTimeout
  <2>1. UNCHANGED <<proc, output>> /\ job.phase # "Done" /\ proc = NoValue /\ Backends!Fail("AnalysisTimedOut")
    BY <1>3 DEF Backends!OverallTimeout, Backends!Running, BackendInv, BackendJobInv, RunsInOrder, ChildIsWatched
  <2> QED BY <2>1, FailInv DEF BackendCodes
<1> QED BY <1>1, <1>2, <1>3

-----------------------------------------------------------------------------
\* pi, as its caller sees it: it is spawned, fed, waited for and killed.
LEMMA PiRunsInv ==
  ASSUME BackendInv,
         Backends!probe_once \/ Backends!Spawn \/ Backends!WriteStdin \/ Backends!TryWait \/ Backends!Deadline
         \/ Backends!ReaderReads
  PROVE  BackendInv'
<1> USE DEF BackendInv
<1>j. /\ job \in BackendJobs /\ job.calls \in Nat /\ job.calls + 1 \in Nat /\ job.timedOut \in BOOLEAN
      /\ job.backend = "ollama" => job.phase \in {"Tags", "Chat", "Done"}
  BY DEF BackendJobInv, BackendJobs, RunsInOrder
<1>1. CASE Backends!probe_once
  <2>1. UNCHANGED <<proc, output>> /\ job.phase = "Probe" /\ proc = NoValue
    BY <1>1 DEF Backends!probe_once, ChildIsWatched
  <2>2. CASE job' = [job EXCEPT !.phase = "Spawn"]
    <3>1. job' = [job EXCEPT !.phase = "Spawn", !.timedOut = job.timedOut, !.calls = job.calls]
      BY <2>2, <1>j DEF BackendJobs
    <3> QED BY <1>j, <2>1, <3>1, SameAttempt DEF BackendPhases, ChildIsWatched
  <2>3. CASE Backends!Fail("OllamaUnavailable")
    BY <2>1, <2>3, FailInv DEF BackendCodes
  <2> QED BY <1>1, <2>2, <2>3 DEF Backends!probe_once
<1>2. CASE Backends!Spawn
  <2>1. UNCHANGED output /\ job.phase = "Spawn" /\ proc = NoValue
    BY <1>2 DEF Backends!Spawn, ChildIsWatched
  <2>2. CASE job' = [job EXCEPT !.phase = "Stdin", !.calls = @ + 1]
    <3>1. job' = [job EXCEPT !.phase = "Stdin", !.timedOut = job.timedOut, !.calls = job.calls + 1]
      BY <2>2, <1>j DEF BackendJobs
    <3>2. job'.phase = "Stdin"
      BY <2>2, <1>j DEF BackendJobs
    <3> QED BY <1>j, <2>1, <3>1, <3>2, SameAttempt DEF BackendPhases, ChildIsWatched
  <2>3. CASE \E code \in {"OllamaUnavailable", "AnalysisFailed"} : Backends!Fail(code) /\ UNCHANGED proc
    BY <2>1, <2>3, FailInv DEF BackendCodes
  <2> QED BY <1>2, <2>2, <2>3 DEF Backends!Spawn
<1>3. CASE Backends!WriteStdin
  <2>1. UNCHANGED output /\ job.phase = "Stdin"
    BY <1>3 DEF Backends!WriteStdin
  <2>2. CASE job' = [job EXCEPT !.phase = "Wait"]
    <3>1. job' = [job EXCEPT !.phase = "Wait", !.timedOut = job.timedOut, !.calls = job.calls] /\ job'.phase = "Wait"
      BY <2>2, <1>j DEF BackendJobs
    <3> QED BY <1>j, <2>1, <3>1, SameAttempt DEF BackendPhases, ChildIsWatched
  <2>3. CASE proc' = NoValue /\ Backends!Fail("AnalysisFailed")
    BY <2>1, <2>3, FailInv DEF BackendCodes
  <2> QED BY <1>3, <2>2, <2>3 DEF Backends!WriteStdin
<1>4. CASE Backends!TryWait
  <2>1. UNCHANGED output /\ job.phase = "Wait" /\ job' = [job EXCEPT !.phase = "Join"]
    BY <1>4 DEF Backends!TryWait
  <2>2. job' = [job EXCEPT !.phase = "Join", !.timedOut = job.timedOut, !.calls = job.calls] /\ job'.phase = "Join"
    BY <2>1, <1>j DEF BackendJobs
  <2>3. "Join" \in BackendPhases \ {"Done"}
    BY DEF BackendPhases
  <2>4. ChildIsWatched(proc', job') /\ job.backend # "ollama" /\ job.phase # "Done"
    BY <1>j, <2>1, <2>2 DEF ChildIsWatched
  <2>5. PICK timed \in BOOLEAN, n \in Nat : job' = [job EXCEPT !.phase = "Join", !.timedOut = timed, !.calls = n]
    BY <1>j, <2>2
  <2> HIDE DEF BackendInv
  <2> QED BY <2>1, <2>3, <2>4, <2>5, SameAttempt
<1>5. CASE Backends!Deadline
  <2>1. UNCHANGED output /\ job.phase = "Wait" /\ job' = [job EXCEPT !.phase = "Join", !.timedOut = TRUE]
    BY <1>5 DEF Backends!Deadline
  <2>2. job' = [job EXCEPT !.phase = "Join", !.timedOut = TRUE, !.calls = job.calls] /\ job'.phase = "Join"
    BY <2>1, <1>j DEF BackendJobs
  <2>3. "Join" \in BackendPhases \ {"Done"} /\ TRUE \in BOOLEAN
    BY DEF BackendPhases
  <2>4. ChildIsWatched(proc', job') /\ job.backend # "ollama"
    BY <1>j, <2>1, <2>2 DEF ChildIsWatched
  <2> QED BY <1>j, <2>1, <2>2, <2>3, <2>4, SameAttempt
<1>6. CASE Backends!ReaderReads
  BY <1>6 DEF Backends!ReaderReads, BackendJobInv, ChildIsWatched, OutputIsOwn, BackendJobs, KeepsOwnAnswers, AttemptsAreCounted, RunsInOrder
<1> QED BY <1>1, <1>2, <1>3, <1>4, <1>5, <1>6

\* The answer is read once everybody has let go of the pipes; it is of this very attempt.
LEMMA JoinInv ==
  ASSUME BackendInv, Backends!Join
  PROVE  BackendInv'
<1> DEFINE outcome == Backends!validate_result(job.timedOut, proc.out > StdoutLimit, proc.code)
<1>1. job.phase = "Join" /\ proc' = NoValue
  BY DEF Backends!Join
<1>2. CASE outcome # "Ok"
  <2>1. Backends!Fail(outcome) /\ UNCHANGED output
    BY <1>2 DEF Backends!Join
  <2>2. outcome \in BackendCodes
    BY <1>2 DEF Backends!validate_result, BackendCodes
  <2> HIDE DEF outcome
  <2> QED BY <1>1, <2>1, <2>2, FailInv
<1>3. CASE outcome = "Ok" /\ output = NoValue
  <2>1. Backends!Fail("AnalysisInvalid") /\ UNCHANGED output
    BY <1>3 DEF Backends!Join
  <2> QED BY <1>1, <2>1, FailInv DEF BackendCodes
<1>4. CASE outcome = "Ok" /\ output # NoValue
  <2>1. Backends!Received(output.answer, output.attempt)
    BY <1>4 DEF Backends!Join
  <2>2. output.answer \in Backends!Answers /\ output.attempt = job.attempt
    BY <1>4 DEF BackendInv, OutputIsOwn, BackendOutputs
  <2> QED BY <1>1, <2>1, <2>2, ReceivedInv
<1> QED BY <1>2, <1>3, <1>4

\* A child that runs is watched, and what it submits is of the attempt it was started for.
LEMMA ChildInv ==
  ASSUME BackendInv,
         Backends!ChildReads \/ Backends!ChildWrites \/ Backends!ChildSubmits \/ Backends!ChildExits
         \/ Backends!DescendantEnds
  PROVE  BackendInv'
<1>1. proc # NoValue /\ job' = job
  BY DEF Backends!ChildReads, Backends!ChildWrites, Backends!ChildSubmits, Backends!ChildExits, Backends!DescendantEnds, Backends!Alive
<1>2. BackendJobInv(job') /\ ChildIsWatched(proc', job')
  BY <1>1 DEF BackendInv, ChildIsWatched
<1>3. OutputIsOwn(output', job')
  <2>1. CASE Backends!ChildSubmits
    <3>1. PICK answer \in Backends!Answers : output' = [attempt |-> job.attempt, answer |-> answer]
      BY <2>1 DEF Backends!ChildSubmits
    <3>2. job.attempt \in Nat
      BY DEF BackendInv, BackendJobInv, BackendJobs
    <3> QED BY <1>1, <3>1, <3>2 DEF OutputIsOwn, BackendOutputs
  <2>2. CASE ~Backends!ChildSubmits
    <3>1. UNCHANGED output
      BY <2>2 DEF Backends!ChildReads, Backends!ChildWrites, Backends!ChildExits, Backends!DescendantEnds
    <3> QED BY <1>1, <3>1 DEF BackendInv
  <2> QED BY <2>1, <2>2
<1> QED BY <1>2, <1>3 DEF BackendInv

\* The next analysis starts from nothing.
LEMMA AgainInv ==
  ASSUME BackendInv, Backends!Again
  PROVE  BackendInv'
<1> DEFINE stage == IF job.backend = "pi" THEN "Probe" ELSE "Tags"
<1>1. /\ job' = [job EXCEPT !.phase = stage, !.request = 1, !.attempt = 1, !.repair = FALSE,
                   !.calls = 2 * Backends!Requests, !.kept = <<>>, !.timedOut = FALSE, !.result = NoValue]
      /\ output' = NoValue /\ UNCHANGED proc /\ job.phase = "Done"
  BY DEF Backends!Again
<1>2. /\ stage \in BackendPhases \ {"Done"} /\ job \in BackendJobs /\ proc = NoValue
      /\ job.backend = "ollama" => stage = "Tags"
  BY <1>1 DEF BackendInv, BackendJobInv, BackendJobs, BackendPhases, ChildIsWatched
<1> HIDE DEF stage
<1>3. job' \in BackendJobs
  <2>1. /\ 2 * Backends!Requests \in Nat /\ 1 \in 1 .. Backends!Requests /\ <<>> \in Seq(KeptAnswers)
        /\ stage \in BackendPhases
    BY <1>2, RequestsNat
  <2> QED BY <1>1, <1>2, <2>1 DEF BackendJobs
<1>4. /\ job'.phase = stage /\ job'.request = 1 /\ job'.attempt = 1 /\ job'.kept = <<>> /\ job'.result = NoValue
      /\ job'.backend = job.backend
  BY <1>1, <1>2 DEF BackendJobs
<1>5. KeepsOwnAnswers(job') /\ AttemptsAreCounted(job') /\ RunsInOrder(job')
  BY <1>2, <1>4, PartsAssumption DEF KeepsOwnAnswers, AttemptsAreCounted, RunsInOrder
<1> QED BY <1>1, <1>2, <1>3, <1>5 DEF BackendInv, BackendJobInv, OutputIsOwn, ChildIsWatched

\* Every step of the analyzers keeps the invariant.
LEMMA BackendNextInv == BackendInv /\ [Backends!Next]_backendState => BackendInv'
<1> SUFFICES ASSUME BackendInv, [Backends!Next]_backendState PROVE BackendInv' OBVIOUS
<1>1. CASE UNCHANGED backendState
  BY <1>1 DEF backendState, BackendInv, BackendJobInv, KeepsOwnAnswers, AttemptsAreCounted, RunsInOrder, OutputIsOwn,
     ChildIsWatched
<1>2. CASE Backends!Next
  BY <1>2, OllamaInv, PiRunsInv, JoinInv, ChildInv, AgainInv DEF Backends!Next
<1> QED BY <1>1, <1>2

-----------------------------------------------------------------------------
(* The chat.                                                               *)

\* The thread that a restart finds on disk.
Saved(d) == IF Chat!load(d) = NoValue THEN <<>> ELSE Chat!load(d)

OwnAnswers(turns) == \A i \in DOMAIN turns : turns[i].answer \in {NoValue, turns[i].q}

\* Two threads with the same answers, the same part to replay, and the same answers to their questions.
SameThread(t, u) ==
  Chat!Answered(t) = Chat!Answered(u) /\ Chat!Replayed(t) = Chat!Replayed(u) /\ (OwnAnswers(t) <=> OwnAnswers(u))

ChatTypes ==
  /\ work \in [Items -> Chat!Versions]
  /\ convo \in Chat!Panes \cup {NoValue}
  /\ transcript \in Chat!Transcripts \cup {NoValue, Damaged}
  /\ session \in Chat!Sessions \cup {NoValue}
  /\ past \in Chat!Pasts

\* A job knows its turn, and a job whose answer is not shown yet has a turn that waits for it.
AwaitsAnswer(c, id) == id \in DOMAIN c.jobs /\ c.turns[c.jobs[id]].state = "Pending"
JobsLand(c, asked) ==
  /\ \A id \in DOMAIN c.jobs : id <= asked /\ c.jobs[id] \in DOMAIN c.turns /\ c.turns[c.jobs[id]].q = id
  /\ \A r \in c.running : AwaitsAnswer(c, r.id)
  /\ \A k \in DOMAIN c.inbox : AwaitsAnswer(c, c.inbox[k].id)
  /\ \A r1, r2 \in c.running : r1.id = r2.id => r1 = r2
  /\ \A k, l \in DOMAIN c.inbox : c.inbox[k].id = c.inbox[l].id => k = l
  /\ \A r \in c.running, k \in DOMAIN c.inbox : c.inbox[k].id # r.id

\* What was shown is in the pane and, unless a save failed, on disk.
AnswersStay ==
  /\ OwnAnswers(Saved(transcript))
  /\ ~past.lost => past.shown \subseteq Chat!Answered(Saved(transcript))
  /\ convo # NoValue =>
       JobsLand(convo, past.asked) /\ OwnAnswers(convo.turns) /\ past.shown \subseteq Chat!Answered(convo.turns)

\* The turns that prompts under way carry.
Carried(running) == UNION {r.prompt.turns : r \in running}

\* The part of the thread that a restart may have to replay is in the session, or on its way there.
ThreadIsKnown ==
  IF convo = NoValue
  THEN past.whole /\ session # NoValue => Chat!Replayed(Saved(transcript)) \subseteq session.turns
  ELSE /\ past.whole /\ ~convo.replay =>
            /\ Chat!Replayed(convo.turns) \subseteq Chat!Memory.turns \cup Carried(convo.running)
            /\ Chat!Replayed(Saved(transcript)) \subseteq Chat!Memory.turns \cup Carried(convo.running)
       /\ \A k \in DOMAIN convo.inbox : convo.inbox[k].state = "Answered" => convo.inbox[k].id \in Chat!Memory.turns
       /\ convo.replay =>
            /\ session = NoValue /\ convo.running = {} /\ convo.inbox = <<>> /\ convo.threads = {}
            /\ Chat!Replayed(Saved(transcript)) \subseteq Chat!Replayed(convo.turns)

\* A note as it was last sent: the last prompt under way that has it, or the session.
NoteIsKnown(i) ==
  \/ convo.sent.items[i] = 0
  \/ \E r \in convo.running :
       /\ i \in DOMAIN r.prompt.items /\ r.prompt.items[i] = convo.sent.items[i]
       /\ \A other \in convo.running : i \in DOMAIN other.prompt.items => other.id <= r.id
  \/ /\ Chat!Memory.items[i] = convo.sent.items[i]
     /\ \A r \in convo.running : i \notin DOMAIN r.prompt.items

\* While nothing went wrong, what is marked as sent is in the session or on its way there.
SentIsKnown ==
  convo # NoValue /\ past.clean =>
    /\ past.whole
    /\ convo.sent.header => Chat!Memory.header \/ \E r \in convo.running : r.prompt.header
    /\ \A i \in Items : NoteIsKnown(i)

ChatInv == ChatTypes /\ AnswersStay /\ ThreadIsKnown /\ SentIsKnown /\ past.informed

\* Reading a pending turn back as interrupted changes no answer.
LEMMA InterruptedTurns ==
  ASSUME NEW t \in Chat!Transcripts
  PROVE  /\ Chat!Interrupted(t) \in Chat!Transcripts
         /\ DOMAIN Chat!Interrupted(t) = DOMAIN t /\ Len(Chat!Interrupted(t)) = Len(t)
         /\ \A i \in DOMAIN t : /\ Chat!Interrupted(t)[i].q = t[i].q /\ Chat!Interrupted(t)[i].answer = t[i].answer
                                /\ Chat!Interrupted(t)[i].state = "Answered" <=> t[i].state = "Answered"
<1> DEFINE Turn == [q : Chat!Turns, state : {"Pending", "Failed", "Answered"}, answer : Chat!Turns \cup {NoValue}]
<1> DEFINE u == Chat!Interrupted(t)
<1>1. t \in Seq(Turn)
  BY DEF Chat!Transcripts
<1> HIDE DEF Turn
<1>2. \A i \in DOMAIN t : t[i] \in Turn
  BY <1>1
<1>3. u = [i \in DOMAIN t |-> IF t[i].state = "Pending" THEN [t[i] EXCEPT !.state = "Failed"] ELSE t[i]]
  BY DEF Chat!Interrupted
<1> HIDE DEF u
<1>4. \A i \in DOMAIN t : /\ u[i] \in Turn /\ u[i].q = t[i].q /\ u[i].answer = t[i].answer
                          /\ u[i].state = "Answered" <=> t[i].state = "Answered"
  BY <1>2, <1>3 DEF Turn
<1>5. DOMAIN u = DOMAIN t /\ DOMAIN t = 1 .. Len(t) /\ Len(t) \in Nat
  BY <1>1, <1>3
<1>6. u = [i \in 1 .. Len(t) |-> u[i]]
  BY <1>3, <1>5
<1>7. u \in Seq(Turn) /\ Len(u) = Len(t)
  BY <1>4, <1>5, <1>6
<1> QED BY <1>4, <1>5, <1>7 DEF Turn, u, Chat!Transcripts

\* Nor the thread.
LEMMA InterruptedThread ==
  ASSUME NEW t \in Chat!Transcripts
  PROVE  SameThread(Chat!Interrupted(t), t)
<1> DEFINE u == Chat!Interrupted(t)
<1>1. /\ DOMAIN u = DOMAIN t /\ Len(u) = Len(t)
      /\ \A i \in DOMAIN t : u[i].q = t[i].q /\ u[i].answer = t[i].answer /\ (u[i].state = "Answered" <=> t[i].state = "Answered")
  BY InterruptedTurns
<1> HIDE DEF u
<1>2. Chat!Answered(u) = Chat!Answered(t)
  <2>1. {j \in DOMAIN u : u[j].state = "Answered"} = {j \in DOMAIN t : t[j].state = "Answered"}
    BY <1>1
  <2> QED BY <1>1, <2>1 DEF Chat!Answered
<1>3. Chat!Replayed(u) = Chat!Replayed(t)
  <2>1. {j \in DOMAIN u : u[j].state = "Answered" /\ j > Len(u) - MaxReplay}
        = {j \in DOMAIN t : t[j].state = "Answered" /\ j > Len(t) - MaxReplay}
    BY <1>1
  <2> QED BY <1>1, <2>1 DEF Chat!Replayed
<1>4. OwnAnswers(u) <=> OwnAnswers(t)
  BY <1>1 DEF OwnAnswers
<1> QED BY <1>2, <1>3, <1>4 DEF SameThread, u

\* An empty thread has nothing.
LEMMA NoThread == <<>> \in Chat!Transcripts /\ Chat!Answered(<<>>) = {} /\ Chat!Replayed(<<>>) = {} /\ OwnAnswers(<<>>)
BY DEF Chat!Transcripts, Chat!Answered, Chat!Replayed, OwnAnswers

\* What is loaded is the thread that was stored, or none.
LEMMA LoadedThread ==
  ASSUME NEW d \in Chat!Transcripts \cup {NoValue, Damaged}
  PROVE  /\ Saved(d) \in Chat!Transcripts
         /\ d \in Chat!Transcripts => /\ Chat!load(d) = Saved(d) /\ Chat!load(d) # NoValue /\ SameThread(Saved(d), d)
         /\ d \notin Chat!Transcripts => Chat!load(d) = NoValue /\ Saved(d) = <<>>
         /\ SameThread(Saved(Chat!load(d)), Saved(d))
<1>1. CASE d \in Chat!Transcripts
  <2>1. Chat!load(d) = Chat!Interrupted(d)
    BY <1>1, ChatAssumption DEF Chat!load
  <2>2. Chat!Interrupted(d) \in Chat!Transcripts /\ SameThread(Chat!Interrupted(d), d)
    BY <1>1, InterruptedTurns, InterruptedThread
  <2>3. Chat!load(Chat!load(d)) = Chat!Interrupted(Chat!load(d)) /\ SameThread(Chat!Interrupted(Chat!load(d)), Chat!load(d))
        /\ Chat!Interrupted(Chat!load(d)) \in Chat!Transcripts
    BY <2>1, <2>2, ChatAssumption, InterruptedThread, InterruptedTurns DEF Chat!load
  <2> QED BY <1>1, <2>1, <2>2, <2>3, ChatAssumption DEF Saved
<1>2. CASE d \in {NoValue, Damaged}
  BY <1>2, NoThread, ChatAssumption DEF Chat!load, Saved, SameThread
<1> QED BY <1>1, <1>2

\* A save stores the thread, or leaves what is there to be read as it was.
LEMMA SavedThread ==
  ASSUME NEW d \in Chat!Transcripts \cup {NoValue, Damaged}, NEW t \in Chat!Transcripts, NEW ok \in BOOLEAN
  PROVE  /\ Chat!save(d, t, ok) \in Chat!Transcripts \cup {NoValue}
         /\ SameThread(Saved(Chat!save(d, t, ok)), IF ok THEN t ELSE Saved(d))
<1>1. CASE ok
  <2>1. Chat!save(d, t, ok) = Chat!Interrupted(t)
    BY <1>1 DEF Chat!save
  <2>2. Chat!Interrupted(t) \in Chat!Transcripts /\ SameThread(Chat!Interrupted(t), t)
    BY InterruptedTurns, InterruptedThread
  <2>3. SameThread(Saved(Chat!Interrupted(t)), Chat!Interrupted(t))
    BY <2>2, LoadedThread
  <2> QED BY <1>1, <2>1, <2>2, <2>3 DEF SameThread
<1>2. CASE ~ok
  <2>1. Chat!save(d, t, ok) = Chat!load(d)
    BY <1>2 DEF Chat!save
  <2> QED BY <1>2, <2>1, LoadedThread
<1> QED BY <1>1, <1>2

\* The invariant says what ChatKeepsUp does.
LEMMA ChatSafe == ChatInv => Chat!ModelIsTold /\ Chat!AnswersAreKept
<1> SUFFICES ASSUME ChatInv PROVE Chat!ModelIsTold /\ Chat!AnswersAreKept OBVIOUS
<1> DEFINE kept == IF convo # NoValue THEN convo.turns ELSE IF Chat!load(transcript) = NoValue THEN <<>> ELSE Chat!load(transcript)
<1>1. OwnAnswers(kept) /\ (~past.lost => past.shown \subseteq Chat!Answered(kept))
  BY DEF ChatInv, AnswersStay, Saved
<1>2. ~past.lost => \A q \in past.shown : \E i \in DOMAIN kept : kept[i].q = q /\ kept[i].state = "Answered"
  BY <1>1 DEF Chat!Answered
<1> QED BY <1>1, <1>2 DEF Chat!AnswersAreKept, Chat!ModelIsTold, OwnAnswers, ChatInv

\* Nothing was asked yet.
LEMMA ChatInitInv == Chat!Init => ChatInv
<1> SUFFICES ASSUME Chat!Init PROVE ChatInv OBVIOUS
<1>1. /\ convo = NoValue /\ work = [i \in Items |-> 0] /\ transcript = NoValue /\ session = NoValue
      /\ past = [asked |-> 0, shown |-> {}, lost |-> FALSE, clean |-> TRUE, whole |-> TRUE, informed |-> TRUE]
  BY DEF Chat!Init, Chat!NothingSent
<1>2. ChatTypes
  BY <1>1, ChatAssumption DEF ChatTypes, Chat!Versions, Chat!Pasts
<1>3. Saved(transcript) = <<>>
  BY <1>1 DEF Saved, Chat!load
<1> QED BY <1>1, <1>2, <1>3, NoThread DEF ChatInv, AnswersStay, ThreadIsKnown, SentIsKnown

\* Turns are numbered by their questions.
LEMMA ThreadTypes ==
  ASSUME NEW t \in Chat!Transcripts
  PROVE  Chat!Answered(t) \in SUBSET Chat!Turns /\ Chat!Replayed(t) \in SUBSET Chat!Turns
<1> DEFINE Turn == [q : Chat!Turns, state : {"Pending", "Failed", "Answered"}, answer : Chat!Turns \cup {NoValue}]
<1>1. t \in Seq(Turn)
  BY DEF Chat!Transcripts
<1> HIDE DEF Turn
<1>2. \A i \in DOMAIN t : t[i] \in Turn
  BY <1>1
<1>3. \A i \in DOMAIN t : t[i].q \in Chat!Turns
  BY <1>2 DEF Turn
<1> QED BY <1>3 DEF Chat!Answered, Chat!Replayed

\* What the fields of the pane are.
LEMMA PaneTypes ==
  ASSUME NEW c \in Chat!Panes
  PROVE  /\ c.turns \in Chat!Transcripts /\ c.replay \in BOOLEAN /\ c.dirty \in BOOLEAN
         /\ DOMAIN c.jobs \subseteq Chat!Turns /\ \A id \in DOMAIN c.jobs : c.jobs[id] \in Nat
         /\ c.running \subseteq [id : Chat!Turns, prompt : Chat!Prompts] /\ c.threads \subseteq Chat!Turns
         /\ c.inbox \in Seq([id : Chat!Turns, state : {"Failed", "Answered"}])
         /\ c.sent \in [header : BOOLEAN, items : [Items -> Chat!Versions]]
BY DEF Chat!Panes

\* A session that was never written holds nothing.
LEMMA MemoryType ==
  ASSUME ChatTypes
  PROVE  Chat!Memory \in Chat!Sessions
<1>1. Chat!NothingSent \in [Items -> Chat!Versions]
  BY ChatAssumption DEF Chat!NothingSent, Chat!Versions
<1>2. Chat!Forgetful \in Chat!Sessions
  BY <1>1 DEF Chat!Forgetful, Chat!Sessions
<1> QED BY <1>2 DEF ChatTypes, Chat!Memory

\* A restart shows what is on disk, and replays it when pi's session is gone.
LEMMA ChatStartInv ==
  ASSUME ChatInv, Chat!Start
  PROVE  ChatInv'
<1> DEFINE whole == past.whole \/ session = NoValue
<1>1. /\ convo = NoValue /\ convo' = Chat!restore_chat(transcript) /\ UNCHANGED session
      /\ transcript' = IF transcript = Damaged THEN NoValue ELSE transcript
      /\ past' = [past EXCEPT !.clean = whole, !.whole = whole, !.lost = FALSE,
                    !.shown = IF past.lost THEN Chat!Answered(convo'.turns) ELSE past.shown]
      /\ work' = [i \in Items |-> 0]
  BY DEF Chat!Start, Chat!NothingSent, ChatInv, ChatTypes, Chat!Pasts
<1> USE DEF ChatInv
<1>2. transcript \in Chat!Transcripts \cup {NoValue, Damaged} /\ past \in Chat!Pasts
  BY DEF ChatTypes
<1>3. /\ Saved(transcript) \in Chat!Transcripts /\ (Chat!load(transcript) # NoValue => Chat!load(transcript) = Saved(transcript))
      /\ Chat!load(transcript) = NoValue => Saved(transcript) = <<>>
  BY <1>2, LoadedThread
<1>4. /\ Saved(transcript') = Saved(transcript)
      /\ transcript' \in Chat!Transcripts \cup {NoValue, Damaged}
  BY <1>1, <1>2, LoadedThread, ChatAssumption
<1>5. convo' = [turns |-> Saved(transcript), jobs |-> <<>>, running |-> {}, threads |-> {}, inbox |-> <<>>,
                sent |-> [header |-> FALSE, items |-> [i \in Items |-> 0]],
                replay |-> (Chat!load(transcript) # NoValue /\ session = NoValue), dirty |-> FALSE]
  BY <1>1, <1>3 DEF Chat!restore_chat, Chat!Fresh, Chat!NothingSent
<1>6. convo' \in Chat!Panes /\ convo' # NoValue
  <2>1. <<>> \in UNION {[ids -> Nat] : ids \in SUBSET Chat!Turns}
    <3>1. <<>> \in [{} -> Nat] /\ {} \in SUBSET Chat!Turns
      OBVIOUS
    <3> QED BY <3>1
  <2>2. [i \in Items |-> 0] \in [Items -> Chat!Versions]
    BY ChatAssumption DEF Chat!Versions
  <2>3. /\ <<>> \in Seq([id : Chat!Turns, state : {"Failed", "Answered"}])
        /\ {} \in SUBSET [id : Chat!Turns, prompt : Chat!Prompts] /\ {} \in SUBSET Chat!Turns
        /\ (Chat!load(transcript) # NoValue /\ session = NoValue) \in BOOLEAN
    OBVIOUS
  <2>4. convo' \in Chat!Panes
    BY <1>3, <1>5, <2>1, <2>2, <2>3 DEF Chat!Panes
  <2> QED BY <2>4, ChatAssumption
<1>7. /\ convo'.turns = Saved(transcript) /\ convo'.jobs = <<>> /\ convo'.running = {} /\ convo'.threads = {}
      /\ convo'.inbox = <<>> /\ convo'.sent.header = FALSE /\ \A i \in Items : convo'.sent.items[i] = 0
      /\ convo'.replay <=> Chat!load(transcript) # NoValue /\ session = NoValue
  BY <1>5
<1>8. /\ past'.lost = FALSE /\ past'.clean = whole /\ past'.whole = whole /\ past'.informed
      /\ past'.shown = IF past.lost THEN Chat!Answered(convo'.turns) ELSE past.shown
  BY <1>1, <1>2 DEF Chat!Pasts
<1>9. past' \in Chat!Pasts
  <2>1. Chat!Answered(Saved(transcript)) \in SUBSET Chat!Turns
    BY <1>3, ThreadTypes
  <2>2. (IF past.lost THEN Chat!Answered(convo'.turns) ELSE past.shown) \in SUBSET Chat!Turns
    BY <1>2, <1>7, <2>1 DEF Chat!Pasts
  <2>3. whole \in BOOLEAN
    BY <1>2 DEF Chat!Pasts
  <2> HIDE DEF whole
  <2> QED BY <1>1, <1>2, <2>2, <2>3 DEF Chat!Pasts
<1>10. ChatTypes'
  <2>1. work' \in [Items -> Chat!Versions]
    BY <1>1, ChatAssumption DEF Chat!Versions
  <2> QED BY <1>1, <1>4, <1>6, <1>9, <2>1 DEF ChatTypes
<1>11. AnswersStay'
  BY <1>4, <1>7, <1>8 DEF AnswersStay, JobsLand
<1>12. ThreadIsKnown'
  <2>1. Chat!Memory' = Chat!Memory /\ (session # NoValue => Chat!Memory = session)
    BY <1>1 DEF Chat!Memory
  <2>2. CASE convo'.replay
    BY <1>1, <1>4, <1>6, <1>7, <2>2 DEF ThreadIsKnown
  <2>3. CASE ~convo'.replay
    <3>1. past'.whole => Chat!Replayed(Saved(transcript)) \subseteq Chat!Memory.turns
      BY <1>1, <1>3, <1>7, <1>8, <2>1, <2>3, NoThread DEF ThreadIsKnown
    <3> QED BY <1>4, <1>6, <1>7, <2>1, <2>3, <3>1 DEF ThreadIsKnown
  <2> QED BY <2>2, <2>3
<1>13. SentIsKnown'
  BY <1>7, <1>8 DEF SentIsKnown, NoteIsKnown
<1> QED BY <1>8, <1>10, <1>11, <1>12, <1>13

\* The process ends: what it had not told the session is told to the next one, or was not whole.
LEMMA ChatEndsInv ==
  ASSUME ChatInv, Chat!Quit \/ Chat!Kill
  PROVE  ChatInv'
<1> USE DEF ChatInv
<1>1. /\ convo \in Chat!Panes /\ convo # NoValue /\ convo' = NoValue /\ UNCHANGED <<work, session>>
      /\ convo.turns \in Chat!Transcripts
      /\ transcript \in Chat!Transcripts \cup {NoValue, Damaged} /\ past \in Chat!Pasts
  BY PaneTypes DEF Chat!Quit, Chat!Kill, ChatTypes
<1> DEFINE carries == Chat!CarriesNoThread(convo.running)
<1>2. carries \in BOOLEAN /\ (carries => Carried(convo.running) = {})
  BY DEF Chat!CarriesNoThread, Carried
<1>3. past.whole /\ carries /\ session # NoValue =>
        /\ Chat!Replayed(convo.turns) \subseteq session.turns
        /\ Chat!Replayed(Saved(transcript)) \subseteq session.turns
  BY <1>1, <1>2 DEF ThreadIsKnown, Chat!Memory
<1> HIDE DEF carries
<1>4. CASE Chat!Kill
  <2>1. past' = [past EXCEPT !.whole = past.whole /\ carries] /\ UNCHANGED transcript
    BY <1>1, <1>4 DEF Chat!Kill, carries, Chat!Pasts
  <2>2. /\ past' \in Chat!Pasts /\ past'.whole = (past.whole /\ carries) /\ past'.shown = past.shown
        /\ past'.lost = past.lost /\ past'.informed = past.informed
    BY <1>1, <1>2, <2>1 DEF Chat!Pasts
  <2> QED BY <1>1, <1>3, <2>1, <2>2 DEF ChatTypes, AnswersStay, ThreadIsKnown, SentIsKnown
<1>5. CASE Chat!Quit
  <2>1. PICK ok \in BOOLEAN :
          /\ transcript' = Chat!persist_chat([convo EXCEPT !.dirty = TRUE], transcript, ok)
          /\ past' = [past EXCEPT !.lost = ~ok, !.whole = past.whole /\ carries]
    BY <1>1, <1>5 DEF Chat!Quit, carries, Chat!Pasts
  <2>2. transcript' = Chat!save(transcript, convo.turns, ok)
    BY <1>1, <2>1 DEF Chat!persist_chat, Chat!Panes
  <2>3. /\ transcript' \in Chat!Transcripts \cup {NoValue}
        /\ SameThread(Saved(transcript'), IF ok THEN convo.turns ELSE Saved(transcript))
    BY <1>1, <2>2, SavedThread
  <2>4. /\ past' \in Chat!Pasts /\ past'.whole = (past.whole /\ carries) /\ past'.shown = past.shown
        /\ past'.lost = ~ok /\ past'.informed = past.informed
    BY <1>1, <1>2, <2>1 DEF Chat!Pasts
  <2> QED BY <1>1, <1>3, <2>3, <2>4 DEF ChatTypes, AnswersStay, ThreadIsKnown, SentIsKnown, SameThread
<1> QED BY <1>4, <1>5

\* Threads that are reaped, notes that are written, and what happens to the files.
LEMMA ChatAroundInv ==
  ASSUME ChatInv, Chat!ThreadEnds \/ Chat!Writes \/ Chat!DiskFails \/ Chat!SessionRemoved
  PROVE  ChatInv'
<1> USE DEF ChatInv
<1>1. CASE Chat!ThreadEnds
  <2>1. PICK t \in convo.threads : convo' = [convo EXCEPT !.threads = convo.threads \ {t}]
    BY <1>1 DEF Chat!ThreadEnds, ChatTypes, Chat!Panes
  <2>2. convo # NoValue /\ convo \in Chat!Panes /\ UNCHANGED <<work, transcript, session, past>>
    BY <1>1 DEF Chat!ThreadEnds, ChatTypes
  <2>3. /\ convo'.turns = convo.turns /\ convo'.jobs = convo.jobs /\ convo'.running = convo.running
        /\ convo'.inbox = convo.inbox /\ convo'.sent = convo.sent /\ convo'.replay = convo.replay
        /\ convo'.threads \subseteq convo.threads
    BY <2>1, <2>2 DEF Chat!Panes
  <2>4. convo' \in Chat!Panes /\ convo' # NoValue
    <3>1. convo.threads \ {t} \in SUBSET Chat!Turns
      BY <2>2, PaneTypes
    <3> QED BY <2>1, <2>2, <3>1, ChatAssumption DEF Chat!Panes
  <2>5. Chat!Memory' = Chat!Memory
    BY <2>2 DEF Chat!Memory
  <2>6. ChatTypes' /\ AnswersStay'
    BY <2>2, <2>3, <2>4 DEF ChatTypes, AnswersStay, JobsLand, AwaitsAnswer
  <2>7. ThreadIsKnown'
    BY <2>2, <2>3, <2>4, <2>5 DEF ThreadIsKnown
  <2>8. SentIsKnown'
    BY <2>2, <2>3, <2>4, <2>5 DEF SentIsKnown, NoteIsKnown
  <2> QED BY <2>2, <2>6, <2>7, <2>8
<1>2. CASE Chat!Writes
  <2>1. UNCHANGED <<convo, transcript, session, past>> /\ work' \in [Items -> Chat!Versions]
    BY <1>2 DEF Chat!Writes, ChatTypes
  <2> QED BY <2>1 DEF ChatTypes, AnswersStay, ThreadIsKnown, SentIsKnown, NoteIsKnown, Chat!Memory
<1>3. CASE Chat!DiskFails
  <2>1. UNCHANGED <<convo, work, session>> /\ transcript' \in {NoValue, Damaged} /\ past' = [past EXCEPT !.lost = TRUE]
    BY <1>3 DEF Chat!DiskFails
  <2>2. past' \in Chat!Pasts /\ past'.lost /\ \A f \in {"asked", "shown", "clean", "whole", "informed"} : past'[f] = past[f]
    BY <2>1 DEF ChatTypes, Chat!Pasts
  <2>3. Saved(transcript') = <<>>
    BY <2>1 DEF Saved, Chat!load
  <2>4. Chat!Memory' = Chat!Memory
    BY <2>1 DEF Chat!Memory
  <2>5. ChatTypes' /\ AnswersStay'
    BY <2>1, <2>2, <2>3, NoThread DEF ChatTypes, AnswersStay
  <2>6. ThreadIsKnown'
    BY <2>1, <2>2, <2>3, <2>4, NoThread DEF ThreadIsKnown
  <2>7. SentIsKnown'
    BY <2>1, <2>2, <2>4 DEF SentIsKnown, NoteIsKnown
  <2> QED BY <2>2, <2>5, <2>6, <2>7
<1>4. CASE Chat!SessionRemoved
  BY <1>4 DEF Chat!SessionRemoved, ChatTypes, AnswersStay, ThreadIsKnown, SentIsKnown
<1> QED BY <1>1, <1>2, <1>3, <1>4

\* A question that is added to the thread has no answer yet.
LEMMA AppendTurn ==
  ASSUME NEW t \in Chat!Transcripts, NEW q \in Chat!Turns, NEW state \in {"Pending", "Failed"}, NEW new, NEW u,
         new = [q |-> q, state |-> state, answer |-> NoValue], u = Append(t, new)
  PROVE  /\ u \in Chat!Transcripts /\ Chat!Answered(t) \subseteq Chat!Answered(u)
         /\ Chat!Replayed(u) \subseteq Chat!Replayed(t) /\ (OwnAnswers(t) => OwnAnswers(u))
<1> DEFINE Turn == [q : Chat!Turns, state : {"Pending", "Failed", "Answered"}, answer : Chat!Turns \cup {NoValue}]
<1>1. t \in Seq(Turn) /\ new \in Turn /\ new.q = q /\ new.state = state /\ new.answer = NoValue
  BY DEF Chat!Transcripts
<1> HIDE DEF Turn
<1>3. /\ u \in Seq(Turn) /\ Len(t) \in Nat /\ Len(u) = Len(t) + 1
      /\ DOMAIN t = 1 .. Len(t) /\ DOMAIN u = 1 .. Len(t) + 1 /\ \A i \in DOMAIN t : u[i] = t[i]
      /\ u[Len(t) + 1] = new
  BY <1>1
<1>4. \A i \in DOMAIN u : i \in DOMAIN t \/ i = Len(t) + 1
  BY <1>3
<1>5. Chat!Answered(u) = Chat!Answered(t)
  <2>1. {j \in DOMAIN u : u[j].state = "Answered"} = {j \in DOMAIN t : t[j].state = "Answered"}
    BY <1>1, <1>3, <1>4
  <2> QED BY <1>3, <2>1 DEF Chat!Answered
<1>6. Chat!Replayed(u) \subseteq Chat!Replayed(t)
  <2>1. ASSUME NEW j \in DOMAIN u, u[j].state = "Answered", j > Len(u) - MaxReplay
        PROVE  j \in DOMAIN t /\ t[j].state = "Answered" /\ j > Len(t) - MaxReplay /\ u[j].q = t[j].q
    BY <1>1, <1>3, <1>4, <2>1, ChatAssumption
  <2> QED BY <2>1 DEF Chat!Replayed
<1>7. OwnAnswers(t) => OwnAnswers(u)
  BY <1>1, <1>3, <1>4 DEF OwnAnswers
<1>8. u \in Chat!Transcripts
  BY <1>3 DEF Turn, Chat!Transcripts
<1> QED BY <1>1, <1>3, <1>5, <1>6, <1>7, <1>8

\* And it comes last.
LEMMA AppendedLast ==
  ASSUME NEW t \in Chat!Transcripts, NEW u \in Chat!Transcripts, NEW new, u = Append(t, new)
  PROVE  /\ Len(t) \in Nat /\ DOMAIN t = 1 .. Len(t) /\ DOMAIN u = 1 .. Len(t) + 1
         /\ \A i \in DOMAIN t : u[i] = t[i]
         /\ u[Len(t) + 1] = new
<1> DEFINE Turn == [q : Chat!Turns, state : {"Pending", "Failed", "Answered"}, answer : Chat!Turns \cup {NoValue}]
<1>1. t \in Seq(Turn)
  BY DEF Chat!Transcripts
<1> HIDE DEF Turn
<1> QED BY <1>1

\* An update that lands in a turn that waits for it takes nothing else away.
LEMMA LandedThread ==
  ASSUME NEW t \in Chat!Transcripts, NEW k \in DOMAIN t, t[k].state = "Pending", NEW state \in {"Failed", "Answered"},
         NEW new, new.q = t[k].q, new.state = state, new.answer = t[k].q,
         NEW u \in Chat!Transcripts, u = [t EXCEPT ![k] = new]
  PROVE  /\ DOMAIN u = DOMAIN t /\ \A i \in DOMAIN t : u[i].q = t[i].q /\ (i # k => u[i] = t[i])
         /\ Chat!Answered(t) \subseteq Chat!Answered(u) /\ (state = "Answered" => t[k].q \in Chat!Answered(u))
         /\ Chat!Replayed(u) \subseteq Chat!Replayed(t) \cup (IF state = "Answered" THEN {t[k].q} ELSE {})
         /\ OwnAnswers(t) => OwnAnswers(u)
<1>1. DOMAIN t = 1 .. Len(t) /\ Len(t) \in Nat /\ DOMAIN u = 1 .. Len(u) /\ Len(u) \in Nat
  BY DEF Chat!Transcripts
<1>2. /\ DOMAIN u = DOMAIN t /\ Len(u) = Len(t) /\ u[k] = new
      /\ \A i \in DOMAIN t : u[i].q = t[i].q /\ (i # k => u[i] = t[i])
  BY <1>1
<1>3. Chat!Answered(t) \subseteq Chat!Answered(u) /\ (state = "Answered" => t[k].q \in Chat!Answered(u))
  <2>1. \A i \in DOMAIN t : t[i].state = "Answered" => u[i].state = "Answered"
    BY <1>2
  <2> QED BY <1>2, <2>1 DEF Chat!Answered
<1>4. Chat!Replayed(u) \subseteq Chat!Replayed(t) \cup (IF state = "Answered" THEN {t[k].q} ELSE {})
  <2>1. ASSUME NEW j \in DOMAIN u, u[j].state = "Answered", j > Len(u) - MaxReplay, j # k
        PROVE  j \in DOMAIN t /\ t[j].state = "Answered" /\ j > Len(t) - MaxReplay /\ u[j].q = t[j].q
    BY <1>2, <2>1
  <2>2. state = "Failed" => u[k].state # "Answered"
    BY <1>2
  <2> QED BY <1>2, <2>1, <2>2 DEF Chat!Replayed
<1>5. OwnAnswers(t) => OwnAnswers(u)
  BY <1>2 DEF OwnAnswers
<1> QED BY <1>2, <1>3, <1>4, <1>5

\* A prompt that goes out when all is settled tells the model what it does not know.
LEMMA PromptInforms ==
  ASSUME ChatInv, convo # NoValue, Chat!Settled
  PROVE  Chat!Informed(Chat!compose_prompt(convo).prompt)
<1> DEFINE prompt == Chat!compose_prompt(convo).prompt
<1> DEFINE known == Chat!Read(Chat!Memory, prompt, 0)
<1>1. /\ past.clean /\ convo.running = {} /\ convo.inbox = <<>> /\ convo \in Chat!Panes /\ Chat!Memory \in Chat!Sessions
      /\ work \in [Items -> Chat!Versions] /\ past.whole /\ Carried(convo.running) = {}
  BY MemoryType DEF Chat!Settled, ChatInv, ChatTypes, SentIsKnown, Carried
<1>2. /\ prompt.header = ~convo.sent.header /\ prompt.items = [i \in Chat!Delta(convo.sent) |-> work[i]]
      /\ prompt.turns = IF convo.replay THEN Chat!Replayed(convo.turns) ELSE {}
  BY DEF Chat!compose_prompt
<1> HIDE DEF prompt
<1>3. /\ known.header = (Chat!Memory.header \/ prompt.header)
      /\ known.items = [i \in Items |-> IF i \in DOMAIN prompt.items THEN prompt.items[i] ELSE Chat!Memory.items[i]]
      /\ known.turns = Chat!Memory.turns \cup prompt.turns \cup {0}
  BY DEF Chat!Read
<1> HIDE DEF known
<1>4. known.header
  BY <1>1, <1>2, <1>3, PaneTypes DEF ChatInv, SentIsKnown
<1>5. ASSUME NEW i \in Items PROVE work[i] \in {0, known.items[i]}
  <2>1. CASE i \in Chat!Delta(convo.sent)
    BY <1>2, <1>3, <2>1
  <2>2. CASE i \notin Chat!Delta(convo.sent)
    <3>1. known.items[i] = Chat!Memory.items[i] /\ work[i] = convo.sent.items[i]
      BY <1>2, <1>3, <2>2 DEF Chat!Delta
    <3>2. convo.sent.items[i] = 0 \/ Chat!Memory.items[i] = convo.sent.items[i]
      BY <1>1 DEF ChatInv, SentIsKnown, NoteIsKnown
    <3> QED BY <3>1, <3>2
  <2> QED BY <2>1, <2>2
<1>6. Chat!Replayed(convo.turns) \subseteq known.turns
  BY <1>1, <1>2, <1>3, PaneTypes DEF ChatInv, ThreadIsKnown
<1> QED BY <1>4, <1>5, <1>6 DEF Chat!Informed, known, prompt

\* A question that is refused is in the thread, and nothing was sent.
LEMMA ChatRefusedInv ==
  ASSUME ChatInv, Chat!send_chat_turn, Chat!Busy(convo)
  PROVE  ChatInv'
<1> DEFINE q == past.asked + 1
<1> USE DEF ChatInv
<1>1. /\ convo # NoValue /\ convo \in Chat!Panes /\ past \in Chat!Pasts /\ past.asked < MaxTurns /\ past.asked \in Nat
      /\ UNCHANGED <<work, transcript, session>>
  BY ChatAssumption DEF Chat!send_chat_turn, ChatTypes, Chat!Pasts
<1>2. convo' = [convo EXCEPT !.turns = Append(convo.turns, [q |-> q, state |-> "Failed", answer |-> NoValue])]
  BY <1>1 DEF Chat!send_chat_turn, Chat!Dispatched, Chat!Panes
<1>3. past' = [past EXCEPT !.asked = q]
  BY <1>1 DEF Chat!send_chat_turn, Chat!Pasts
<1>4. q \in Chat!Turns /\ q \in 0 .. MaxTurns /\ past.asked <= q
  BY <1>1, ChatAssumption DEF Chat!Turns
<1>5. convo.turns \in Chat!Transcripts
  BY <1>1, PaneTypes
<1>6. /\ past' \in Chat!Pasts /\ past'.asked = q /\ past'.shown = past.shown /\ past'.lost = past.lost
      /\ past'.clean = past.clean /\ past'.whole = past.whole /\ past'.informed = past.informed
  BY <1>1, <1>3, <1>4 DEF Chat!Pasts
<1> HIDE DEF q
<1>7. /\ convo'.turns = Append(convo.turns, [q |-> q, state |-> "Failed", answer |-> NoValue])
      /\ convo'.jobs = convo.jobs /\ convo'.running = convo.running /\ convo'.threads = convo.threads
      /\ convo'.inbox = convo.inbox /\ convo'.sent = convo.sent /\ convo'.replay = convo.replay
  BY <1>1, <1>2 DEF Chat!Panes
<1>8. /\ convo'.turns \in Chat!Transcripts /\ \A i \in DOMAIN convo.turns : i \in DOMAIN convo'.turns /\ convo'.turns[i] = convo.turns[i]
      /\ Chat!Answered(convo.turns) \subseteq Chat!Answered(convo'.turns)
      /\ Chat!Replayed(convo'.turns) \subseteq Chat!Replayed(convo.turns)
      /\ OwnAnswers(convo.turns) => OwnAnswers(convo'.turns)
  <2>1. "Failed" \in {"Pending", "Failed"}
    OBVIOUS
  <2> HIDE DEF ChatInv
  <2> DEFINE new == [q |-> q, state |-> "Failed", answer |-> NoValue]
  <2>3. convo'.turns = Append(convo.turns, new)
    BY <1>7
  <2>4. new = [q |-> q, state |-> "Failed", answer |-> NoValue]
    OBVIOUS
  <2> HIDE DEF new
  <2>5. /\ convo'.turns \in Chat!Transcripts /\ Chat!Answered(convo.turns) \subseteq Chat!Answered(convo'.turns)
        /\ Chat!Replayed(convo'.turns) \subseteq Chat!Replayed(convo.turns)
        /\ OwnAnswers(convo.turns) => OwnAnswers(convo'.turns)
    BY <1>4, <1>5, <2>1, <2>3, <2>4, AppendTurn
  <2>6. /\ Len(convo.turns) \in Nat /\ DOMAIN convo.turns = 1 .. Len(convo.turns)
        /\ DOMAIN convo'.turns = 1 .. Len(convo.turns) + 1
        /\ \A i \in DOMAIN convo.turns : convo'.turns[i] = convo.turns[i]
        /\ convo'.turns[Len(convo.turns) + 1] = new
    BY <1>5, <2>3, <2>5, AppendedLast
  <2> QED BY <2>4, <2>5, <2>6
<1>9. convo' \in Chat!Panes /\ convo' # NoValue
  <2>1. convo' = [convo EXCEPT !.turns = convo'.turns]
    BY <1>2, <1>7
  <2> QED BY <1>1, <1>8, <2>1, ChatAssumption DEF Chat!Panes
<1>10. Chat!Memory' = Chat!Memory
  BY <1>1 DEF Chat!Memory
<1>11. ~convo.replay
  <2>1. SUFFICES ASSUME convo.replay PROVE FALSE
    OBVIOUS
  <2>2. convo.threads = {}
    BY <1>1, <2>1 DEF ThreadIsKnown
  <2>3. Chat!Cardinality(convo.threads) = 0
    BY <2>2, FS_EmptySet DEF Chat!Cardinality, Cardinality
  <2> QED BY <2>3, ChatAssumption DEF Chat!Busy
<1>12. ChatTypes'
  BY <1>1, <1>6, <1>9 DEF ChatTypes
<1>13. JobsLand(convo', past'.asked)
  <2>1. JobsLand(convo, past.asked)
    BY <1>1 DEF AnswersStay
  <2>2. \A id \in DOMAIN convo.jobs : id <= q
    BY <1>1, <1>4, <2>1, PaneTypes DEF JobsLand, Chat!Turns
  <2> QED BY <1>6, <1>7, <1>8, <2>1, <2>2 DEF JobsLand, AwaitsAnswer
<1>14. AnswersStay'
  BY <1>1, <1>6, <1>8, <1>13 DEF AnswersStay
<1>15. ThreadIsKnown'
  BY <1>1, <1>6, <1>7, <1>8, <1>9, <1>10, <1>11 DEF ThreadIsKnown
<1>16. SentIsKnown'
  BY <1>1, <1>6, <1>7, <1>10 DEF SentIsKnown, NoteIsKnown
<1> QED BY <1>6, <1>12, <1>14, <1>15, <1>16

\* What goes out: what changed since the last prompt, and the thread if it is to be replayed.
LEMMA PromptType ==
  ASSUME ChatTypes, convo # NoValue
  PROVE  /\ Chat!compose_prompt(convo).prompt \in Chat!Prompts
         /\ Chat!compose_prompt(convo).next = [header |-> TRUE, items |-> work]
<1> DEFINE changed == Chat!Delta(convo.sent)
<1>1. changed \in SUBSET Items /\ work \in [Items -> Chat!Versions] /\ convo.replay \in BOOLEAN
      /\ convo.turns \in Chat!Transcripts /\ convo.sent.header \in BOOLEAN
  BY PaneTypes DEF ChatTypes, Chat!Delta
<1>2. Chat!compose_prompt(convo).prompt =
        [header |-> ~convo.sent.header, items |-> [i \in changed |-> work[i]],
         turns |-> IF convo.replay THEN Chat!Replayed(convo.turns) ELSE {}]
  BY DEF Chat!compose_prompt
<1> HIDE DEF changed
<1>3. [i \in changed |-> work[i]] \in [changed -> Chat!Versions]
  BY <1>1
<1>4. [i \in changed |-> work[i]] \in UNION {[c -> Chat!Versions] : c \in SUBSET Items}
  BY <1>1, <1>3
<1>5. (IF convo.replay THEN Chat!Replayed(convo.turns) ELSE {}) \in SUBSET Chat!Turns
  BY <1>1, ThreadTypes
<1>6. (~convo.sent.header) \in BOOLEAN
  OBVIOUS
<1> QED BY <1>2, <1>4, <1>5, <1>6 DEF Chat!Prompts, Chat!compose_prompt

\* A question that goes out takes the delta, and the thread, with it.
LEMMA ChatDispatchedInv ==
  ASSUME ChatInv, Chat!send_chat_turn, ~Chat!Busy(convo)
  PROVE  ChatInv'
<1> DEFINE q == past.asked + 1
<1> DEFINE prompt == Chat!compose_prompt(convo).prompt
<1> DEFINE r == [id |-> q, prompt |-> prompt]
<1> DEFINE index == Len(convo.turns) + 1
<1> USE DEF ChatInv
<1>1. /\ convo # NoValue /\ convo \in Chat!Panes /\ past \in Chat!Pasts /\ past.asked < MaxTurns /\ past.asked \in Nat
      /\ UNCHANGED <<work, transcript, session>>
  BY ChatAssumption DEF Chat!send_chat_turn, ChatTypes, Chat!Pasts
<1>2. /\ convo'.turns = Append(convo.turns, [q |-> q, state |-> "Pending", answer |-> NoValue])
      /\ convo'.jobs = Chat!Assigned(convo.jobs, q, index) /\ convo'.running = convo.running \cup {r}
      /\ convo'.threads = convo.threads \cup {q} /\ convo'.sent = Chat!compose_prompt(convo).next
      /\ convo'.replay = FALSE /\ convo'.dirty = TRUE /\ convo'.inbox = convo.inbox
  BY <1>1 DEF Chat!send_chat_turn, Chat!Dispatched, Chat!Panes
<1>e. convo' = [convo EXCEPT !.turns = convo'.turns, !.jobs = convo'.jobs, !.running = convo'.running,
                           !.threads = convo'.threads, !.sent = convo'.sent, !.replay = FALSE, !.dirty = TRUE]
  BY <1>1 DEF Chat!send_chat_turn, Chat!Dispatched, Chat!Panes
<1>3. past' = [past EXCEPT !.asked = q, !.informed = past.informed /\ (Chat!Settled => Chat!Informed(prompt))]
  BY <1>1 DEF Chat!send_chat_turn, Chat!Pasts
<1>4. q \in Chat!Turns /\ q \in 0 .. MaxTurns /\ past.asked < q
  BY <1>1, ChatAssumption DEF Chat!Turns
<1>5. /\ convo.turns \in Chat!Transcripts /\ prompt \in Chat!Prompts
      /\ Chat!compose_prompt(convo).next = [header |-> TRUE, items |-> work]
  BY <1>1, PaneTypes, PromptType
<1>6. past.informed /\ (Chat!Settled => Chat!Informed(prompt))
  BY <1>1, PromptInforms
<1>7. /\ past' \in Chat!Pasts /\ past'.asked = q /\ past'.shown = past.shown /\ past'.lost = past.lost
      /\ past'.clean = past.clean /\ past'.whole = past.whole /\ past'.informed
  <2>1. (past.informed /\ (Chat!Settled => Chat!Informed(prompt))) = TRUE
    BY <1>6
  <2>2. past' = [past EXCEPT !.asked = q, !.informed = TRUE]
    BY <1>3, <2>1
  <2> QED BY <1>1, <1>4, <2>2 DEF Chat!Pasts
<1>p. /\ prompt.header = ~convo.sent.header /\ prompt.items = [i \in Chat!Delta(convo.sent) |-> work[i]]
      /\ prompt.turns = IF convo.replay THEN Chat!Replayed(convo.turns) ELSE {}
  BY DEF Chat!compose_prompt
<1>r. r.id = q /\ r.prompt = prompt
  OBVIOUS
<1> HIDE DEF q, prompt, r
<1>8. /\ convo'.turns \in Chat!Transcripts /\ DOMAIN convo.turns = 1 .. Len(convo.turns) /\ Len(convo.turns) \in Nat
      /\ \A i \in DOMAIN convo.turns : i \in DOMAIN convo'.turns /\ convo'.turns[i] = convo.turns[i]
      /\ index \in DOMAIN convo'.turns /\ convo'.turns[index].q = q /\ convo'.turns[index].state = "Pending"
      /\ Chat!Answered(convo.turns) \subseteq Chat!Answered(convo'.turns)
      /\ Chat!Replayed(convo'.turns) \subseteq Chat!Replayed(convo.turns)
      /\ OwnAnswers(convo.turns) => OwnAnswers(convo'.turns)
  <2>1. "Pending" \in {"Pending", "Failed"}
    OBVIOUS
  <2> HIDE DEF ChatInv
  <2> DEFINE new == [q |-> q, state |-> "Pending", answer |-> NoValue]
  <2>3. convo'.turns = Append(convo.turns, new)
    BY <1>2
  <2>4. new = [q |-> q, state |-> "Pending", answer |-> NoValue]
    OBVIOUS
  <2> HIDE DEF new
  <2>5. /\ convo'.turns \in Chat!Transcripts /\ Chat!Answered(convo.turns) \subseteq Chat!Answered(convo'.turns)
        /\ Chat!Replayed(convo'.turns) \subseteq Chat!Replayed(convo.turns)
        /\ OwnAnswers(convo.turns) => OwnAnswers(convo'.turns)
    BY <1>4, <1>5, <2>1, <2>3, <2>4, AppendTurn
  <2>6. /\ Len(convo.turns) \in Nat /\ DOMAIN convo.turns = 1 .. Len(convo.turns)
        /\ DOMAIN convo'.turns = 1 .. Len(convo.turns) + 1
        /\ \A i \in DOMAIN convo.turns : convo'.turns[i] = convo.turns[i]
        /\ convo'.turns[Len(convo.turns) + 1] = new
    BY <1>5, <2>3, <2>5, AppendedLast
  <2> QED BY <2>4, <2>5, <2>6
<1> HIDE DEF index
<1>9. /\ DOMAIN convo'.jobs = DOMAIN convo.jobs \cup {q} /\ convo'.jobs[q] = index
      /\ \A id \in DOMAIN convo.jobs : id # q => convo'.jobs[id] = convo.jobs[id]
  BY <1>2 DEF Chat!Assigned
<1>10. convo' \in Chat!Panes /\ convo' # NoValue
  <2>1. convo'.jobs \in UNION {[ids -> Nat] : ids \in SUBSET Chat!Turns}
    <3>1. DOMAIN convo'.jobs \in SUBSET Chat!Turns
      BY <1>1, <1>4, <1>9, PaneTypes
    <3>2. index \in Nat
      BY <1>8 DEF index
    <3>3. convo'.jobs \in [DOMAIN convo'.jobs -> Nat]
      BY <1>1, <1>2, <1>9, <3>2, PaneTypes DEF Chat!Assigned
    <3> QED BY <3>1, <3>3
  <2>2. convo'.running \in SUBSET [id : Chat!Turns, prompt : Chat!Prompts]
    BY <1>1, <1>2, <1>4, <1>5, PaneTypes DEF r
  <2>3. convo'.threads \in SUBSET Chat!Turns
    BY <1>1, <1>2, <1>4, PaneTypes
  <2>4. convo'.sent \in [header : BOOLEAN, items : [Items -> Chat!Versions]]
    BY <1>2, <1>5 DEF ChatTypes
  <2>5. convo' \in Chat!Panes
    BY <1>1, <1>e, <1>8, <2>1, <2>2, <2>3, <2>4 DEF Chat!Panes
  <2> QED BY <2>5, ChatAssumption
<1>11. Chat!Memory' = Chat!Memory
  BY <1>1 DEF Chat!Memory
<1>12. ChatTypes'
  BY <1>1, <1>7, <1>10 DEF ChatTypes
<1>13. \A id \in DOMAIN convo.jobs : id < q
  BY <1>1, <1>4, PaneTypes DEF AnswersStay, JobsLand, Chat!Turns
<1>14. JobsLand(convo, past.asked)
  BY <1>1 DEF AnswersStay
<1>15. JobsLand(convo', q)
  <2>1. q \notin DOMAIN convo.jobs
    BY <1>4, <1>13 DEF Chat!Turns
  <2>2. \A id \in DOMAIN convo'.jobs : id <= q /\ convo'.jobs[id] \in DOMAIN convo'.turns /\ convo'.turns[convo'.jobs[id]].q = id
    BY <1>4, <1>8, <1>9, <1>13, <1>14, <2>1, PaneTypes, <1>1 DEF JobsLand, Chat!Turns
  <2>3. \A id \in DOMAIN convo.jobs : AwaitsAnswer(convo, id) => AwaitsAnswer(convo', id)
    BY <1>8, <1>9, <1>14, <2>1 DEF AwaitsAnswer, JobsLand
  <2>4. AwaitsAnswer(convo', q)
    BY <1>8, <1>9 DEF AwaitsAnswer
  <2>5. \A x \in convo.running : x.id \in DOMAIN convo.jobs /\ AwaitsAnswer(convo', x.id)
    BY <1>14, <2>3 DEF JobsLand, AwaitsAnswer
  <2>6. \A k \in DOMAIN convo'.inbox : convo'.inbox[k].id \in DOMAIN convo.jobs /\ AwaitsAnswer(convo', convo'.inbox[k].id)
    <3>1. convo'.inbox = convo.inbox
      BY <1>2
    <3> QED BY <3>1, <1>14, <2>3 DEF JobsLand, AwaitsAnswer
  <2>7. \A x \in convo'.running : AwaitsAnswer(convo', x.id)
    BY <1>2, <1>r, <2>4, <2>5
  <2>8. \A x, y \in convo'.running : x.id = y.id => x = y
    BY <1>2, <1>r, <1>14, <2>1, <2>5 DEF JobsLand
  <2>9. \A k, l \in DOMAIN convo'.inbox : convo'.inbox[k].id = convo'.inbox[l].id => k = l
    BY <1>2, <1>14 DEF JobsLand
  <2>10. \A x \in convo'.running, k \in DOMAIN convo'.inbox : convo'.inbox[k].id # x.id
    BY <1>2, <1>r, <1>14, <2>1, <2>6 DEF JobsLand
  <2> QED BY <2>2, <2>6, <2>7, <2>8, <2>9, <2>10 DEF JobsLand
<1>16. AnswersStay'
  BY <1>1, <1>7, <1>8, <1>15 DEF AnswersStay
<1>17. ThreadIsKnown'
  <2>1. Carried(convo'.running) = Carried(convo.running) \cup prompt.turns
    BY <1>2, <1>r DEF Carried
  <2>2. past'.whole => /\ Chat!Replayed(convo'.turns) \subseteq Chat!Memory.turns \cup Carried(convo'.running)
                       /\ Chat!Replayed(Saved(transcript)) \subseteq Chat!Memory.turns \cup Carried(convo'.running)
    BY <1>1, <1>7, <1>8, <1>p, <2>1 DEF ThreadIsKnown
  <2>3. \A k \in DOMAIN convo'.inbox : convo'.inbox[k].state = "Answered" => convo'.inbox[k].id \in Chat!Memory.turns
    BY <1>1, <1>2 DEF ThreadIsKnown
  <2> QED BY <1>1, <1>2, <1>10, <1>11, <2>2, <2>3 DEF ThreadIsKnown
<1>18. SentIsKnown'
  <2> SUFFICES ASSUME past'.clean PROVE SentIsKnown'
    BY DEF SentIsKnown
  <2>1. past.clean /\ past'.whole
    BY <1>1, <1>7 DEF SentIsKnown
  <2>2. Chat!Memory.header \/ \E x \in convo'.running : x.prompt.header
    BY <1>1, <1>2, <1>p, <1>r, <2>1, PaneTypes DEF SentIsKnown
  <2>3. ASSUME NEW i \in Items PROVE NoteIsKnown(i)'
    <3>1. convo'.sent.items[i] = work[i] /\ (i \in DOMAIN prompt.items <=> i \in Chat!Delta(convo.sent))
      BY <1>2, <1>5, <1>p
    <3>2. CASE i \in Chat!Delta(convo.sent)
      <4>1. prompt.items[i] = convo'.sent.items[i] /\ i \in DOMAIN prompt.items /\ r \in convo'.running
        BY <1>2, <1>p, <3>1, <3>2
      <4>2. \A x \in convo'.running : x.id <= q
        BY <1>2, <1>4, <1>13, <1>14, <1>r, PaneTypes, <1>1 DEF JobsLand, AwaitsAnswer, Chat!Turns
      <4> QED BY <1>r, <4>1, <4>2 DEF NoteIsKnown
    <3>3. CASE i \notin Chat!Delta(convo.sent)
      <4>1. convo'.sent.items[i] = convo.sent.items[i] /\ i \notin DOMAIN prompt.items
        BY <3>1, <3>3 DEF Chat!Delta
      <4>2. NoteIsKnown(i)
        BY <1>1, <2>1 DEF SentIsKnown
      <4> QED BY <1>2, <1>11, <1>r, <4>1, <4>2 DEF NoteIsKnown
    <3> QED BY <3>2, <3>3
  <2> QED BY <1>11, <2>1, <2>2, <2>3 DEF SentIsKnown
<1> QED BY <1>7, <1>12, <1>16, <1>17, <1>18

\* What pi has read it remembers.
LEMMA ReadType ==
  ASSUME NEW known \in Chat!Sessions, NEW prompt \in Chat!Prompts, NEW id \in Chat!Turns
  PROVE  Chat!Read(known, prompt, id) \in Chat!Sessions
<1> DEFINE items == [i \in Items |-> IF i \in DOMAIN prompt.items THEN prompt.items[i] ELSE known.items[i]]
<1>1. /\ known.header \in BOOLEAN /\ known.items \in [Items -> Chat!Versions] /\ known.turns \in SUBSET Chat!Turns
      /\ prompt.header \in BOOLEAN /\ prompt.turns \in SUBSET Chat!Turns
  BY DEF Chat!Sessions, Chat!Prompts
<1>2. PICK changed \in SUBSET Items : prompt.items \in [changed -> Chat!Versions]
  BY DEF Chat!Prompts
<1>3. \A i \in Items : (IF i \in DOMAIN prompt.items THEN prompt.items[i] ELSE known.items[i]) \in Chat!Versions
  BY <1>1, <1>2
<1>4. items \in [Items -> Chat!Versions]
  BY <1>3
<1>5. (known.header \/ prompt.header) \in BOOLEAN /\ known.turns \cup prompt.turns \cup {id} \in SUBSET Chat!Turns
  BY <1>1
<1>6. Chat!Read(known, prompt, id) =
        [header |-> known.header \/ prompt.header, items |-> items, turns |-> known.turns \cup prompt.turns \cup {id}]
  BY DEF Chat!Read
<1> HIDE DEF items
<1> QED BY <1>4, <1>5, <1>6 DEF Chat!Sessions

\* A worker is done: its prompt is in the session, or something went wrong.
LEMMA ChatWorkerInv ==
  ASSUME ChatInv, NEW ok \in BOOLEAN, Chat!WorkerSends(ok)
  PROVE  ChatInv'
<1> USE DEF ChatInv
<1>1. /\ convo # NoValue /\ convo \in Chat!Panes /\ past \in Chat!Pasts /\ UNCHANGED <<work, transcript>>
      /\ Chat!Memory \in Chat!Sessions
  BY MemoryType DEF Chat!WorkerSends, ChatTypes
<1>2. PICK r \in convo.running :
        /\ convo' = [convo EXCEPT !.running = convo.running \ {r},
                       !.inbox = Append(convo.inbox, [id |-> r.id, state |-> IF ok THEN "Answered" ELSE "Failed"])]
        /\ session' = IF ok THEN Chat!Read(Chat!Memory, r.prompt, r.id) ELSE session
        /\ past' = [past EXCEPT !.clean = past.clean /\ ok /\ \A other \in convo.running : r.id <= other.id,
                                !.whole = past.whole /\ (ok \/ r.prompt.turns = {})]
  BY <1>1 DEF Chat!WorkerSends, Chat!Panes, Chat!Pasts
<1> DEFINE update == [id |-> r.id, state |-> IF ok THEN "Answered" ELSE "Failed"]
<1>3. r.id \in Chat!Turns /\ r.prompt \in Chat!Prompts
  BY <1>1, PaneTypes
<1>4. update \in [id : Chat!Turns, state : {"Failed", "Answered"}] /\ update.id = r.id /\ (update.state = "Answered" => ok)
  BY <1>3
<1>5. /\ convo'.running = convo.running \ {r} /\ convo'.inbox = Append(convo.inbox, update)
      /\ convo'.turns = convo.turns /\ convo'.jobs = convo.jobs /\ convo'.sent = convo.sent /\ convo'.replay = convo.replay
      /\ convo'.threads = convo.threads
  BY <1>1, <1>2 DEF Chat!Panes
<1> HIDE DEF update
<1>6. /\ DOMAIN convo.inbox = 1 .. Len(convo.inbox) /\ Len(convo.inbox) \in Nat
      /\ DOMAIN convo'.inbox = 1 .. Len(convo.inbox) + 1 /\ \A k \in DOMAIN convo.inbox : convo'.inbox[k] = convo.inbox[k]
      /\ convo'.inbox[Len(convo.inbox) + 1] = update
      /\ convo'.inbox \in Seq([id : Chat!Turns, state : {"Failed", "Answered"}])
  <2> DEFINE Update == [id : Chat!Turns, state : {"Failed", "Answered"}]
  <2>1. convo.inbox \in Seq(Update) /\ update \in Update
    BY <1>1, <1>4, PaneTypes
  <2> HIDE DEF Update
  <2>2. /\ DOMAIN convo.inbox = 1 .. Len(convo.inbox) /\ Len(convo.inbox) \in Nat
        /\ DOMAIN convo'.inbox = 1 .. Len(convo.inbox) + 1 /\ \A k \in DOMAIN convo.inbox : convo'.inbox[k] = convo.inbox[k]
        /\ convo'.inbox[Len(convo.inbox) + 1] = update /\ convo'.inbox \in Seq(Update)
    BY <1>5, <2>1
  <2> QED BY <2>2 DEF Update
<1>7. \A k \in DOMAIN convo'.inbox : k \in DOMAIN convo.inbox \/ k = Len(convo.inbox) + 1
  BY <1>6
<1>8. convo' \in Chat!Panes /\ convo' # NoValue
  <2>1. convo.running \ {r} \in SUBSET [id : Chat!Turns, prompt : Chat!Prompts]
    BY <1>1, PaneTypes
  <2>2. convo' = [convo EXCEPT !.running = convo.running \ {r}, !.inbox = convo'.inbox]
    BY <1>2, <1>5
  <2> QED BY <1>1, <1>6, <2>1, <2>2, ChatAssumption DEF Chat!Panes
<1>9. session' \in Chat!Sessions \cup {NoValue} /\ (ok => session' # NoValue)
  <2>1. Chat!Read(Chat!Memory, r.prompt, r.id) \in Chat!Sessions
    BY <1>1, <1>3, ReadType
  <2> QED BY <1>2, <2>1, ChatAssumption DEF ChatTypes
<1>10. /\ past' \in Chat!Pasts /\ past'.asked = past.asked /\ past'.shown = past.shown /\ past'.lost = past.lost
       /\ past'.informed = past.informed
       /\ past'.clean => past.clean /\ ok /\ \A other \in convo.running : r.id <= other.id
       /\ past'.whole => past.whole /\ (ok \/ r.prompt.turns = {})
       /\ past.whole /\ ok => past'.whole
  <2> DEFINE clean == past.clean /\ ok /\ \A other \in convo.running : r.id <= other.id
  <2> DEFINE whole == past.whole /\ (ok \/ r.prompt.turns = {})
  <2>1. clean \in BOOLEAN /\ whole \in BOOLEAN
    BY <1>1 DEF Chat!Pasts
  <2>2. past' = [past EXCEPT !.clean = clean, !.whole = whole]
    BY <1>2
  <2> HIDE DEF clean, whole
  <2>3. /\ past' \in Chat!Pasts /\ past'.asked = past.asked /\ past'.shown = past.shown /\ past'.lost = past.lost
        /\ past'.informed = past.informed /\ past'.clean = clean /\ past'.whole = whole
    BY <1>1, <2>1, <2>2 DEF Chat!Pasts
  <2> QED BY <2>3 DEF clean, whole
<1>11. /\ ~ok => Chat!Memory' = Chat!Memory
       /\ ok => Chat!Memory' = Chat!Read(Chat!Memory, r.prompt, r.id)
  BY <1>2, <1>9 DEF Chat!Memory
<1>12. ChatTypes'
  BY <1>1, <1>8, <1>9, <1>10 DEF ChatTypes
<1>13. JobsLand(convo, past.asked)
  BY <1>1 DEF AnswersStay
<1>14. JobsLand(convo', past'.asked)
  <2>1. \A id : AwaitsAnswer(convo', id) <=> AwaitsAnswer(convo, id)
    BY <1>5 DEF AwaitsAnswer
  <2>2. \A id \in DOMAIN convo'.jobs : id <= past'.asked /\ convo'.jobs[id] \in DOMAIN convo'.turns /\ convo'.turns[convo'.jobs[id]].q = id
    BY <1>5, <1>10, <1>13 DEF JobsLand
  <2>3. \A x \in convo'.running : x \in convo.running /\ x # r
    BY <1>5
  <2>4. ASSUME NEW k \in DOMAIN convo'.inbox
        PROVE  \/ k \in DOMAIN convo.inbox /\ convo'.inbox[k].id = convo.inbox[k].id
               \/ k = Len(convo.inbox) + 1 /\ convo'.inbox[k].id = r.id
    <3>1. CASE k \in DOMAIN convo.inbox
      BY <1>6, <3>1
    <3>2. CASE k = Len(convo.inbox) + 1
      BY <1>4, <1>6, <3>2
    <3> QED BY <1>7, <3>1, <3>2
  <2>5. \A k \in DOMAIN convo'.inbox : AwaitsAnswer(convo', convo'.inbox[k].id)
    BY <1>13, <2>1, <2>4 DEF JobsLand
  <2>6. \A x \in convo'.running : AwaitsAnswer(convo', x.id)
    BY <1>13, <2>1, <2>3 DEF JobsLand
  <2>7. \A x, y \in convo'.running : x.id = y.id => x = y
    BY <1>13, <2>3 DEF JobsLand
  <2>8. \A k, l \in DOMAIN convo'.inbox : convo'.inbox[k].id = convo'.inbox[l].id => k = l
    BY <1>13, <2>4 DEF JobsLand
  <2>9. \A x \in convo'.running, k \in DOMAIN convo'.inbox : convo'.inbox[k].id # x.id
    BY <1>13, <2>3, <2>4 DEF JobsLand
  <2> QED BY <2>2, <2>5, <2>6, <2>7, <2>8, <2>9 DEF JobsLand
<1>15. AnswersStay'
  BY <1>1, <1>5, <1>10, <1>14 DEF AnswersStay
<1>16. Chat!Memory.turns \subseteq Chat!Memory'.turns
  BY <1>11 DEF Chat!Read
<1>17. ThreadIsKnown'
  <2>1. ~convo.replay
    BY <1>1 DEF ThreadIsKnown
  <2>2. past'.whole => Chat!Memory.turns \cup Carried(convo.running) \subseteq Chat!Memory'.turns \cup Carried(convo'.running)
    <3>1. past'.whole => r.prompt.turns \subseteq Chat!Memory'.turns
      BY <1>10, <1>11 DEF Chat!Read
    <3>2. Carried(convo.running) \subseteq Carried(convo'.running) \cup r.prompt.turns
      BY <1>5 DEF Carried
    <3> QED BY <1>16, <3>1, <3>2
  <2>3. \A k \in DOMAIN convo'.inbox : convo'.inbox[k].state = "Answered" => convo'.inbox[k].id \in Chat!Memory'.turns
    <3>1. \A k \in DOMAIN convo.inbox : convo'.inbox[k].state = "Answered" => convo'.inbox[k].id \in Chat!Memory'.turns
      BY <1>1, <1>6, <1>16 DEF ThreadIsKnown
    <3>2. update.state = "Answered" => update.id \in Chat!Memory'.turns
      BY <1>4, <1>11 DEF Chat!Read
    <3> QED BY <1>6, <1>7, <3>1, <3>2
  <2>4. past'.whole => /\ Chat!Replayed(convo.turns) \subseteq Chat!Memory'.turns \cup Carried(convo'.running)
                       /\ Chat!Replayed(Saved(transcript)) \subseteq Chat!Memory'.turns \cup Carried(convo'.running)
    BY <1>1, <1>10, <2>1, <2>2 DEF ThreadIsKnown
  <2> QED BY <1>1, <1>5, <1>8, <2>1, <2>3, <2>4 DEF ThreadIsKnown
<1>18. SentIsKnown'
  <2> SUFFICES ASSUME past'.clean PROVE SentIsKnown'
    BY DEF SentIsKnown
  <2>1. ok /\ past.clean /\ past.whole /\ past'.whole /\ \A other \in convo.running : r.id <= other.id
    BY <1>1, <1>10 DEF SentIsKnown
  <2>2. /\ Chat!Memory'.header = (Chat!Memory.header \/ r.prompt.header)
        /\ Chat!Memory'.items = [i \in Items |-> IF i \in DOMAIN r.prompt.items THEN r.prompt.items[i] ELSE Chat!Memory.items[i]]
    BY <1>11, <2>1 DEF Chat!Read
  <2>3. convo'.sent.header => Chat!Memory'.header \/ \E x \in convo'.running : x.prompt.header
    BY <1>1, <1>5, <2>1, <2>2 DEF SentIsKnown
  <2>4. \A x \in convo'.running : x \in convo.running /\ x.id \in Chat!Turns /\ r.id <= x.id /\ x.id # r.id
    BY <1>1, <1>5, <1>13, <2>1, PaneTypes DEF JobsLand
  <2>5. ASSUME NEW i \in Items PROVE NoteIsKnown(i)'
    <3>1. NoteIsKnown(i)
      BY <1>1, <2>1 DEF SentIsKnown
    <3>2. CASE \E x \in convo.running : /\ i \in DOMAIN x.prompt.items /\ x.prompt.items[i] = convo.sent.items[i]
                                        /\ \A other \in convo.running : i \in DOMAIN other.prompt.items => other.id <= x.id
      <4>1. PICK x \in convo.running : /\ i \in DOMAIN x.prompt.items /\ x.prompt.items[i] = convo.sent.items[i]
                                       /\ \A other \in convo.running : i \in DOMAIN other.prompt.items => other.id <= x.id
        BY <3>2
      <4>2. CASE x = r
        <5>1. Chat!Memory'.items[i] = convo'.sent.items[i]
          BY <1>5, <2>2, <4>1, <4>2
        <5>2. \A y \in convo'.running : i \notin DOMAIN y.prompt.items
          BY <1>3, <2>4, <4>1, <4>2 DEF Chat!Turns
        <5> QED BY <5>1, <5>2 DEF NoteIsKnown
      <4>3. CASE x # r
        BY <1>5, <4>1, <4>3 DEF NoteIsKnown
      <4> QED BY <4>2, <4>3
    <3>3. CASE Chat!Memory.items[i] = convo.sent.items[i] /\ \A x \in convo.running : i \notin DOMAIN x.prompt.items
      <4>1. Chat!Memory'.items[i] = convo'.sent.items[i]
        BY <1>5, <2>2, <3>3
      <4> QED BY <2>4, <3>3, <4>1 DEF NoteIsKnown
    <3>4. CASE convo.sent.items[i] = 0
      BY <1>5, <3>4 DEF NoteIsKnown
    <3> QED BY <3>1, <3>2, <3>3, <3>4 DEF NoteIsKnown
  <2> QED BY <1>10, <2>1, <2>3, <2>5 DEF SentIsKnown
<1> QED BY <1>10, <1>12, <1>15, <1>17, <1>18

\* An update lands in the turn that asked, and the thread is stored.
LEMMA ChatPollInv ==
  ASSUME ChatInv, Chat!poll_chat
  PROVE  ChatInv'
<1> DEFINE Update == [id : Chat!Turns, state : {"Failed", "Answered"}]
<1> DEFINE update == Head(convo.inbox)
<1> DEFINE at == convo.jobs[update.id]
<1> DEFINE new == [convo.turns[at] EXCEPT !.state = update.state, !.answer = convo.turns[at].q]
<1> USE DEF ChatInv
<1>1. /\ convo # NoValue /\ convo \in Chat!Panes /\ past \in Chat!Pasts /\ UNCHANGED <<work, session>>
      /\ transcript \in Chat!Transcripts \cup {NoValue, Damaged} /\ convo.turns \in Chat!Transcripts
      /\ convo.inbox # <<>> /\ convo.inbox \in Seq(Update)
  BY PaneTypes DEF Chat!poll_chat, ChatTypes
<1>2. JobsLand(convo, past.asked)
  BY <1>1 DEF AnswersStay
<1> HIDE DEF Update
<1>3. /\ update \in Update /\ 1 \in DOMAIN convo.inbox /\ update = convo.inbox[1] /\ Tail(convo.inbox) \in Seq(Update)
      /\ \A k \in DOMAIN Tail(convo.inbox) : k + 1 \in DOMAIN convo.inbox /\ k \in Nat /\ k # 0 /\ Tail(convo.inbox)[k] = convo.inbox[k + 1]
  BY <1>1
<1>4. update.id \in Chat!Turns /\ update.state \in {"Failed", "Answered"}
  BY <1>3 DEF Update
<1>5. /\ update.id \in DOMAIN convo.jobs /\ at \in DOMAIN convo.turns /\ convo.turns[at].q = update.id
      /\ convo.turns[at].state = "Pending"
  BY <1>2, <1>3 DEF JobsLand, AwaitsAnswer
<1>6. Chat!Landed(convo, update) = [convo EXCEPT !.turns = [convo.turns EXCEPT ![at] = new]]
  BY <1>1, <1>5 DEF Chat!Landed, Chat!Panes
<1> DEFINE next == [Chat!Landed(convo, update) EXCEPT !.inbox = Tail(convo.inbox), !.dirty = FALSE]
<1>7. next = [convo EXCEPT !.turns = [convo.turns EXCEPT ![at] = new], !.inbox = Tail(convo.inbox), !.dirty = FALSE]
  BY <1>1, <1>6 DEF Chat!Panes
<1>8. PICK ok \in BOOLEAN :
        /\ convo' = next /\ transcript' = Chat!AfterPoll(next, transcript, ok)
        /\ past' = [past EXCEPT !.lost = ~ok,
                      !.shown = IF update.state = "Answered" THEN past.shown \cup {update.id} ELSE past.shown]
  <2>1. next = [Chat!Landed(convo, update) EXCEPT !.inbox = Tail(@), !.dirty = FALSE]
    BY <1>1, <1>6 DEF Chat!Panes
  <2> HIDE DEF next
  <2> QED BY <1>1, <2>1 DEF Chat!poll_chat, Chat!Pasts
<1>9. new = [convo.turns[at] EXCEPT !.state = update.state, !.answer = convo.turns[at].q]
  OBVIOUS
<1> HIDE DEF update, at, new, next
<1>10. /\ convo'.turns = [convo.turns EXCEPT ![at] = new] /\ convo'.inbox = Tail(convo.inbox) /\ convo'.jobs = convo.jobs
       /\ convo'.running = convo.running /\ convo'.threads = convo.threads /\ convo'.sent = convo.sent
       /\ convo'.replay = convo.replay
  BY <1>1, <1>7, <1>8 DEF Chat!Panes
<1>11. /\ convo'.turns \in Chat!Transcripts /\ new.q = convo.turns[at].q /\ new.state = update.state
       /\ new.answer = convo.turns[at].q
  <2> DEFINE Turn == [q : Chat!Turns, state : {"Pending", "Failed", "Answered"}, answer : Chat!Turns \cup {NoValue}]
  <2>1. convo.turns \in Seq(Turn)
    BY <1>1 DEF Chat!Transcripts
  <2> HIDE DEF Turn
  <2>2. convo.turns[at] \in Turn
    BY <1>5, <2>1
  <2>3. new \in Turn /\ new.q = convo.turns[at].q /\ new.state = update.state /\ new.answer = convo.turns[at].q
    BY <1>4, <1>9, <2>2 DEF Turn
  <2>4. [convo.turns EXCEPT ![at] = new] \in Seq(Turn)
    BY <1>5, <2>1, <2>3
  <2>5. convo'.turns \in Seq(Turn)
    BY <1>10, <2>4
  <2> QED BY <2>3, <2>5 DEF Turn, Chat!Transcripts
<1>12. /\ DOMAIN convo'.turns = DOMAIN convo.turns
       /\ \A i \in DOMAIN convo.turns : convo'.turns[i].q = convo.turns[i].q /\ (i # at => convo'.turns[i] = convo.turns[i])
       /\ Chat!Answered(convo.turns) \subseteq Chat!Answered(convo'.turns)
       /\ update.state = "Answered" => update.id \in Chat!Answered(convo'.turns)
       /\ Chat!Replayed(convo'.turns) \subseteq
            Chat!Replayed(convo.turns) \cup (IF update.state = "Answered" THEN {update.id} ELSE {})
       /\ OwnAnswers(convo.turns) => OwnAnswers(convo'.turns)
  BY <1>1, <1>4, <1>5, <1>10, <1>11, LandedThread
<1>13. convo' \in Chat!Panes /\ convo' # NoValue
  <2>1. convo' = [convo EXCEPT !.turns = convo'.turns, !.inbox = Tail(convo.inbox), !.dirty = FALSE]
    BY <1>7, <1>8, <1>10
  <2>2. Tail(convo.inbox) \in Seq([id : Chat!Turns, state : {"Failed", "Answered"}])
    BY <1>3 DEF Update
  <2> QED BY <1>1, <1>11, <2>1, <2>2, ChatAssumption DEF Chat!Panes
<1>14. /\ transcript' \in Chat!Transcripts \cup {NoValue}
       /\ SameThread(Saved(transcript'), IF ok THEN convo'.turns ELSE Saved(transcript))
  <2>1. transcript' = Chat!save(transcript, convo'.turns, ok)
    <3>1. next.turns = convo'.turns /\ [next EXCEPT !.dirty = TRUE].turns = next.turns /\ [next EXCEPT !.dirty = TRUE].dirty
      BY <1>8, <1>13 DEF Chat!Panes
    <3> QED BY <1>8, <3>1 DEF Chat!AfterPoll, Chat!persist_chat
  <2> QED BY <1>1, <1>11, <2>1, SavedThread
<1>15. /\ past' \in Chat!Pasts /\ past'.asked = past.asked /\ past'.lost = ~ok /\ past'.clean = past.clean
       /\ past'.whole = past.whole /\ past'.informed = past.informed
       /\ past'.shown = IF update.state = "Answered" THEN past.shown \cup {update.id} ELSE past.shown
  <2>1. (IF update.state = "Answered" THEN past.shown \cup {update.id} ELSE past.shown) \in SUBSET Chat!Turns
    BY <1>1, <1>4 DEF Chat!Pasts
  <2> QED BY <1>1, <1>8, <2>1 DEF Chat!Pasts
<1>16. Chat!Memory' = Chat!Memory
  BY <1>1 DEF Chat!Memory
<1>17. ChatTypes'
  BY <1>1, <1>13, <1>14, <1>15 DEF ChatTypes
<1>18. \A k \in DOMAIN convo'.inbox : /\ k + 1 \in DOMAIN convo.inbox /\ k \in Nat /\ k # 0 /\ convo'.inbox[k] = convo.inbox[k + 1]
                                     /\ convo'.inbox[k].id # update.id
  <2>1. ASSUME NEW k \in DOMAIN convo'.inbox
        PROVE  /\ k + 1 \in DOMAIN convo.inbox /\ k \in Nat /\ k # 0 /\ convo'.inbox[k] = convo.inbox[k + 1]
               /\ convo'.inbox[k].id # update.id
    <3>1. k + 1 \in DOMAIN convo.inbox /\ k \in Nat /\ k # 0 /\ convo'.inbox[k] = convo.inbox[k + 1] /\ k + 1 # 1
      BY <1>3, <1>10
    <3> QED BY <1>2, <1>3, <3>1 DEF JobsLand
  <2> QED BY <2>1
<1>19. JobsLand(convo', past'.asked)
  <2>1. \A id \in DOMAIN convo'.jobs : id <= past'.asked /\ convo'.jobs[id] \in DOMAIN convo'.turns /\ convo'.turns[convo'.jobs[id]].q = id
    BY <1>2, <1>10, <1>12, <1>15 DEF JobsLand
  <2>2. \A id : AwaitsAnswer(convo, id) /\ id # update.id => AwaitsAnswer(convo', id)
    BY <1>2, <1>5, <1>10, <1>12 DEF AwaitsAnswer, JobsLand
  <2>3. \A x \in convo.running : x.id # update.id
    BY <1>2, <1>3 DEF JobsLand
  <2>4. \A x \in convo'.running : AwaitsAnswer(convo', x.id)
    BY <1>2, <1>10, <2>2, <2>3 DEF JobsLand
  <2>5. \A k \in DOMAIN convo'.inbox : AwaitsAnswer(convo', convo'.inbox[k].id)
    BY <1>2, <1>18, <2>2 DEF JobsLand
  <2>6. \A x, y \in convo'.running : x.id = y.id => x = y
    BY <1>2, <1>10 DEF JobsLand
  <2>7. \A k, l \in DOMAIN convo'.inbox : convo'.inbox[k].id = convo'.inbox[l].id => k = l
    <3>1. \A k, l \in DOMAIN convo'.inbox : convo'.inbox[k].id = convo'.inbox[l].id => k + 1 = l + 1
      BY <1>2, <1>18 DEF JobsLand
    <3>2. \A k, l \in DOMAIN convo'.inbox : k + 1 = l + 1 => k = l
      BY <1>18
    <3> QED BY <3>1, <3>2
  <2>8. \A x \in convo'.running, k \in DOMAIN convo'.inbox : convo'.inbox[k].id # x.id
    BY <1>2, <1>10, <1>18 DEF JobsLand
  <2> QED BY <2>1, <2>4, <2>5, <2>6, <2>7, <2>8 DEF JobsLand
<1>20. AnswersStay'
  <2>1. OwnAnswers(convo'.turns) /\ past'.shown \subseteq Chat!Answered(convo'.turns)
    BY <1>1, <1>12, <1>15 DEF AnswersStay
  <2>2. OwnAnswers(Saved(transcript')) /\ (ok => past'.shown \subseteq Chat!Answered(Saved(transcript')))
    BY <1>14, <2>1 DEF AnswersStay, SameThread
  <2> QED BY <1>15, <1>19, <2>1, <2>2 DEF AnswersStay
<1>21. ThreadIsKnown'
  <2>1. ~convo.replay
    BY <1>1 DEF ThreadIsKnown
  <2>2. update.state = "Answered" => update.id \in Chat!Memory.turns
    BY <1>1, <1>3 DEF ThreadIsKnown
  <2>3. past'.whole => /\ Chat!Replayed(convo'.turns) \subseteq Chat!Memory.turns \cup Carried(convo'.running)
                       /\ Chat!Replayed(Saved(transcript)) \subseteq Chat!Memory.turns \cup Carried(convo'.running)
    BY <1>1, <1>10, <1>12, <1>15, <2>1, <2>2 DEF ThreadIsKnown
  <2>4. past'.whole => Chat!Replayed(Saved(transcript')) \subseteq Chat!Memory.turns \cup Carried(convo'.running)
    BY <1>14, <2>3 DEF SameThread
  <2>5. \A k \in DOMAIN convo'.inbox : convo'.inbox[k].state = "Answered" => convo'.inbox[k].id \in Chat!Memory.turns
    BY <1>1, <1>18 DEF ThreadIsKnown
  <2> QED BY <1>10, <1>13, <1>16, <2>1, <2>3, <2>4, <2>5 DEF ThreadIsKnown
<1>22. SentIsKnown'
  BY <1>1, <1>10, <1>15, <1>16 DEF SentIsKnown, NoteIsKnown
<1> QED BY <1>15, <1>17, <1>20, <1>21, <1>22

\* Every step of the chat keeps the invariant.
LEMMA ChatNextInv == ChatInv /\ [Chat!Next]_chatState => ChatInv'
<1> SUFFICES ASSUME ChatInv, [Chat!Next]_chatState PROVE ChatInv' OBVIOUS
<1>1. CASE UNCHANGED chatState
  BY <1>1 DEF chatState, ChatInv, ChatTypes, AnswersStay, ThreadIsKnown, SentIsKnown, NoteIsKnown, Chat!Memory
<1>2. CASE Chat!send_chat_turn
  BY <1>2, ChatRefusedInv, ChatDispatchedInv
<1>3. CASE \E ok \in BOOLEAN : Chat!WorkerSends(ok)
  BY <1>3, ChatWorkerInv
<1>4. CASE Chat!poll_chat
  BY <1>4, ChatPollInv
<1>5. CASE Chat!Start \/ Chat!Quit \/ Chat!Kill \/ Chat!ThreadEnds \/ Chat!Writes \/ Chat!DiskFails \/ Chat!SessionRemoved
  BY <1>5, ChatStartInv, ChatEndsInv, ChatAroundInv
<1> QED BY <1>1, <1>2, <1>3, <1>4, <1>5 DEF Chat!Next

-----------------------------------------------------------------------------
(* The Review Map in the terminal.  Numbers and sequences first.           *)

\* Every set of numbers has a least one.
LEMMA LeastNat ==
  ASSUME NEW T, T \subseteq Nat, T # {}
  PROVE  \E n \in T : \A m \in T : n <= m
<1> DEFINE less == {ss \in Nat \X Nat : ss[1] < ss[2]}
<1>1. IsWellFoundedOn(less, Nat)
  BY NatLessThanWellFounded DEF OpToRel
<1> HIDE DEF less
<1>2. PICK n \in T : \A m \in T : ~(<<m, n>> \in less)
  BY <1>1, WFMin
<1>3. \A m \in T : ~(m < n)
  BY <1>2 DEF less
<1> QED BY <1>3

\* f puts the first sequences of s together, one after the other.
IsFlat(f, s, n) == f = [i \in 1 .. n |-> IF i = 1 THEN s[i] ELSE f[i - 1] \o s[i]]

\* FlattenSeq is the solution of its recursion.
LEMMA FlattenIsChosen ==
  ASSUME NEW s
  PROVE  Pane!FlattenSeq(s) = IF Len(s) = 0 THEN s ELSE (CHOOSE f : IsFlat(f, s, Len(s)))[Len(s)]
BY DEF Pane!FlattenSeq, IsFlat

\* The recursion has a solution, for any number of sequences.
LEMMA FlatExists ==
  ASSUME NEW s, NEW n \in Nat
  PROVE  \E f : IsFlat(f, s, n)
<1> DEFINE T == {k \in Nat : ~\E f : IsFlat(f, s, k)}
<1>1. SUFFICES ASSUME T # {} PROVE FALSE
  OBVIOUS
<1>2. PICK k \in T : \A m \in T : k <= m
  <2>1. T \subseteq Nat
    OBVIOUS
  <2> HIDE DEF T
  <2> QED BY <1>1, <2>1, LeastNat
<1>3. k # 0
  <2>1. IsFlat([i \in 1 .. 0 |-> s], s, 0)
    BY DEF IsFlat
  <2> QED BY <2>1
<1>4. k - 1 \in Nat /\ k \in Nat
  BY <1>3
<1>5. PICK f : IsFlat(f, s, k - 1)
  BY <1>2, <1>4
<1> DEFINE g == [i \in 1 .. k |-> IF i = k THEN (IF k = 1 THEN s[k] ELSE f[k - 1] \o s[k]) ELSE f[i]]
<1>6. \A i \in 1 .. k - 1 : f[i] = IF i = 1 THEN s[i] ELSE f[i - 1] \o s[i]
  BY <1>5 DEF IsFlat
<1>7. \A i \in 1 .. k : g[i] = IF i = 1 THEN s[i] ELSE g[i - 1] \o s[i]
  BY <1>4, <1>6
<1>8. g = [i \in 1 .. k |-> IF i = 1 THEN s[i] ELSE g[i - 1] \o s[i]]
  <2>1. g = [i \in 1 .. k |-> g[i]]
    OBVIOUS
  <2> HIDE DEF g
  <2> QED BY <1>7, <2>1
<1>9. IsFlat(g, s, k)
  BY <1>8 DEF IsFlat
<1> QED BY <1>9

\* Sequences of strings put together are a sequence of their strings.
LEMMA FlattenType ==
  ASSUME NEW X, NEW s \in Seq(Seq(X))
  PROVE  Pane!FlattenSeq(s) \in Seq(X)
<1>1. CASE Len(s) = 0
  <2>1. Pane!FlattenSeq(s) = <<>>
    BY <1>1, FlattenIsChosen
  <2>2. <<>> \in Seq(X)
    OBVIOUS
  <2> QED BY <2>1, <2>2
<1>2. CASE Len(s) # 0
  <2> DEFINE f == CHOOSE h : IsFlat(h, s, Len(s))
             T == {k \in Nat : k \in 1 .. Len(s) /\ f[k] \notin Seq(X)}
  <2>1. Len(s) \in Nat /\ DOMAIN s = 1 .. Len(s) /\ \A i \in 1 .. Len(s) : s[i] \in Seq(X)
    OBVIOUS
  <2>2. IsFlat(f, s, Len(s))
    BY <2>1, FlatExists
  <2>3. Pane!FlattenSeq(s) = f[Len(s)]
    BY <1>2, FlattenIsChosen
  <2> HIDE DEF f
  <2>4. \A i \in 1 .. Len(s) : f[i] = IF i = 1 THEN s[i] ELSE f[i - 1] \o s[i]
    BY <2>2 DEF IsFlat
  <2>5. SUFFICES ASSUME T # {} PROVE FALSE
    BY <1>2, <2>1, <2>3
  <2>6. PICK k \in T : \A m \in T : k <= m
    <3>1. T \subseteq Nat
      OBVIOUS
    <3> HIDE DEF T
    <3> QED BY <2>5, <3>1, LeastNat
  <2>7. CASE k = 1
    BY <2>1, <2>4, <2>6, <2>7
  <2>8. CASE k # 1
    <3>1. k - 1 \in 1 .. Len(s) /\ k \in 1 .. Len(s) /\ ~(k <= k - 1)
      BY <2>1, <2>6, <2>8
    <3>2. f[k - 1] \in Seq(X)
      BY <2>6, <3>1
    <3>3. f[k] = f[k - 1] \o s[k] /\ s[k] \in Seq(X)
      BY <2>1, <2>4, <2>8, <3>1
    <3>4. f[k] \in Seq(X)
      BY <3>2, <3>3
    <3> QED BY <2>6, <3>4
  <2> QED BY <2>7, <2>8
<1> QED BY <1>1, <1>2

-----------------------------------------------------------------------------
(* The rows and the selection.                                             *)

PaneFailures == Pane!FailureCodes \cup {NoValue}
Panes ==
  [map : Pane!Maps, selected : STRING \cup {NoValue}, overrides : UNION {[ids -> BOOLEAN] : ids \in SUBSET STRING},
   filter : BOOLEAN, reviewed : SUBSET STRING, failure : PaneFailures, dismissed : BOOLEAN,
   current : Nat, joining : Nat \cup {NoValue}, taking : Nat]

\* What the pane is, apart from where the marked row is.
SameRest(p, q) ==
  /\ q.map = p.map /\ q.overrides = p.overrides /\ q.filter = p.filter /\ q.reviewed = p.reviewed /\ q.failure = p.failure
  /\ q.dismissed = p.dismissed /\ q.current = p.current /\ q.joining = p.joining /\ q.taking = p.taking

\* One value is a sequence.
LEMMA SingletonSeq ==
  ASSUME NEW X, NEW x \in X
  PROVE  <<x>> \in Seq(X)
OBVIOUS

\* The rows of a group are ids.
LEMMA GroupRowsType ==
  ASSUME NEW p \in Panes, NEW group \in Pane!Groups
  PROVE  Pane!GroupRows(p, group) \in Seq(STRING)
<1> DEFINE all == ~p.filter \/ group.id \in p.map.hits
           chosen == [k \in DOMAIN group.files |->
                       IF all \/ group.files[k] \in p.map.hits THEN <<group.files[k]>> ELSE <<>>]
           drawn == Pane!FlattenSeq(chosen)
<1>1. group.files \in Seq(STRING) /\ group.id \in STRING
  BY DEF Pane!Groups
<1>2. chosen \in Seq(Seq(STRING))
  <2>1. DOMAIN group.files = 1 .. Len(group.files) /\ Len(group.files) \in Nat
    BY <1>1
  <2>2. \A k \in 1 .. Len(group.files) :
          (IF all \/ group.files[k] \in p.map.hits THEN <<group.files[k]>> ELSE <<>>) \in Seq(STRING)
    <3>1. \A x \in STRING : <<x>> \in Seq(STRING)
      BY SingletonSeq
    <3>2. <<>> \in Seq(STRING)
      OBVIOUS
    <3>3. \A k \in 1 .. Len(group.files) : group.files[k] \in STRING
      BY <1>1, <2>1
    <3> HIDE DEF all
    <3> QED BY <3>1, <3>2, <3>3
  <2> QED BY <2>1, <2>2
<1>3. drawn \in Seq(STRING)
  <2> HIDE DEF chosen
  <2> QED BY <1>2, FlattenType
<1>4. <<group.id>> \in Seq(STRING) /\ <<>> \in Seq(STRING)
  BY <1>1
<1>5. Pane!GroupRows(p, group) =
        IF ~all /\ drawn = <<>> THEN <<>>
        ELSE <<group.id>> \o (IF Pane!group_expanded(p, group) \/ p.filter THEN drawn ELSE <<>>)
  BY DEF Pane!GroupRows
<1> HIDE DEF drawn, all
<1>6. \A t \in Seq(STRING) : <<group.id>> \o t \in Seq(STRING)
  BY <1>4
<1> QED BY <1>3, <1>4, <1>5, <1>6

\* The rows are a sequence of ids.
LEMMA RowsType ==
  ASSUME NEW p \in Panes
  PROVE  Pane!visible_rows(p) \in Seq(STRING)
<1> DEFINE rows == [g \in DOMAIN p.map.groups |-> Pane!GroupRows(p, p.map.groups[g])]
<1>1. p.map.groups \in Seq(Pane!Groups)
  BY DEF Panes, Pane!Maps
<1>2. rows \in Seq(Seq(STRING))
  <2>1. DOMAIN p.map.groups = 1 .. Len(p.map.groups) /\ Len(p.map.groups) \in Nat
    BY <1>1
  <2>2. \A g \in 1 .. Len(p.map.groups) : Pane!GroupRows(p, p.map.groups[g]) \in Seq(STRING)
    BY <1>1, <2>1, GroupRowsType
  <2> QED BY <2>1, <2>2
<1> HIDE DEF rows
<1>3. Pane!FlattenSeq(rows) \in Seq(STRING)
  BY <1>2, FlattenType
<1> QED BY <1>3 DEF Pane!visible_rows, rows

\* They depend on the groups, the hits, the filter and what is folded.
LEMMA RowsSame ==
  ASSUME NEW p \in Panes, NEW q \in Panes, q.map.groups = p.map.groups, q.map.hits = p.map.hits,
         q.overrides = p.overrides, q.filter = p.filter
  PROVE  Pane!visible_rows(q) = Pane!visible_rows(p)
<1>1. \A group \in Pane!Groups : Pane!group_expanded(q, group) = Pane!group_expanded(p, group)
  BY DEF Pane!group_expanded
<1>2. \A group \in Pane!Groups : Pane!GroupRows(q, group) = Pane!GroupRows(p, group)
  BY <1>1 DEF Pane!GroupRows
<1>3. p.map.groups \in Seq(Pane!Groups)
  BY DEF Panes, Pane!Maps
<1>4. \A g \in DOMAIN p.map.groups : p.map.groups[g] \in Pane!Groups
  BY <1>3
<1>5. [g \in DOMAIN p.map.groups |-> Pane!GroupRows(q, p.map.groups[g])] =
      [g \in DOMAIN p.map.groups |-> Pane!GroupRows(p, p.map.groups[g])]
  BY <1>2, <1>4
<1> QED BY <1>5 DEF Pane!visible_rows

\* The marked row is drawn.
RowIsDrawn(p) ==
  IF Pane!visible_rows(p) = <<>> THEN p.selected = NoValue ELSE p.selected \in Pane!ToSet(Pane!visible_rows(p))

\* A sequence of ids that is not empty has a first one, which is an id.
LEMMA FirstRow ==
  ASSUME NEW rows \in Seq(STRING), rows # <<>>
  PROVE  /\ Len(rows) \in Nat \ {0} /\ \A i \in 1 .. Len(rows) : rows[i] \in Pane!ToSet(rows)
         /\ Pane!ToSet(rows) \subseteq STRING
<1>1. Len(rows) \in Nat \ {0} /\ DOMAIN rows = 1 .. Len(rows)
  OBVIOUS
<1>2. \A i \in 1 .. Len(rows) : rows[i] \in STRING
  BY <1>1
<1> QED BY <1>1, <1>2 DEF Pane!ToSet

\* ensure_visible_selection moves the mark to a row that is drawn, and nothing else.
LEMMA EnsureIs ==
  ASSUME NEW p \in Panes
  PROVE  /\ Pane!ensure_visible_selection(p) \in Panes
         /\ SameRest(p, Pane!ensure_visible_selection(p))
         /\ RowIsDrawn(Pane!ensure_visible_selection(p))
<1> DEFINE rows == Pane!visible_rows(p)
           q == Pane!ensure_visible_selection(p)
           s == IF rows = <<>> THEN NoValue ELSE rows[1]
<1>1. rows \in Seq(STRING)
  BY RowsType
<1>2. s \in STRING \cup {NoValue} /\ (rows # <<>> => s \in Pane!ToSet(rows))
  <2> HIDE DEF rows
  <2> QED BY <1>1, FirstRow
<1>3. q = IF p.selected \in Pane!ToSet(rows) THEN p ELSE [p EXCEPT !.selected = s]
  BY DEF Pane!ensure_visible_selection
<1> HIDE DEF rows, s, q
<1>4. q \in Panes /\ SameRest(p, q)
  BY <1>2, <1>3 DEF Panes, SameRest
<1>5. Pane!visible_rows(q) = rows
  BY <1>4, RowsSame DEF SameRest, rows
<1>6. q.selected = IF p.selected \in Pane!ToSet(rows) THEN p.selected ELSE s
  BY <1>3 DEF Panes
<1>7. rows = <<>> => Pane!ToSet(rows) = {}
  BY DEF Pane!ToSet
<1>8. RowIsDrawn(q)
  BY <1>2, <1>5, <1>6, <1>7 DEF RowIsDrawn, s
<1> QED BY <1>4, <1>8 DEF q

\* A key or a click leaves the map, what failed and the work under way alone.
Untouched(p, q) ==
  /\ q.map = p.map /\ q.failure = p.failure /\ q.dismissed = p.dismissed
  /\ q.current = p.current /\ q.joining = p.joining /\ q.taking = p.taking

\* Where a row is, is a number.
LEMMA PositionType ==
  ASSUME NEW rows \in Seq(STRING), NEW id
  PROVE  Pane!Position(rows, id) \in Int
<1> DEFINE places == {i \in DOMAIN rows : rows[i] = id}
<1>1. CASE id \notin Pane!ToSet(rows)
  BY <1>1 DEF Pane!Position
<1>2. CASE id \in Pane!ToSet(rows)
  <2>1. places # {} /\ places \subseteq Nat
    BY <1>2 DEF Pane!ToSet
  <2> HIDE DEF places
  <2>2. \E n \in places : \A m \in places : n <= m
    BY <2>1, LeastNat
  <2>3. Pane!Min(places) \in places
    BY <2>2 DEF Pane!Min
  <2> QED BY <1>2, <2>1, <2>3 DEF Pane!Position, places
<1> QED BY <1>1, <1>2

\* A place that is kept within bounds is within them.
LEMMA Clamped ==
  ASSUME NEW i \in Int, NEW n \in Nat \ {0}
  PROVE  Pane!Max({1, Pane!Min({i, n})}) \in 1 .. n
<1> DEFINE low == Pane!Min({i, n})
<1>1. low = IF i <= n THEN i ELSE n
  BY DEF Pane!Min
<1> HIDE DEF low
<1>2. Pane!Max({1, low}) = IF 1 >= low THEN 1 ELSE low
  BY <1>1 DEF Pane!Max
<1> QED BY <1>1, <1>2 DEF low

\* Another mark changes no row.
LEMMA SelectedElsewhere ==
  ASSUME NEW p \in Panes, NEW s \in STRING \cup {NoValue}
  PROVE  /\ [p EXCEPT !.selected = s] \in Panes /\ SameRest(p, [p EXCEPT !.selected = s])
         /\ [p EXCEPT !.selected = s].selected = s
         /\ Pane!visible_rows([p EXCEPT !.selected = s]) = Pane!visible_rows(p)
<1>1. [p EXCEPT !.selected = s] \in Panes /\ SameRest(p, [p EXCEPT !.selected = s]) /\ [p EXCEPT !.selected = s].selected = s
  BY DEF Panes, SameRest
<1> QED BY <1>1, RowsSame DEF SameRest

\* The keys that move the mark leave it on a row.
LEMMA MoveIs ==
  ASSUME NEW p \in Panes, NEW delta \in Int
  PROVE  /\ Pane!move_selection(p, delta) \in Panes /\ SameRest(p, Pane!move_selection(p, delta))
         /\ RowIsDrawn(Pane!move_selection(p, delta))
<1> DEFINE rows == Pane!visible_rows(p)
           place == Pane!Max({1, Pane!Min({Pane!Position(rows, p.selected) + delta, Len(rows)})})
           s == IF rows = <<>> THEN NoValue ELSE rows[place]
<1>1. rows \in Seq(STRING)
  BY RowsType
<1>2. Pane!move_selection(p, delta) = [p EXCEPT !.selected = s]
  BY DEF Pane!move_selection
<1>3. s \in STRING \cup {NoValue} /\ (rows # <<>> => s \in Pane!ToSet(rows))
  <2> HIDE DEF rows
  <2>1. CASE rows # <<>>
    <3>1. Len(rows) \in Nat \ {0} /\ Pane!Position(rows, p.selected) + delta \in Int
      BY <1>1, <2>1, FirstRow, PositionType
    <3>2. place \in 1 .. Len(rows)
      BY <3>1, Clamped
    <3> HIDE DEF place
    <3> QED BY <1>1, <2>1, <3>2, FirstRow
  <2> QED BY <2>1
<1> HIDE DEF s
<1>4. /\ [p EXCEPT !.selected = s] \in Panes /\ SameRest(p, [p EXCEPT !.selected = s])
      /\ [p EXCEPT !.selected = s].selected = s
      /\ Pane!visible_rows([p EXCEPT !.selected = s]) = rows
  BY <1>3, SelectedElsewhere
<1>5. rows = <<>> => s = NoValue
  BY DEF s
<1> HIDE DEF rows
<1> QED BY <1>2, <1>3, <1>4, <1>5 DEF RowIsDrawn

\* So does a click on a row.
LEMMA SelectIs ==
  ASSUME NEW p \in Panes, RowIsDrawn(p), NEW id
  PROVE  /\ Pane!Select(p, id) \in Panes /\ SameRest(p, Pane!Select(p, id)) /\ RowIsDrawn(Pane!Select(p, id))
<1> DEFINE rows == Pane!visible_rows(p)
<1>1. CASE id \notin Pane!ToSet(rows)
  BY <1>1 DEF Pane!Select, SameRest
<1>2. CASE id \in Pane!ToSet(rows)
  <2>1. rows \in Seq(STRING)
    BY RowsType
  <2> HIDE DEF rows
  <2>2. rows # <<>>
    BY <1>2 DEF Pane!ToSet
  <2>3. id \in STRING
    BY <1>2, <2>1, <2>2, FirstRow
  <2>4. /\ [p EXCEPT !.selected = id] \in Panes /\ SameRest(p, [p EXCEPT !.selected = id])
        /\ [p EXCEPT !.selected = id].selected = id
        /\ Pane!visible_rows([p EXCEPT !.selected = id]) = rows
    BY <2>3, SelectedElsewhere DEF rows
  <2>5. Pane!Select(p, id) = [p EXCEPT !.selected = id]
    BY <1>2 DEF Pane!Select, rows
  <2> QED BY <1>2, <2>2, <2>4, <2>5 DEF RowIsDrawn
<1> QED BY <1>1, <1>2

\* Folding a group marks a row that is still drawn.
LEMMA FoldIs ==
  ASSUME NEW p \in Panes, RowIsDrawn(p), NEW expanded \in BOOLEAN
  PROVE  LET q == Pane!set_selected_expanded(p, expanded)
         IN  q \in Panes /\ Untouched(p, q) /\ RowIsDrawn(q)
<1> DEFINE id == p.selected
           q == [p EXCEPT !.overrides = Pane!Overridden(p, id, expanded)]
<1>1. CASE ~Pane!IsGroup(p, p.selected)
  BY <1>1 DEF Pane!set_selected_expanded, Untouched
<1>2. CASE Pane!IsGroup(p, p.selected)
  <2>1. id \in STRING
    <3>1. p.map.groups \in Seq(Pane!Groups)
      BY DEF Panes, Pane!Maps
    <3>2. PICK g \in DOMAIN p.map.groups : p.map.groups[g].id = id
      BY <1>2 DEF Pane!IsGroup
    <3>3. p.map.groups[g] \in Pane!Groups
      BY <3>1, <3>2
    <3> QED BY <3>2, <3>3 DEF Pane!Groups
  <2>2. Pane!Overridden(p, id, expanded) \in UNION {[ids -> BOOLEAN] : ids \in SUBSET STRING}
    <3>1. PICK ids \in SUBSET STRING : p.overrides \in [ids -> BOOLEAN]
      BY DEF Panes
    <3>2. Pane!Overridden(p, id, expanded) \in [ids \cup {id} -> BOOLEAN] /\ ids \cup {id} \in SUBSET STRING
      BY <2>1, <3>1 DEF Pane!Overridden
    <3> QED BY <3>2
  <2>3. q \in Panes /\ Untouched(p, q)
    BY <2>2 DEF Panes, Untouched
  <2>4. Pane!set_selected_expanded(p, expanded) = Pane!ensure_visible_selection(q)
    BY <1>2 DEF Pane!set_selected_expanded
  <2> HIDE DEF q
  <2> QED BY <2>3, <2>4, EnsureIs DEF SameRest, Untouched
<1> QED BY <1>1, <1>2

\* So does unfolding what is folded, and the other way round.
LEMMA ToggleIs ==
  ASSUME NEW p \in Panes, RowIsDrawn(p)
  PROVE  LET q == Pane!toggle_selected_expanded(p)
         IN  q \in Panes /\ Untouched(p, q) /\ RowIsDrawn(q)
<1> DEFINE group == CHOOSE x \in Pane!ToSet(p.map.groups) : x.id = p.selected
<1>1. CASE ~Pane!IsGroup(p, p.selected)
  BY <1>1 DEF Pane!toggle_selected_expanded, Untouched
<1>2. CASE Pane!IsGroup(p, p.selected)
  <2>1. (~Pane!group_expanded(p, group)) \in BOOLEAN
    OBVIOUS
  <2>2. Pane!toggle_selected_expanded(p) = Pane!set_selected_expanded(p, ~Pane!group_expanded(p, group))
    BY <1>2 DEF Pane!toggle_selected_expanded
  <2> HIDE DEF group
  <2> QED BY <2>1, <2>2, FoldIs
<1> QED BY <1>1, <1>2

\* The filter marks a row it leaves.
LEMMA FilterIs ==
  ASSUME NEW p \in Panes, NEW filter \in BOOLEAN
  PROVE  LET q == Pane!SetFilter(p, filter)
         IN  q \in Panes /\ Untouched(p, q) /\ RowIsDrawn(q)
<1> DEFINE q == [p EXCEPT !.filter = filter]
<1>1. q \in Panes /\ Untouched(p, q)
  BY DEF Panes, Untouched
<1>2. Pane!SetFilter(p, filter) = Pane!ensure_visible_selection(q)
  BY DEF Pane!SetFilter
<1> HIDE DEF q
<1> QED BY <1>1, <1>2, EnsureIs DEF SameRest, Untouched

\* The files of a map are ids.
LEMMA FilesType ==
  ASSUME NEW map \in Pane!Maps
  PROVE  Pane!Files(map) \subseteq STRING
<1>1. map.groups \in Seq(Pane!Groups)
  BY DEF Pane!Maps
<1>2. \A g \in DOMAIN map.groups : map.groups[g].files \in Seq(STRING)
  <2>1. \A g \in DOMAIN map.groups : map.groups[g] \in Pane!Groups
    BY <1>1
  <2> QED BY <2>1 DEF Pane!Groups
<1>3. \A s \in Seq(STRING) : Pane!ToSet(s) \subseteq STRING
  BY DEF Pane!ToSet
<1> QED BY <1>2, <1>3 DEF Pane!Files

\* What does not touch the rows leaves the mark where it is.
LEMMA RowsStay ==
  ASSUME NEW p \in Panes, RowIsDrawn(p), NEW q \in Panes, q.map.groups = p.map.groups, q.map.hits = p.map.hits,
         q.overrides = p.overrides, q.filter = p.filter, q.selected = p.selected
  PROVE  RowIsDrawn(q)
BY RowsSame DEF RowIsDrawn

\* Marking a file as read does.
LEMMA ReviewedIs ==
  ASSUME NEW p \in Panes, RowIsDrawn(p), NEW file \in STRING, NEW q,
         q \in {Pane!mark_reviewed(p, file), Pane!mark_unreviewed(p, file)}
  PROVE  q \in Panes /\ Untouched(p, q) /\ RowIsDrawn(q)
<1>1. PICK marks \in SUBSET STRING : q = [p EXCEPT !.reviewed = marks]
  <2>1. p.reviewed \in SUBSET STRING /\ p = [p EXCEPT !.reviewed = p.reviewed]
    BY DEF Panes
  <2> QED BY <2>1 DEF Pane!mark_reviewed, Pane!mark_unreviewed
<1>2. q \in Panes /\ Untouched(p, q) /\ q.overrides = p.overrides /\ q.filter = p.filter /\ q.selected = p.selected
  BY <1>1 DEF Panes, Untouched
<1> QED BY <1>2, RowsStay DEF Untouched

-----------------------------------------------------------------------------
(* The workers and what they send.                                         *)

PaneUpdates ==
  [kind : {"Failure", "Enriched", "Analyzing"}, code : PaneFailures, map : Pane!Maps \cup {NoValue}]
\* What a worker ends with, and what it may send.
News == {u \in PaneUpdates : (u.kind = "Failure" /\ u.code \in Pane!FailureCodes) \/ (u.kind = "Enriched" /\ u.map \in Pane!Maps)}
Tidings == {u \in PaneUpdates : u.kind = "Analyzing" \/ u \in News}

PaneWorkers ==
  [pc : {"Resolve", "Check", "Wait", "Poll", "End"}, response : Pane!Maps \cup {NoValue}, cancelled : BOOLEAN,
   queue : Seq(Tidings), polls : Nat, outcome : Tidings \cup {NoValue}]

\* A worker that came to its end was the last to send, unless it was cancelled.
WorkerOk(w) ==
  /\ w \in PaneWorkers
  /\ w.pc = "Check" => w.response \in Pane!Maps
  /\ w.pc = "End" /\ ~w.cancelled => w.outcome \in News /\ (w.queue # <<>> => w.queue[Len(w.queue)] = w.outcome)

\* The pane shows what a worker ended with.
ShowsNews(p, news) ==
  IF news.kind = "Enriched" /\ news.map.head = BaseMap.head
  THEN p.map = news.map /\ p.failure = NoValue
  ELSE p.failure # NoValue \/ p.dismissed

PaneOk(p) == p \in Panes /\ RowIsDrawn(p) /\ p.map.head = BaseMap.head

\* The worker of the last retry is the one that was not cancelled; while the one before is
\* joined, nothing it sent is taken.
CurrentWorks ==
  /\ pane.current \in 0 .. Len(workers)
  /\ \A i \in DOMAIN workers : i # pane.current => workers[i].cancelled
  /\ pane.current # 0 => ~workers[pane.current].cancelled
  /\ pane.taking # 0 => pane.current # 0 /\ pane.joining = NoValue
  /\ pane.joining # NoValue =>
       /\ pane.current # 0 /\ pane.joining \in DOMAIN workers /\ pane.joining # pane.current
       /\ workers[pane.current].pc = "End" => workers[pane.current].queue # <<>>

LastNewsShown ==
  pane.joining = NoValue /\ pane.current # 0 /\ workers[pane.current].pc = "End" /\ workers[pane.current].queue = <<>> =>
    ShowsNews(pane, workers[pane.current].outcome)

WorkersOk == workers \in Seq(PaneWorkers) /\ \A i \in DOMAIN workers : WorkerOk(workers[i])

PaneInv == PaneOk(pane) /\ WorkersOk /\ CurrentWorks /\ LastNewsShown

\* What an update does to the pane: news are shown.
LEMMA AppliedIs ==
  ASSUME NEW p \in Panes, RowIsDrawn(p), p.map.head = BaseMap.head, NEW u \in Tidings
  PROVE  LET q == Pane!Applied(p, u)
         IN  /\ PaneOk(q) /\ q.current = p.current /\ q.joining = p.joining /\ q.taking = p.taking
             /\ u \in News => ShowsNews(q, u)
<1> DEFINE q == Pane!Applied(p, u)
<1> SUFFICES /\ PaneOk(q) /\ q.current = p.current /\ q.joining = p.joining /\ q.taking = p.taking
             /\ u \in News => ShowsNews(q, u)
  OBVIOUS
<1> HIDE DEF q
<1>1. p.map \in Pane!Maps /\ u \in PaneUpdates
  BY DEF Panes, Tidings
<1>2. CASE u.kind = "Analyzing"
  <2> DEFINE map == [p.map EXCEPT !.status = "Analyzing"]
  <2>1. /\ map \in Pane!Maps /\ map.head = p.map.head /\ map.groups = p.map.groups /\ map.hits = p.map.hits
    BY <1>1 DEF Pane!Maps, Pane!Statuses
  <2>q. q = [p EXCEPT !.map = map]
    BY <1>2 DEF Pane!Applied, q
  <2> HIDE DEF map
  <2>2. /\ q \in Panes /\ q.map = map /\ q.overrides = p.overrides /\ q.filter = p.filter /\ q.selected = p.selected
        /\ q.current = p.current /\ q.joining = p.joining /\ q.taking = p.taking
    BY <2>1, <2>q DEF Panes
  <2>3. RowIsDrawn(q)
    BY <2>1, <2>2, RowsStay
  <2>4. u \notin News
    BY <1>2 DEF News
  <2> QED BY <2>1, <2>2, <2>3, <2>4 DEF PaneOk
<1>4. CASE u.kind = "Failure"
  <2>1. q = [p EXCEPT !.failure = u.code, !.dismissed = FALSE] /\ u.code \in Pane!FailureCodes
    BY <1>4 DEF Pane!Applied, Tidings, News, q
  <2>2. /\ q \in Panes /\ q.map = p.map /\ q.overrides = p.overrides /\ q.filter = p.filter /\ q.selected = p.selected
        /\ q.current = p.current /\ q.joining = p.joining /\ q.taking = p.taking /\ q.failure = u.code
    BY <2>1 DEF Panes, PaneFailures
  <2> QED BY <1>4, <2>1, <2>2, RowsStay, PaneAssumption DEF ShowsNews, PaneOk
<1>5. CASE u.kind = "Enriched" /\ u.map.head # BaseMap.head
  <2>1. q = [p EXCEPT !.failure = "ResultStale", !.dismissed = FALSE]
    BY <1>1, <1>5 DEF Pane!Applied, Pane!replace_map, q
  <2>2. "ResultStale" \in Pane!FailureCodes
    BY DEF Pane!FailureCodes, Pane!ClientFailures
  <2>3. /\ q \in Panes /\ q.map = p.map /\ q.overrides = p.overrides /\ q.filter = p.filter /\ q.selected = p.selected
        /\ q.current = p.current /\ q.joining = p.joining /\ q.taking = p.taking /\ q.failure = "ResultStale"
    BY <2>1, <2>2 DEF Panes, PaneFailures
  <2> QED BY <1>5, <2>2, <2>3, RowsStay, PaneAssumption DEF ShowsNews, PaneOk
<1>6. CASE u.kind = "Enriched" /\ u.map.head = BaseMap.head
  <2> DEFINE r == [p EXCEPT !.map = u.map, !.failure = NoValue, !.dismissed = FALSE]
  <2>1. q = Pane!ensure_visible_selection(r)
    BY <1>6 DEF Pane!Applied, Pane!replace_map, q
  <2>2. u.map \in Pane!Maps
    BY <1>6 DEF Tidings, News
  <2>3. /\ r \in Panes /\ r.map = u.map /\ r.failure = NoValue
        /\ r.current = p.current /\ r.joining = p.joining /\ r.taking = p.taking
    BY <2>2 DEF Panes, PaneFailures
  <2> HIDE DEF r
  <2>4. q \in Panes /\ SameRest(r, q) /\ RowIsDrawn(q)
    BY <2>1, <2>3, EnsureIs
  <2> QED BY <1>6, <2>3, <2>4 DEF SameRest, PaneOk, ShowsNews
<1> QED BY <1>1, <1>2, <1>4, <1>5, <1>6 DEF PaneUpdates

\* One worker changes.
LEMMA OneWorker ==
  ASSUME WorkersOk, NEW i \in DOMAIN workers, NEW w, WorkerOk(w), workers' = [workers EXCEPT ![i] = w]
  PROVE  /\ WorkersOk' /\ Len(workers') = Len(workers) /\ DOMAIN workers' = DOMAIN workers /\ workers'[i] = w
         /\ \A j \in DOMAIN workers : j # i => workers'[j] = workers[j]
<1>1. workers \in Seq(PaneWorkers) /\ w \in PaneWorkers
  BY DEF WorkersOk, WorkerOk
<1>2. workers' \in Seq(PaneWorkers) /\ Len(workers') = Len(workers) /\ DOMAIN workers' = DOMAIN workers /\ workers'[i] = w
      /\ \A j \in DOMAIN workers : j # i => workers'[j] = workers[j]
  BY <1>1
<1>3. \A j \in DOMAIN workers' : WorkerOk(workers'[j])
  BY <1>2 DEF WorkersOk
<1> QED BY <1>2, <1>3 DEF WorkersOk

\* A worker that is not at its end moves on, or sends what it ends with.
LEMMA WorkerMoves ==
  ASSUME PaneInv, NEW i \in DOMAIN workers, workers[i].pc # "End", NEW w, WorkerOk(w), w.cancelled = workers[i].cancelled,
         w.pc = "End" => w.cancelled \/ w.queue # <<>>, workers' = [workers EXCEPT ![i] = w], UNCHANGED pane
  PROVE  PaneInv'
<1>1. /\ WorkersOk' /\ Len(workers') = Len(workers) /\ DOMAIN workers' = DOMAIN workers /\ workers'[i] = w
      /\ \A j \in DOMAIN workers : j # i => workers'[j] = workers[j]
  BY OneWorker DEF PaneInv
<1>2. pane.current # 0 => pane.current \in DOMAIN workers
  BY DEF PaneInv, CurrentWorks, WorkersOk
<1>3. CurrentWorks'
  BY <1>1, <1>2 DEF PaneInv, CurrentWorks
<1>4. LastNewsShown'
  BY <1>1, <1>2 DEF PaneInv, CurrentWorks, LastNewsShown, ShowsNews
<1>5. PaneOk(pane)'
  BY DEF PaneInv
<1> QED BY <1>1, <1>3, <1>4, <1>5 DEF PaneInv

-----------------------------------------------------------------------------
(* The steps of the Review Map.                                            *)

\* It starts with a row marked and a worker that has sent nothing.
LEMMA PaneInitInv == Pane!Init => PaneInv
<1> SUFFICES ASSUME Pane!Init PROVE PaneInv
  OBVIOUS
<1>1. PICK connected \in BOOLEAN :
        /\ pane = Pane!ensure_visible_selection(
                    [map |-> BaseMap, selected |-> NoValue, overrides |-> [k \in {} |-> TRUE], filter |-> FALSE,
                     reviewed |-> {}, failure |-> IF connected THEN NoValue ELSE "ServerUnreachable", dismissed |-> FALSE,
                     current |-> IF connected THEN 1 ELSE 0, joining |-> NoValue, taking |-> 0])
        /\ workers = IF connected THEN <<Pane!NewWorker>> ELSE <<>>
  BY DEF Pane!Init
<1> DEFINE p == [map |-> BaseMap, selected |-> NoValue, overrides |-> [k \in {} |-> TRUE], filter |-> FALSE,
                 reviewed |-> {}, failure |-> IF connected THEN NoValue ELSE "ServerUnreachable", dismissed |-> FALSE,
                 current |-> IF connected THEN 1 ELSE 0, joining |-> NoValue, taking |-> 0]
<1>2. /\ p \in Panes /\ p.map = BaseMap /\ p.current = (IF connected THEN 1 ELSE 0) /\ p.joining = NoValue /\ p.taking = 0
  <2>1. [k \in {} |-> TRUE] \in UNION {[ids -> BOOLEAN] : ids \in SUBSET STRING}
    <3>1. [k \in {} |-> TRUE] \in [{} -> BOOLEAN] /\ {} \in SUBSET STRING
      OBVIOUS
    <3> QED BY <3>1
  <2>2. "ServerUnreachable" \in PaneFailures /\ NoValue \in PaneFailures
    BY DEF PaneFailures, Pane!FailureCodes, Pane!ClientFailures
  <2> HIDE DEF PaneFailures
  <2> QED BY <2>1, <2>2, PaneAssumption DEF Panes
<1> HIDE DEF p
<1>3. pane \in Panes /\ SameRest(p, pane) /\ RowIsDrawn(pane)
  BY <1>1, <1>2, EnsureIs DEF p
<1>4. WorkerOk(Pane!NewWorker)
  BY DEF WorkerOk, PaneWorkers, Pane!NewWorker
<1>5. WorkersOk /\ Len(workers) = p.current /\ \A i \in DOMAIN workers : workers[i] = Pane!NewWorker
  <2>1. CASE connected
    <3>1. workers = <<Pane!NewWorker>>
      BY <1>1, <2>1
    <3>2. Pane!NewWorker \in PaneWorkers
      BY <1>4 DEF WorkerOk
    <3>3. workers \in Seq(PaneWorkers) /\ Len(workers) = 1 /\ \A i \in DOMAIN workers : workers[i] = Pane!NewWorker
      BY <3>1, <3>2, SingletonSeq
    <3> QED BY <1>2, <1>4, <2>1, <3>3 DEF WorkersOk
  <2>2. CASE ~connected
    <3>1. workers = <<>>
      BY <1>1, <2>2
    <3> QED BY <1>2, <2>2, <3>1 DEF WorkersOk
  <2> QED BY <2>1, <2>2
<1>6. pane.current = p.current /\ p.current \in {0, 1} /\ pane.joining = NoValue /\ pane.taking = 0 /\ pane.map = BaseMap
  BY <1>2, <1>3 DEF SameRest
<1>7. workers \in Seq(PaneWorkers) /\ DOMAIN workers = 1 .. p.current
  BY <1>5, <1>6 DEF WorkersOk
<1>8. CurrentWorks
  BY <1>5, <1>6, <1>7 DEF CurrentWorks, Pane!NewWorker
<1>9. LastNewsShown
  BY <1>5, <1>6, <1>7 DEF LastNewsShown, Pane!NewWorker
<1> QED BY <1>3, <1>5, <1>6, <1>8, <1>9 DEF PaneInv, PaneOk

\* A key or a click keeps the invariant.
LEMMA KeyInv ==
  ASSUME PaneInv, NEW q \in Panes, Untouched(pane, q), RowIsDrawn(q), pane' = q, UNCHANGED workers
  PROVE  PaneInv'
<1>1. PaneOk(pane)'
  BY DEF PaneInv, PaneOk, Untouched
<1>2. WorkersOk'
  BY DEF PaneInv, WorkersOk
<1>3. CurrentWorks'
  BY DEF PaneInv, CurrentWorks, Untouched
<1>4. LastNewsShown'
  BY DEF PaneInv, LastNewsShown, ShowsNews, Untouched
<1> QED BY <1>1, <1>2, <1>3, <1>4 DEF PaneInv

\* A failure that is dismissed is out of the way.
LEMMA DismissInv == PaneInv /\ Pane!DismissFailure => PaneInv'
<1> SUFFICES ASSUME PaneInv, Pane!DismissFailure PROVE PaneInv'
  OBVIOUS
<1>1. pane' = [pane EXCEPT !.failure = NoValue, !.dismissed = TRUE] /\ UNCHANGED workers /\ pane \in Panes
  BY DEF PaneInv, PaneOk, Pane!DismissFailure, Pane!Pressed
<1>2. /\ pane' \in Panes /\ pane'.map = pane.map /\ pane'.overrides = pane.overrides /\ pane'.filter = pane.filter
      /\ pane'.selected = pane.selected /\ pane'.current = pane.current /\ pane'.joining = pane.joining
      /\ pane'.taking = pane.taking /\ pane'.failure = NoValue /\ pane'.dismissed
  BY <1>1 DEF Panes, PaneFailures
<1>3. PaneOk(pane)'
  BY <1>2, RowsStay DEF PaneInv, PaneOk
<1>4. WorkersOk'
  BY <1>1 DEF PaneInv, WorkersOk
<1>5. CurrentWorks'
  BY <1>1, <1>2 DEF PaneInv, CurrentWorks
<1>6. LastNewsShown'
  BY <1>1, <1>2 DEF PaneInv, LastNewsShown, ShowsNews
<1> QED BY <1>3, <1>4, <1>5, <1>6 DEF PaneInv

\* The keys.
LEMMA ActInv == PaneInv /\ Pane!Act => PaneInv'
<1> SUFFICES ASSUME PaneInv, Pane!Act PROVE PaneInv'
  OBVIOUS
<1>1. pane \in Panes /\ RowIsDrawn(pane)
  BY DEF PaneInv, PaneOk
<1>2. CASE \E delta \in {-3, -1, 1, 3} : Pane!Pressed(Pane!move_selection(pane, delta))
  <2>1. PICK delta \in {-3, -1, 1, 3} : Pane!Pressed(Pane!move_selection(pane, delta))
    BY <1>2
  <2>2. delta \in Int
    OBVIOUS
  <2> DEFINE q == Pane!move_selection(pane, delta)
  <2>3. q \in Panes /\ Untouched(pane, q) /\ RowIsDrawn(q)
    BY <1>1, <2>2, MoveIs DEF SameRest, Untouched
  <2> QED BY <2>1, <2>3, KeyInv DEF Pane!Pressed
<1>3. CASE \E expanded \in BOOLEAN : Pane!Pressed(Pane!set_selected_expanded(pane, expanded))
  <2>1. PICK expanded \in BOOLEAN : Pane!Pressed(Pane!set_selected_expanded(pane, expanded))
    BY <1>3
  <2> DEFINE q == Pane!set_selected_expanded(pane, expanded)
  <2>2. q \in Panes /\ Untouched(pane, q) /\ RowIsDrawn(q)
    BY <1>1, FoldIs
  <2> QED BY <2>1, <2>2, KeyInv DEF Pane!Pressed
<1>4. CASE Pane!Pressed(Pane!toggle_selected_expanded(pane))
  BY <1>1, <1>4, ToggleIs, KeyInv DEF Pane!Pressed
<1>5. CASE \E filter \in BOOLEAN : Pane!Pressed(Pane!SetFilter(pane, filter))
  <2>1. PICK filter \in BOOLEAN : Pane!Pressed(Pane!SetFilter(pane, filter))
    BY <1>5
  <2> DEFINE q == Pane!SetFilter(pane, filter)
  <2>2. q \in Panes /\ Untouched(pane, q) /\ RowIsDrawn(q)
    BY <1>1, FilterIs
  <2> QED BY <2>1, <2>2, KeyInv DEF Pane!Pressed
<1>6. CASE \E file \in Pane!Files(BaseMap) :
             Pane!Pressed(Pane!mark_reviewed(pane, file)) \/ Pane!Pressed(Pane!mark_unreviewed(pane, file))
  <2>1. PICK file \in Pane!Files(BaseMap) :
          \E q \in {Pane!mark_reviewed(pane, file), Pane!mark_unreviewed(pane, file)} : Pane!Pressed(q)
    BY <1>6
  <2>2. PICK q \in {Pane!mark_reviewed(pane, file), Pane!mark_unreviewed(pane, file)} : Pane!Pressed(q)
    BY <2>1
  <2>3. file \in STRING
    BY FilesType, PaneAssumption
  <2>4. q \in Panes /\ Untouched(pane, q) /\ RowIsDrawn(q)
    BY <1>1, <2>3, ReviewedIs
  <2> QED BY <2>2, <2>4, KeyInv DEF Pane!Pressed
<1> QED BY <1>2, <1>3, <1>4, <1>5, <1>6 DEF Pane!Act

\* A click.
LEMMA ClickInv == PaneInv /\ Pane!Click => PaneInv'
<1> SUFFICES ASSUME PaneInv, Pane!Click PROVE PaneInv'
  OBVIOUS
<1>1. pane \in Panes /\ RowIsDrawn(pane)
  BY DEF PaneInv, PaneOk
<1>2. PICK id : Pane!Pressed(IF Pane!IsGroup(pane, id) THEN Pane!toggle_selected_expanded(Pane!Select(pane, id))
                             ELSE Pane!Select(pane, id))
  BY DEF Pane!Click
<1> DEFINE p == Pane!Select(pane, id)
           q == Pane!toggle_selected_expanded(p)
<1>3. p \in Panes /\ Untouched(pane, p) /\ RowIsDrawn(p)
  BY <1>1, SelectIs DEF SameRest, Untouched
<1>4. q \in Panes /\ Untouched(pane, q) /\ RowIsDrawn(q)
  <2> HIDE DEF p
  <2>1. q \in Panes /\ Untouched(p, q) /\ RowIsDrawn(q)
    BY <1>3, ToggleIs
  <2> QED BY <1>3, <2>1 DEF Untouched
<1>5. UNCHANGED workers /\ pane' \in {p, q}
  BY <1>2 DEF Pane!Pressed
<1> HIDE DEF p, q
<1> QED BY <1>3, <1>4, <1>5, KeyInv

\* A worker that is not at its end and not cancelled can send one more update.
LEMMA SentIs ==
  ASSUME NEW w \in PaneWorkers, NEW u \in Tidings, NEW pc \in {"Wait", "End"}, NEW outcome \in Tidings \cup {NoValue},
         NEW v, v = [pc |-> pc, response |-> NoValue, cancelled |-> w.cancelled, queue |-> Append(w.queue, u),
                     polls |-> w.polls, outcome |-> outcome],
         pc = "End" => outcome = u /\ u \in News
  PROVE  WorkerOk(v) /\ v.cancelled = w.cancelled /\ v.queue # <<>> /\ v.pc = pc
<1> DEFINE s == Append(w.queue, u)
<1>1. w.queue \in Seq(Tidings)
  BY DEF PaneWorkers
<1>2. s \in Seq(Tidings) /\ s # <<>> /\ s[Len(s)] = u
  BY <1>1
<1> HIDE DEF s
<1>3. v = [pc |-> pc, response |-> NoValue, cancelled |-> w.cancelled, queue |-> s, polls |-> w.polls, outcome |-> outcome]
  BY DEF s
<1>4. /\ v \in PaneWorkers /\ v.cancelled = w.cancelled /\ v.queue = s /\ v.pc = pc /\ v.outcome = outcome
  BY <1>2, <1>3 DEF PaneWorkers
<1> QED BY <1>2, <1>4 DEF WorkerOk

\* A worker ends with news.
LEMMA EndedIs ==
  ASSUME NEW w \in PaneWorkers, NEW u \in News
  PROVE  LET v == Pane!Ended(w, u)
         IN  WorkerOk(v) /\ v.cancelled = w.cancelled /\ v.queue # <<>> /\ v.pc = "End"
<1>1. u \in Tidings
  BY DEF Tidings, News
<1> DEFINE s == Append(w.queue, u)
<1>2. Pane!Ended(w, u) = [w EXCEPT !.pc = "End", !.response = NoValue, !.queue = s, !.outcome = u]
  BY Zenon DEF Pane!Ended
<1> HIDE DEF s
<1>3. Pane!Ended(w, u) = [pc |-> "End", response |-> NoValue, cancelled |-> w.cancelled, queue |-> s,
                         polls |-> w.polls, outcome |-> u]
  BY <1>2 DEF PaneWorkers
<1> QED BY <1>1, <1>3, SentIs DEF s

\* A failure is news, and so is an enriched map.
LEMMA NewsIs ==
  /\ \A code \in Pane!FailureCodes : Pane!error_update(code) \in News
  /\ \A map \in Pane!Maps : Pane!Enriched(map) \in News
BY DEF News, PaneUpdates, PaneFailures, Pane!error_update, Pane!Enriched

\* The server answers a worker.
LEMMA AnsweredInv == ASSUME NEW i \in DOMAIN workers PROVE PaneInv /\ Pane!Answered(i) => PaneInv'
<1> SUFFICES ASSUME PaneInv, Pane!Answered(i) PROVE PaneInv'
  OBVIOUS
<1> DEFINE w == workers[i]
<1>0. w.pc \in {"Resolve", "Poll"} /\ UNCHANGED pane
  BY Zenon DEF Pane!Answered
<1>1. WorkerOk(w) /\ w \in PaneWorkers /\ w.pc \in {"Resolve", "Poll"} /\ UNCHANGED pane
  BY <1>0 DEF PaneInv, WorkersOk, WorkerOk
<1> DEFINE Moves(v) == WorkerOk(v) /\ v.cancelled = w.cancelled /\ (v.pc = "End" => v.queue # <<>>)
<1>2. \A v : Moves(v) /\ workers' = [workers EXCEPT ![i] = v] => PaneInv'
  BY <1>1, WorkerMoves
<1>3. CASE \E code \in Pane!ClientFailures : workers' = [workers EXCEPT ![i] = Pane!Ended(w, Pane!error_update(code))]
  <2>1. PICK code \in Pane!ClientFailures : workers' = [workers EXCEPT ![i] = Pane!Ended(w, Pane!error_update(code))]
    BY <1>3
  <2>2. Pane!error_update(code) \in News
    BY NewsIs DEF Pane!FailureCodes
  <2>3. Moves(Pane!Ended(w, Pane!error_update(code)))
    BY <1>1, <2>2, EndedIs
  <2> QED BY <1>2, <2>1, <2>3
<1>4. CASE workers' = [workers EXCEPT ![i] = Pane!Ended(w, Pane!error_update("ResultStale"))]
  <2>1. Pane!error_update("ResultStale") \in News
    BY NewsIs DEF Pane!FailureCodes, Pane!ClientFailures
  <2>2. Moves(Pane!Ended(w, Pane!error_update("ResultStale")))
    BY <1>1, <2>1, EndedIs
  <2> QED BY <1>2, <1>4, <2>2
<1>5. ASSUME NEW map \in ServedMaps, workers' = [workers EXCEPT ![i] = [w EXCEPT !.pc = "Check", !.response = map]]
      PROVE  PaneInv'
  <2>1. map \in Pane!Maps
    BY PaneAssumption
  <2>2. Moves([w EXCEPT !.pc = "Check", !.response = map])
    BY <1>1, <2>1 DEF WorkerOk, PaneWorkers
  <2> HIDE DEF Moves
  <2> QED BY <1>2, <1>5, <2>2
<1>6. \/ \E code \in Pane!ClientFailures : workers' = [workers EXCEPT ![i] = Pane!Ended(w, Pane!error_update(code))]
      \/ \E map \in ServedMaps :
           \/ workers' = [workers EXCEPT ![i] = Pane!Ended(w, Pane!error_update("ResultStale"))]
           \/ workers' = [workers EXCEPT ![i] = [w EXCEPT !.pc = "Check", !.response = map]]
  BY Zenon DEF Pane!Answered
<1> QED BY Zenon, <1>3, <1>4, <1>5, <1>6

\* A worker looks at the answer.
LEMMA CheckInv == ASSUME NEW i \in DOMAIN workers PROVE PaneInv /\ Pane!Check(i) => PaneInv'
<1> SUFFICES ASSUME PaneInv, Pane!Check(i) PROVE PaneInv'
  OBVIOUS
<1> DEFINE w == workers[i]
<1>1. WorkerOk(w) /\ w \in PaneWorkers /\ w.pc = "Check" /\ w.response \in Pane!Maps /\ UNCHANGED pane
  BY DEF PaneInv, WorkersOk, WorkerOk, Pane!Check
<1> DEFINE Moves(v) == WorkerOk(v) /\ v.cancelled = w.cancelled /\ (v.pc = "End" => v.cancelled \/ v.queue # <<>>)
<1>2. \A v : Moves(v) /\ workers' = [workers EXCEPT ![i] = v] => PaneInv'
  BY <1>1, WorkerMoves
<1>3. CASE w.cancelled
  <2>1. workers' = [workers EXCEPT ![i] = [w EXCEPT !.pc = "End", !.response = NoValue]]
    BY <1>3 DEF Pane!Check
  <2>2. Moves([w EXCEPT !.pc = "End", !.response = NoValue])
    BY <1>1, <1>3 DEF WorkerOk, PaneWorkers
  <2> HIDE DEF Moves
  <2> QED BY <1>2, <2>1, <2>2
<1>4. CASE ~w.cancelled /\ w.response.status = "Enriched"
  <2>1. workers' = [workers EXCEPT ![i] = Pane!Ended(w, Pane!Enriched(w.response))]
    BY <1>4 DEF Pane!Check
  <2>2. Moves(Pane!Ended(w, Pane!Enriched(w.response)))
    BY <1>1, NewsIs, EndedIs
  <2> QED BY <1>2, <2>1, <2>2
<1>5. CASE ~w.cancelled /\ w.response.status \in {"Stale", "Unavailable", "Failed"}
  <2>1. workers' = [workers EXCEPT ![i] = Pane!Ended(w, Pane!error_update("AnalysisFailed"))]
    BY <1>5 DEF Pane!Check
  <2>2. Pane!error_update("AnalysisFailed") \in News
    BY NewsIs DEF Pane!FailureCodes
  <2>3. Moves(Pane!Ended(w, Pane!error_update("AnalysisFailed")))
    BY <1>1, <2>2, EndedIs
  <2> QED BY <1>2, <2>1, <2>3
<1>6. CASE ~w.cancelled /\ w.response.status \notin {"Enriched", "Stale", "Unavailable", "Failed"}
  <2> DEFINE v == Pane!Waiting(w, Pane!Analyzing)
  <2>1. workers' = [workers EXCEPT ![i] = v]
    BY <1>6 DEF Pane!Check
  <2>2. Pane!Analyzing \in Tidings
    BY DEF Tidings, PaneUpdates, PaneFailures, Pane!Analyzing
  <2>3. w.outcome \in Tidings \cup {NoValue}
    BY <1>1 DEF PaneWorkers
  <2> DEFINE s == Append(w.queue, Pane!Analyzing)
  <2>s. v = [w EXCEPT !.pc = "Wait", !.response = NoValue, !.queue = s]
    BY Zenon DEF Pane!Waiting
  <2> HIDE DEF v, s
  <2>4. v = [pc |-> "Wait", response |-> NoValue, cancelled |-> w.cancelled, queue |-> s,
             polls |-> w.polls, outcome |-> w.outcome]
    BY <1>1, <2>s DEF PaneWorkers
  <2>5. WorkerOk(v) /\ v.cancelled = w.cancelled /\ v.pc = "Wait"
    BY <1>1, <2>2, <2>3, <2>4, SentIs DEF s
  <2> QED BY <1>2, <2>1, <2>5
<1> QED BY <1>3, <1>4, <1>5, <1>6

\* A worker waits for the next poll.
LEMMA WaitInv == ASSUME NEW i \in DOMAIN workers PROVE PaneInv /\ Pane!cancellable_wait(i) => PaneInv'
<1> SUFFICES ASSUME PaneInv, Pane!cancellable_wait(i) PROVE PaneInv'
  OBVIOUS
<1> DEFINE w == workers[i]
           v == IF w.cancelled THEN [w EXCEPT !.pc = "End"] ELSE [w EXCEPT !.pc = "Poll", !.polls = @ + 1]
<1>1. WorkerOk(w) /\ w \in PaneWorkers /\ w.pc = "Wait" /\ UNCHANGED pane /\ workers' = [workers EXCEPT ![i] = v]
  BY DEF PaneInv, WorkersOk, WorkerOk, Pane!cancellable_wait
<1>2. WorkerOk(v) /\ v.cancelled = w.cancelled /\ (v.pc = "End" => v.cancelled)
  <2>1. CASE w.cancelled
    BY <1>1, <2>1 DEF WorkerOk, PaneWorkers
  <2>2. CASE ~w.cancelled
    <3>1. v = [w EXCEPT !.pc = "Poll", !.polls = w.polls + 1] /\ w.polls + 1 \in Nat
      BY <1>1, <2>2 DEF PaneWorkers
    <3> HIDE DEF v
    <3> QED BY <1>1, <3>1 DEF WorkerOk, PaneWorkers
  <2> QED BY <2>1, <2>2
<1> HIDE DEF v
<1> QED BY <1>1, <1>2, WorkerMoves

\* What is left of a sequence ends as it did, unless its first was its last.
LEMMA TailIs ==
  ASSUME NEW X, NEW s \in Seq(X), s # <<>>
  PROVE  /\ Head(s) \in X /\ Tail(s) \in Seq(X) /\ (Tail(s) = <<>> => Head(s) = s[Len(s)])
         /\ (Tail(s) # <<>> => Tail(s)[Len(Tail(s))] = s[Len(s)])
<1> DEFINE t == Tail(s)
<1>1. /\ Len(s) \in Nat \ {0} /\ Head(s) = s[1] /\ s[1] \in X /\ t \in Seq(X)
      /\ Len(t) = Len(s) - 1 /\ \A k \in 1 .. Len(s) - 1 : t[k] = s[k + 1]
  OBVIOUS
<1> HIDE DEF t
<1>2. CASE Len(s) = 1
  <2>1. t = <<>>
    BY <1>1, <1>2
  <2> QED BY <1>1, <1>2, <2>1 DEF t
<1>3. CASE Len(s) # 1
  <2>1. Len(t) \in 1 .. Len(s) - 1 /\ Len(t) + 1 = Len(s)
    BY <1>1, <1>3
  <2>2. t # <<>> /\ t[Len(t)] = s[Len(s)]
    BY <1>1, <2>1
  <2> QED BY <1>1, <2>2 DEF t
<1> QED BY <1>2, <1>3

\* One more update is taken off the channel, and shown.
LEMMA TakeInv ==
  ASSUME PaneInv, pane.joining = NoValue, pane.current # 0, NEW left \in Nat \ {0}, Pane!Take(pane, left)
  PROVE  PaneInv'
<1> DEFINE i == pane.current
           w == workers[i]
<1>1. pane \in Panes /\ RowIsDrawn(pane) /\ pane.map.head = BaseMap.head /\ i \in DOMAIN workers /\ WorkerOk(w)
      /\ w \in PaneWorkers /\ w.queue \in Seq(Tidings) /\ workers \in Seq(PaneWorkers) /\ i \in Nat
  BY DEF PaneInv, PaneOk, CurrentWorks, WorkersOk, WorkerOk, PaneWorkers
<1>2. CASE w.queue = <<>>
  <2>1. pane' = [pane EXCEPT !.taking = 0] /\ UNCHANGED workers
    BY <1>2, Zenon DEF Pane!Take
  <2>2. /\ pane' \in Panes /\ pane'.map = pane.map /\ pane'.overrides = pane.overrides /\ pane'.filter = pane.filter
        /\ pane'.selected = pane.selected /\ pane'.current = pane.current /\ pane'.joining = pane.joining
        /\ pane'.taking = 0 /\ pane'.failure = pane.failure /\ pane'.dismissed = pane.dismissed
    BY <1>1, <2>1 DEF Panes
  <2>3. PaneOk(pane)'
    BY <1>1, <2>2, RowsStay DEF PaneOk
  <2>4. WorkersOk'
    BY <2>1 DEF PaneInv, WorkersOk
  <2>5. CurrentWorks'
    BY <2>1, <2>2 DEF PaneInv, CurrentWorks
  <2>6. LastNewsShown'
    BY <2>1, <2>2 DEF PaneInv, LastNewsShown, ShowsNews
  <2> QED BY <2>3, <2>4, <2>5, <2>6 DEF PaneInv
<1>3. CASE w.queue # <<>>
  <2> DEFINE u == Head(w.queue)
             v == [w EXCEPT !.queue = Tail(w.queue)]
             q == Pane!Applied(pane, u)
  <2>1. pane' = [q EXCEPT !.taking = left - 1] /\ workers' = [workers EXCEPT ![i] = v]
    <3>1. pane' = [q EXCEPT !.taking = left - 1] /\ workers' = [workers EXCEPT ![i].queue = Tail(@)]
      BY <1>3, Zenon DEF Pane!Take
    <3>2. [workers EXCEPT ![i].queue = Tail(@)] = [workers EXCEPT ![i] = v]
      BY Zenon
    <3> QED BY <3>1, <3>2, Zenon
  <2>2. u \in Tidings /\ Tail(w.queue) \in Seq(Tidings) /\ (Tail(w.queue) = <<>> => u = w.queue[Len(w.queue)])
        /\ (Tail(w.queue) # <<>> => Tail(w.queue)[Len(Tail(w.queue))] = w.queue[Len(w.queue)])
    BY <1>1, <1>3, TailIs
  <2>3. WorkerOk(v) /\ v.cancelled = w.cancelled /\ v.pc = w.pc /\ v.queue = Tail(w.queue) /\ v.outcome = w.outcome
    <3> DEFINE s == Tail(w.queue)
    <3>1. s \in Seq(Tidings) /\ (s # <<>> => w.queue # <<>> /\ s[Len(s)] = w.queue[Len(w.queue)])
      BY <1>3, <2>2
    <3> HIDE DEF s
    <3>2. v = [w EXCEPT !.queue = s]
      BY Zenon DEF s
    <3> HIDE DEF v
    <3>3. v \in PaneWorkers /\ v.cancelled = w.cancelled /\ v.pc = w.pc /\ v.queue = s /\ v.outcome = w.outcome
          /\ v.response = w.response
      BY <1>1, <3>1, <3>2 DEF PaneWorkers
    <3>4. WorkerOk(v)
      BY <1>1, <3>1, <3>3 DEF WorkerOk
    <3> QED BY <3>3, <3>4 DEF s
  <2> HIDE DEF v
  <2>4. /\ WorkersOk' /\ Len(workers') = Len(workers) /\ DOMAIN workers' = DOMAIN workers /\ workers'[i] = v
        /\ \A j \in DOMAIN workers : j # i => workers'[j] = workers[j]
    BY <1>1, <2>1, <2>3, OneWorker DEF PaneInv
  <2>5. /\ PaneOk(q) /\ q.current = pane.current /\ q.joining = pane.joining
        /\ u \in News => ShowsNews(q, u)
    BY <1>1, <2>2, AppliedIs
  <2> HIDE DEF q
  <2>6. /\ pane' \in Panes /\ pane'.map = q.map /\ pane'.overrides = q.overrides /\ pane'.filter = q.filter
        /\ pane'.selected = q.selected /\ pane'.current = i /\ pane'.joining = NoValue
        /\ pane'.taking = left - 1 /\ pane'.failure = q.failure /\ pane'.dismissed = q.dismissed
    <3>1. left - 1 \in Nat
      OBVIOUS
    <3> QED BY <2>1, <2>5, <3>1 DEF Panes, PaneOk
  <2>7. PaneOk(pane)'
    BY <2>5, <2>6, RowsStay DEF PaneOk
  <2>8. CurrentWorks'
    BY <1>1, <2>3, <2>4, <2>6 DEF PaneInv, CurrentWorks
  <2>9. LastNewsShown'
    <3>1. SUFFICES ASSUME v.pc = "End", v.queue = <<>> PROVE ShowsNews(pane', v.outcome)
      BY <2>4, <2>6 DEF LastNewsShown
    <3>2. ~w.cancelled
      BY <1>1 DEF PaneInv, CurrentWorks
    <3>3. w.outcome \in News /\ u = w.outcome
      BY <1>1, <1>3, <2>2, <2>3, <3>1, <3>2 DEF WorkerOk
    <3> HIDE DEF u
    <3> QED BY <2>3, <2>5, <2>6, <3>3 DEF ShowsNews
  <2> QED BY <2>4, <2>7, <2>8, <2>9 DEF PaneInv
<1> QED BY <1>2, <1>3

\* A turn of the loop begins, and goes on.
LEMMA PollInv == PaneInv /\ (Pane!poll_review_map \/ Pane!TakeNext) => PaneInv'
<1>1. ASSUME PaneInv, Pane!poll_review_map PROVE PaneInv'
  BY <1>1, PaneAssumption, TakeInv DEF Pane!poll_review_map, Pane!Free
<1>2. ASSUME PaneInv, Pane!TakeNext PROVE PaneInv'
  <2>1. pane.taking \in Nat \ {0} /\ pane.joining = NoValue /\ pane.current # 0
    BY <1>2 DEF PaneInv, PaneOk, Panes, CurrentWorks, Pane!TakeNext
  <2> QED BY <1>2, <2>1, TakeInv DEF Pane!TakeNext
<1> QED BY <1>1, <1>2

\* A retry cancels the worker that is there and starts another.
LEMMA RetryInv == PaneInv /\ Pane!Retry => PaneInv'
<1> SUFFICES ASSUME PaneInv, Pane!Retry PROVE PaneInv'
  OBVIOUS
<1> DEFINE i == pane.current
           n == Len(workers) + 1
           v == [workers[i] EXCEPT !.cancelled = TRUE]
           old == [workers EXCEPT ![i] = v]
<1>1. /\ pane' = [pane EXCEPT !.joining = i, !.current = n] /\ i # 0 /\ pane.joining = NoValue /\ pane.taking = 0
      /\ workers' = Append([workers EXCEPT ![i].cancelled = TRUE], Pane!NewWorker)
  BY Zenon DEF Pane!Retry, Pane!Free
<1>2. /\ pane \in Panes /\ RowIsDrawn(pane) /\ pane.map.head = BaseMap.head /\ i \in DOMAIN workers
      /\ workers \in Seq(PaneWorkers) /\ i \in Nat /\ i \in 1 .. Len(workers) /\ n \in Nat /\ WorkerOk(workers[i])
  BY <1>1 DEF PaneInv, PaneOk, CurrentWorks, WorkersOk
<1>3. WorkerOk(v) /\ v.cancelled
  BY <1>2 DEF WorkerOk, PaneWorkers
<1>4. workers' = Append(old, Pane!NewWorker)
  BY <1>1, Zenon
<1> HIDE DEF v
<1>5. old \in Seq(PaneWorkers) /\ Len(old) = Len(workers) /\ old[i] = v /\ \A j \in 1 .. Len(workers) : j # i => old[j] = workers[j]
  <2>1. v \in PaneWorkers
    BY <1>3 DEF WorkerOk
  <2> QED BY <1>2, <2>1
<1>6. WorkerOk(Pane!NewWorker) /\ Pane!NewWorker \in PaneWorkers /\ Pane!NewWorker.pc = "Resolve" /\ ~Pane!NewWorker.cancelled
  BY DEF WorkerOk, PaneWorkers, Pane!NewWorker
<1> HIDE DEF old, n
<1>7. /\ workers' \in Seq(PaneWorkers) /\ Len(workers') = n /\ DOMAIN workers' = 1 .. n /\ workers'[n] = Pane!NewWorker
      /\ \A j \in 1 .. Len(workers) : workers'[j] = old[j]
  BY <1>4, <1>5, <1>6 DEF n
<1>8. n = Len(workers) + 1 /\ n # 0 /\ i # n /\ i \in 1 .. n /\ \A j \in 1 .. n : j = n \/ j \in 1 .. Len(workers)
  BY <1>2 DEF n
<1>9. /\ pane' \in Panes /\ pane'.map = pane.map /\ pane'.overrides = pane.overrides /\ pane'.filter = pane.filter
      /\ pane'.selected = pane.selected /\ pane'.current = n /\ pane'.joining = i /\ pane'.taking = 0
  BY <1>1, <1>2 DEF Panes
<1>10. PaneOk(pane)'
  BY <1>2, <1>9, RowsStay DEF PaneOk
<1>11. WorkersOk'
  <2>1. \A j \in 1 .. Len(workers) : WorkerOk(workers[j])
    BY <1>2 DEF PaneInv, WorkersOk
  <2> QED BY <1>3, <1>5, <1>6, <1>7, <1>8, <2>1 DEF WorkersOk
<1>12. CurrentWorks'
  <2>1. \A j \in 1 .. Len(workers) : j # i => workers[j].cancelled
    BY <1>2 DEF PaneInv, CurrentWorks
  <2>2. \A j \in 1 .. n : j # n => workers'[j].cancelled
    BY <1>3, <1>5, <1>7, <1>8, <2>1
  <2>3. i # NoValue /\ n # NoValue
    BY <1>2, PaneAssumption
  <2> QED BY <1>6, <1>7, <1>8, <1>9, <2>2, <2>3 DEF CurrentWorks
<1>13. LastNewsShown'
  BY <1>2, <1>9, PaneAssumption DEF LastNewsShown
<1> QED BY <1>10, <1>11, <1>12, <1>13 DEF PaneInv

\* The worker before is over, and what it sent goes with it.
LEMMA JoinedInv == PaneInv /\ Pane!Joined => PaneInv'
<1> SUFFICES ASSUME PaneInv, Pane!Joined PROVE PaneInv'
  OBVIOUS
<1> DEFINE i == pane.joining
           map == [pane.map EXCEPT !.status = "Analyzing"]
           v == [workers[i] EXCEPT !.queue = <<>>, !.outcome = NoValue]
<1>1. /\ i # NoValue /\ workers[i].pc = "End"
      /\ pane' = [pane EXCEPT !.joining = NoValue, !.map.status = "Analyzing", !.dismissed = FALSE]
      /\ workers' = [workers EXCEPT ![i].queue = <<>>, ![i].outcome = NoValue]
  BY Zenon DEF Pane!Joined
<1>2. /\ pane \in Panes /\ RowIsDrawn(pane) /\ pane.map.head = BaseMap.head /\ i \in DOMAIN workers
      /\ workers \in Seq(PaneWorkers) /\ WorkerOk(workers[i]) /\ pane.map \in Pane!Maps
      /\ i # pane.current /\ workers[i].cancelled /\ pane.current # 0 /\ pane.current \in DOMAIN workers
  BY <1>1 DEF PaneInv, PaneOk, CurrentWorks, WorkersOk, Panes
<1>3. WorkerOk(v) /\ v.cancelled /\ v.pc = "End"
  <2> DEFINE w == workers[i]
  <2>1. w \in PaneWorkers /\ w.cancelled /\ w.pc = "End"
    BY <1>1, <1>2 DEF WorkerOk
  <2>2. v = [w EXCEPT !.queue = <<>>, !.outcome = NoValue]
    OBVIOUS
  <2> HIDE DEF w, v
  <2>3. <<>> \in Seq(Tidings)
    OBVIOUS
  <2>4. v \in PaneWorkers /\ v.cancelled /\ v.pc = "End"
    BY <2>1, <2>2, <2>3 DEF PaneWorkers
  <2> QED BY <2>4 DEF WorkerOk
<1>4. workers' = [workers EXCEPT ![i] = v]
  BY <1>1, <1>2
<1> HIDE DEF v
<1>5. /\ WorkersOk' /\ Len(workers') = Len(workers) /\ DOMAIN workers' = DOMAIN workers /\ workers'[i] = v
      /\ \A j \in DOMAIN workers : j # i => workers'[j] = workers[j]
  BY <1>2, <1>3, <1>4, OneWorker DEF PaneInv
<1>6. map \in Pane!Maps /\ map.head = pane.map.head /\ map.groups = pane.map.groups /\ map.hits = pane.map.hits
  BY <1>2 DEF Pane!Maps, Pane!Statuses
<1>7. pane' = [pane EXCEPT !.joining = NoValue, !.map = map, !.dismissed = FALSE]
  BY <1>1, <1>2 DEF Panes
<1> HIDE DEF map
<1>8. /\ pane' \in Panes /\ pane'.map = map /\ pane'.overrides = pane.overrides /\ pane'.filter = pane.filter
      /\ pane'.selected = pane.selected /\ pane'.current = pane.current /\ pane'.joining = NoValue
      /\ pane'.taking = pane.taking
  BY <1>2, <1>6, <1>7 DEF Panes
<1>9. PaneOk(pane)'
  BY <1>2, <1>6, <1>8, RowsStay DEF PaneOk
<1>10. CurrentWorks'
  BY <1>1, <1>2, <1>3, <1>5, <1>8 DEF PaneInv, CurrentWorks
<1>11. LastNewsShown'
  BY <1>1, <1>2, <1>5, <1>8 DEF PaneInv, CurrentWorks, LastNewsShown
<1> QED BY <1>5, <1>9, <1>10, <1>11 DEF PaneInv

\* Every step of the Review Map keeps its invariant.
LEMMA PaneNextInv == PaneInv /\ (Pane!Next \/ UNCHANGED paneState) => PaneInv'
<1>1. PaneInv /\ UNCHANGED paneState => PaneInv'
  BY DEF PaneInv, PaneOk, WorkersOk, CurrentWorks, LastNewsShown, ShowsNews, paneState
<1>2. PaneInv /\ Pane!RetryUnconfigured => PaneInv'
  BY <1>1, Zenon DEF Pane!RetryUnconfigured, Pane!paneVars, paneState
<1> QED BY <1>1, <1>2, AnsweredInv, CheckInv, WaitInv, PollInv, RetryInv, JoinedInv, DismissInv, ActInv, ClickInv, Zenon
        DEF Pane!Next

-----------------------------------------------------------------------------
(* The invariant is what the Review Map promises.                          *)

\* A part is a hundred percent when it is the whole.
LEMMA WholeIs ==
  ASSUME NEW a \in Nat, NEW t \in Nat \ {0}, a <= t
  PROVE  (a * 100) \div t = 100 <=> a = t
<1> DEFINE d == (a * 100) \div t
           r == (a * 100) % t
<1>1. d \in Int /\ r \in 0 .. t - 1 /\ a * 100 = t * d + r
  OBVIOUS
<1> HIDE DEF d, r
<1>2. CASE a = t
  <2>1. t * (100 - d) = r
    BY <1>1, <1>2
  <2> QED BY <1>1, <1>2, <2>1 DEF d
<1>3. CASE a < t
  BY <1>1, <1>3 DEF d
<1> QED BY <1>2, <1>3

\* A function of a finite set has finitely many values.
LEMMA ValuesFinite ==
  ASSUME NEW S, IsFiniteSet(S), NEW f
  PROVE  IsFiniteSet({f[x] : x \in S})
<1> DEFINE T == {f[x] : x \in S}
           g == [x \in S |-> f[x]]
<1>1. g \in [S -> T] /\ \A y \in T : \E x \in S : g[x] = y
  OBVIOUS
<1> HIDE DEF g
<1>2. g \in Surjection(S, T)
  BY <1>1, Zenon DEF Surjection
<1> HIDE DEF T
<1>3. IsFiniteSet(T)
  BY <1>2, FS_Surjection
<1> QED BY <1>3 DEF T

\* The progress is complete when every file is marked.
LEMMA PercentIs ==
  ASSUME NEW p \in Panes
  PROVE  Pane!reviewed_percent(p) = 100 <=> Pane!Files(p.map) \subseteq p.reviewed
<1> DEFINE F == Pane!Files(p.map)
           R == F \cap p.reviewed
           groups == p.map.groups
           sets == {Pane!ToSet(groups[g].files) : g \in DOMAIN groups}
<1>1. groups \in Seq(Pane!Groups)
  BY DEF Panes, Pane!Maps
<1>2. IsFiniteSet(F)
  <2>1. \A s \in Seq(STRING) : IsFiniteSet(Pane!ToSet(s))
    <3> TAKE s \in Seq(STRING)
    <3>1. Len(s) \in Nat /\ DOMAIN s = 1 .. Len(s)
      OBVIOUS
    <3>2. IsFiniteSet(DOMAIN s)
      BY <3>1, FS_Interval
    <3>3. IsFiniteSet({s[i] : i \in DOMAIN s})
      BY <3>2, ValuesFinite
    <3> QED BY <3>3 DEF Pane!ToSet
  <2>2. \A g \in DOMAIN groups : groups[g].files \in Seq(STRING)
    <3>1. \A g \in DOMAIN groups : groups[g] \in Pane!Groups
      BY <1>1
    <3> QED BY <3>1 DEF Pane!Groups
  <2>3. \A s \in sets : IsFiniteSet(s)
    BY <2>1, <2>2
  <2>4. Len(groups) \in Nat /\ DOMAIN groups = 1 .. Len(groups)
    BY <1>1
  <2>5. IsFiniteSet(DOMAIN groups)
    BY <2>4, FS_Interval
  <2>6. IsFiniteSet(sets)
    <3> DEFINE f == [g \in DOMAIN groups |-> Pane!ToSet(groups[g].files)]
    <3>1. sets = {f[g] : g \in DOMAIN groups}
      OBVIOUS
    <3> HIDE DEF f
    <3> QED BY <2>5, <3>1, ValuesFinite
  <2>7. F = UNION sets
    BY DEF Pane!Files
  <2> HIDE DEF sets, F
  <2> QED BY <2>3, <2>6, <2>7, FS_UNION
<1> HIDE DEF F
<1>3. /\ IsFiniteSet(R) /\ Cardinality(R) \in Nat /\ Cardinality(F) \in Nat /\ Cardinality(R) <= Cardinality(F)
      /\ (Cardinality(R) = Cardinality(F) <=> R = F)
  BY <1>2, FS_Subset, FS_CardinalityType
<1>4. Cardinality(F) = 0 <=> F = {}
  BY <1>2, FS_EmptySet
<1>5. R = F <=> F \subseteq p.reviewed
  OBVIOUS
<1>6. \A S : Pane!Cardinality(S) = Cardinality(S)
  BY DEF Pane!Cardinality, Cardinality
<1>7. Pane!reviewed_percent(p) = IF Cardinality(F) = 0 THEN 100 ELSE (Cardinality(R) * 100) \div Cardinality(F)
  BY <1>6 DEF Pane!reviewed_percent, F
<1> HIDE DEF R
<1>8. CASE Cardinality(F) = 0
  BY <1>4, <1>7, <1>8 DEF F
<1>9. CASE Cardinality(F) # 0
  <2>1. (Cardinality(R) * 100) \div Cardinality(F) = 100 <=> Cardinality(R) = Cardinality(F)
    BY <1>3, <1>9, WholeIs
  <2> QED BY <1>3, <1>5, <1>7, <1>9, <2>1 DEF F
<1> QED BY <1>8, <1>9

\* The Review Map in the terminal keeps what it promises.
LEMMA PaneSafe == PaneInv => Pane!SelectionIsShown /\ Pane!LastNewsStands
<1> SUFFICES ASSUME PaneInv PROVE Pane!SelectionIsShown /\ Pane!LastNewsStands
  OBVIOUS
<1>1. Pane!SelectionIsShown
  BY PercentIs DEF PaneInv, PaneOk, RowIsDrawn, Pane!SelectionIsShown
<1>2. Pane!LastNewsStands
  BY DEF PaneInv, PaneOk, CurrentWorks, LastNewsShown, ShowsNews, Pane!LastNewsStands
<1> QED BY <1>1, <1>2

-----------------------------------------------------------------------------
(* The specification: a behaviour is about one component, and each keeps   *)
(* its own invariant.                                                      *)

\* A conversation that knows its thread, while the behaviour is about the chat.
PartChat == part = "chat" => ChatInv

\* Attempts that are kept apart, while the behaviour is about the analyzers.
PartBackends == part = "backends" => BackendInv

\* Credentials that last, while the behaviour is about pairing.
PartPairing == part = "pairing" => PairingInv

\* A setup that can be undone, while the behaviour is about the setup.
PartSetup == part = "setup" => SetupInv

\* A marked row and the last news, while the behaviour is about the Review Map.
PartMap == part = "map" => PaneInv

PartsInv == PartChat /\ PartBackends /\ PartMap /\ PartPairing /\ PartSetup

\* Every component starts in its invariant.
LEMMA PartsInitInv == PartsInit => PartsInv
BY ChatInitInv, BackendInitInv, PaneInitInv, PairingInitInv, SetupInitInv, Zenon
   DEF PartsInit, PartsInv, PartChat, PartBackends, PartMap, PartPairing, PartSetup

\* A step is one of the component the behaviour is about, or it changes nothing.
LEMMA PartsStep ==
  [PartsNext]_partVars =>
    /\ part' = part
    /\ part = "chat" => [Chat!Next]_chatState
    /\ part = "backends" => [Backends!Next]_backendState
    /\ part = "map" => [Pane!Next]_paneState
    /\ part = "pairing" => [Pairing!Next]_pairingState
    /\ part = "setup" => [Setup!Next]_setupState
BY DEF PartsNext, partVars

\* Every step keeps the invariant.
LEMMA PartsNextInv == PartsInv /\ [PartsNext]_partVars => PartsInv'
<1> SUFFICES ASSUME PartsInv, [PartsNext]_partVars PROVE PartsInv' OBVIOUS
<1>1. PartChat'
  BY PartsStep, ChatNextInv DEF PartsInv, PartChat
<1>2. PartBackends'
  BY PartsStep, BackendNextInv DEF PartsInv, PartBackends
<1>3. PartMap'
  BY PartsStep, PaneNextInv DEF PartsInv, PartMap
<1>4. PartPairing'
  BY PartsStep, PairingNextInv DEF PartsInv, PartPairing
<1>5. PartSetup'
  BY PartsStep, SetupNextInv DEF PartsInv, PartSetup
<1> QED BY <1>1, <1>2, <1>3, <1>4, <1>5 DEF PartsInv

\* Whatever component a behaviour is about, its invariant holds (every handler of the chat,
\* the analyzers, the Review Map, pairing and the setup).
THEOREM PartsInvariant == PartsSpec => []PartsInv
BY PartsInitInv, PartsNextInv, PTL DEF PartsSpec

\* For every number of items, edits, questions and replayed turns, and with failing disks and
\* a lost session: a question goes out with everything the reviewer wrote that the session
\* has not seen, and an answer that was shown is there after a restart (send_chat_turn,
\* poll_chat, ChatStore).
THEOREM ChatIsTold == PartsSpec => []ChatKeepsUp
<1>1. PartsInv => ChatKeepsUp
  BY ChatSafe DEF PartsInv, PartChat, ChatKeepsUp
<1> QED BY <1>1, PartsInvariant, PTL

\* For every number of batches: a result is made of accepted answers of its own attempts, and
\* no child, file or connection outlives the attempt (OllamaAnalyzer, PiAnalyzer,
\* SystemCommandExecutor).
THEOREM AttemptsAreKeptApart == PartsSpec => []AttemptsAreSeparate
<1>1. PartsInv => AttemptsAreSeparate
  BY BackendSafe DEF PartsInv, PartBackends, AttemptsAreSeparate
<1> QED BY <1>1, PartsInvariant, PTL

\* For every map, filter and folding, for every number of retries, and whatever the server
\* answers: the marked row is drawn, the progress is complete only when every file is marked,
\* and the pane shows what the worker of the last retry ended with (ReviewMapState,
\* poll_review_map, ReviewMapRuntime).
THEOREM MapIsCurrent == PartsSpec => []MapPaneIsCurrent
<1>1. PartsInv => MapPaneIsCurrent
  BY PaneSafe DEF PartsInv, PartMap, MapPaneIsCurrent
<1> QED BY <1>1, PartsInvariant, PTL

\* For every number of devices and concurrent requests, with a store that may fail to write
\* and a server that may restart: a credential handed out works until it is revoked, and
\* never after (ReviewMapClientTokenStore).
THEOREM CredentialsLast == PartsSpec => []PairingLasts
<1>1. PartsInv => PairingLasts
  BY DEF PartsInv, PartPairing, PairingLasts, PairingInv
<1> QED BY <1>1, PartsInvariant, PTL

\* Whichever step of a setup fails, what was there before is there again (apply_setup).
THEOREM SetupIsUndone == PartsSpec => []FailedSetupIsUndone
<1>1. PartsInv => FailedSetupIsUndone
  BY DEF PartsInv, PartSetup, FailedSetupIsUndone, SetupInv
<1> QED BY <1>1, PartsInvariant, PTL

-----------------------------------------------------------------------------
(* Watch mode for every choice of intervals, loads and versions: bursts    *)
(* are served, the reload key is immediate, and the review on screen is    *)
(* the one the applied fingerprint stands for.                             *)

\* What an unserved event leaves behind: the maximum deadline of the first
\* event of the burst, with the time that has passed since.
HintIsTimed ==
  hinted # None =>
    /\ phase # "loading"
    /\ mode = "observe"
    /\ maximum # None
    /\ hinted + maximum <= Maximum
    /\ phase = "polled" => hinted < Maximum

\* A pending reload key has its deadline, and no load is running.
KeyIsTimed == manual_pending => phase # "loading" /\ maximum = 0

\* The inductive invariant. Events only exist in observe mode: without that
\* a poll in manual mode could leave an event unserved for ever.
WatchInv ==
  /\ TypeOK
  /\ events => mode = "observe"
  /\ HintIsTimed
  /\ KeyIsTimed
  /\ ShownIsApplied

\* The safety interval of every mode is one of the two.
LEMMA SafetyType ==
  ASSUME NEW m \in Modes
  PROVE  SafetyOf(m) \in Nat /\ SafetyOf(m) \in 0..Safety \cup 0..PollSafety
BY WatchAssumption DEF SafetyOf

\* The initial states satisfy the invariant.
LEMMA WatchInitInv == Init => WatchInv
<1> SUFFICES ASSUME Init PROVE WatchInv
  OBVIOUS
<1>1. safety \in 0..Safety \cup 0..PollSafety
  BY SafetyType DEF Init
<1>2. changes \in 0..MaxChanges /\ elapsed \in 0..MaxLoad
  BY WatchAssumption DEF Init
<1>3. /\ disk \in Disk /\ applied \in Loadable /\ shown \in Loadable
      /\ loaded \in Disk \cup {None} /\ hinted \in Nat \cup {None}
      /\ quiet \in Deadlines(Quiet) /\ maximum \in Deadlines(Maximum)
  BY DEF Init, Disk, Loadable, Deadlines
<1>4. TypeOK
  BY <1>1, <1>2, <1>3, Zenon DEF Init, TypeOK
<1> QED BY <1>4 DEF Init, WatchInv, HintIsTimed, KeyIsTimed, ShownIsApplied

\* A deadline that time brings closer stays a deadline of the same interval.
LEMMA TimeLeftType ==
  ASSUME NEW n \in Nat, NEW x \in Deadlines(n)
  PROVE  /\ TimeLeft(x) \in Deadlines(n)
         /\ x = None <=> TimeLeft(x) = None
         /\ x # None /\ x # 0 => TimeLeft(x) = x - 1
         /\ x = 0 => TimeLeft(x) = 0
BY WatchAssumption DEF Deadlines, TimeLeft

\* Every step keeps the invariant.
LEMMA WatchStepInv == WatchInv /\ [Next]_vars => WatchInv'
<1> SUFFICES ASSUME WatchInv, [Next]_vars PROVE WatchInv'
  OBVIOUS
<1> USE WatchAssumption
<1>1. CASE \E d \in Disk : FilesChange(d)
  <2>1. PICK d \in Disk : FilesChange(d)
    BY <1>1
  <2>2. events' \in BOOLEAN /\ (events' => mode = "observe")
    BY <2>1 DEF WatchInv, TypeOK, FilesChange
  <2>3. changes' \in 0..MaxChanges
    BY <2>1 DEF WatchInv, TypeOK, FilesChange
  <2> QED BY <2>1, <2>2, <2>3 DEF WatchInv, FilesChange, TypeOK, HintIsTimed, KeyIsTimed,
                                ShownIsApplied, coordinator
<1>2. CASE UnrelatedEvent
  BY <1>2 DEF WatchInv, UnrelatedEvent, TypeOK, HintIsTimed, KeyIsTimed, ShownIsApplied,
              coordinator, world
<1>3. CASE TimePasses
  <2>1. quiet' \in Deadlines(Quiet) /\ maximum' \in Deadlines(Maximum)
    BY <1>3, TimeLeftType DEF WatchInv, TypeOK, TimePasses
  <2>2. safety' \in 0..Safety \cup 0..PollSafety
    BY <1>3 DEF WatchInv, TypeOK, TimePasses, TimeLeft
  <2>3. TypeOK'
    BY <1>3, <2>1, <2>2 DEF WatchInv, TypeOK, TimePasses, world
  <2>4. HintIsTimed'
    <3> SUFFICES ASSUME hinted' # None PROVE HintIsTimed'
      BY DEF HintIsTimed
    <3>1. hinted # None /\ hinted \in Nat /\ hinted' = hinted + 1 /\ phase = "polled"
      BY <1>3 DEF WatchInv, TypeOK, TimePasses, HintIsTimed
    <3>2. /\ mode = "observe" /\ maximum # None /\ maximum \in 0..Maximum
          /\ hinted + maximum <= Maximum /\ hinted < Maximum
      BY <3>1 DEF WatchInv, TypeOK, HintIsTimed, Deadlines
    <3>3. maximum' \in 0..Maximum /\ maximum' # None
      BY <1>3, <3>2 DEF TimePasses, TimeLeft
    <3>4. hinted' + maximum' <= Maximum
      BY <1>3, <3>1, <3>2 DEF TimePasses, TimeLeft
    <3> QED BY <1>3, <3>1, <3>2, <3>3, <3>4 DEF HintIsTimed, TimePasses, world
  <2>5. KeyIsTimed'
    BY <1>3 DEF WatchInv, TypeOK, TimePasses, KeyIsTimed, TimeLeft
  <2> QED BY <1>3, <2>3, <2>4, <2>5 DEF WatchInv, TimePasses, ShownIsApplied, world
<1>4. CASE ManualReload
  BY <1>4 DEF WatchInv, ManualReload, ManualHint, ManualMaximum, TypeOK, HintIsTimed,
              KeyIsTimed, ShownIsApplied, Deadlines, world
<1>5. CASE Poll
  <2> DEFINE q == IF events THEN Quiet ELSE quiet
             m == IF events THEN MaximumAfterEvent ELSE maximum
             starts == (mode # "manual" \/ manual_pending) /\ Due(q, m)
  <2>1. q \in Deadlines(Quiet) /\ m \in Deadlines(Maximum) /\ (events => m # None)
    BY DEF WatchInv, TypeOK, Deadlines, MaximumAfterEvent
  <2>2. TypeOK'
    <3>1. hinted' \in Nat \cup {None}
      BY <1>5 DEF WatchInv, TypeOK, Poll
    <3>2. quiet' \in Deadlines(Quiet) /\ maximum' \in Deadlines(Maximum)
      BY <1>5, <2>1 DEF Poll, Deadlines
    <3>3. /\ phase' \in {"polled", "loading"} /\ in_flight' \in BOOLEAN
          /\ in_flight' <=> phase' = "loading"
      <4>1. CASE starts
        <5>1. in_flight' = TRUE /\ phase' = "loading"
          BY <1>5, <4>1 DEF Poll
        <5> QED BY <5>1
      <4>2. CASE ~starts
        <5>1. phase = "due" /\ phase' = "polled" /\ in_flight' = in_flight
          BY <1>5, <4>2 DEF Poll
        <5>2. in_flight \in BOOLEAN /\ ~in_flight
          BY <5>1 DEF WatchInv, TypeOK
        <5> QED BY <5>1, <5>2
      <4> QED BY <4>1, <4>2
    <3>4. elapsed' \in 0..MaxLoad
      BY <1>5 DEF WatchInv, TypeOK, Poll
    <3>5. manual_pending' \in BOOLEAN /\ events' \in BOOLEAN
      BY <1>5, Zenon DEF WatchInv, TypeOK, Poll
    <3> QED BY <1>5, <3>1, <3>2, <3>3, <3>4, <3>5 DEF WatchInv, TypeOK, Poll, world
  <2>3. HintIsTimed'
    <3> SUFFICES ASSUME hinted' # None PROVE HintIsTimed'
      BY DEF HintIsTimed
    <3>1. ~starts /\ phase' = "polled" /\ maximum' = m
          /\ hinted' = IF events /\ hinted = None THEN 0 ELSE hinted
      BY <1>5 DEF Poll
    <3>2. mode = "observe" /\ m # None /\ m \in 0..Maximum /\ hinted' \in Nat
      BY <2>1, <3>1 DEF WatchInv, TypeOK, HintIsTimed, MaximumAfterEvent, Deadlines
    <3>3. m # 0
      BY <3>1, <3>2 DEF Due
    <3>4. hinted' + m <= Maximum
      BY <3>1, <3>2 DEF WatchInv, TypeOK, HintIsTimed, MaximumAfterEvent, Deadlines
    <3> QED BY <1>5, <3>1, <3>2, <3>3, <3>4 DEF HintIsTimed, Poll, world
  <2>4. KeyIsTimed'
    <3>1. manual_pending => starts
      BY DEF WatchInv, KeyIsTimed, MaximumAfterEvent, Due
    <3> QED BY <1>5, <3>1 DEF Poll, KeyIsTimed
  <2> QED BY <1>5, <2>2, <2>3, <2>4 DEF WatchInv, Poll, ShownIsApplied, world
<1>6. CASE LoadReads
  BY <1>6 DEF WatchInv, LoadReads, TypeOK, HintIsTimed, KeyIsTimed, ShownIsApplied,
              coordinator, world
<1>7. CASE LoadEnds
  <2>1. loaded \in Disk /\ hinted = None /\ ~manual_pending
    BY <1>7 DEF WatchInv, LoadEnds, TypeOK, HintIsTimed, KeyIsTimed
  <2>2. TypeOK'
    <3>1. safety' \in 0..Safety \cup 0..PollSafety
      BY <1>7, SafetyType DEF WatchInv, TypeOK, LoadEnds, Finish
    <3>2. quiet' \in Deadlines(Quiet) /\ maximum' \in Deadlines(Maximum)
      BY <1>7 DEF WatchInv, TypeOK, LoadEnds, Finish, Deadlines
    <3>3. applied' \in Loadable /\ shown' \in Loadable
      BY <1>7, <2>1 DEF WatchInv, TypeOK, LoadEnds, AppliedAfter, ShownAfter, Disk
    <3>4. elapsed' \in 0..MaxLoad
      BY <1>7 DEF LoadEnds
    <3> QED BY <1>7, <3>1, <3>2, <3>3, <3>4, Zenon
            DEF WatchInv, TypeOK, LoadEnds, Finish, world
  <2>3. ShownIsApplied'
    BY <1>7, <2>1 DEF WatchInv, LoadEnds, AppliedAfter, ShownAfter, ShownIsApplied, Disk,
                      Loadable
  <2> QED BY <1>7, <2>1, <2>2, <2>3 DEF WatchInv, LoadEnds, HintIsTimed, KeyIsTimed, world
<1>8. CASE \E d \in Loadable, m \in Modes : ReplaceInput(d, m)
  <2>1. PICK d \in Loadable, m \in Modes : ReplaceInput(d, m)
    BY <1>8
  <2>2. safety' \in 0..Safety \cup 0..PollSafety
    BY <2>1, SafetyType DEF ReplaceInput
  <2>3. /\ changes' \in 0..MaxChanges /\ disk' \in Disk
        /\ quiet' \in Deadlines(Quiet) /\ maximum' \in Deadlines(Maximum)
    BY <2>1 DEF WatchInv, TypeOK, ReplaceInput, Disk, Deadlines
  <2>4. TypeOK'
    BY <2>1, <2>2, <2>3, Zenon DEF WatchInv, TypeOK, ReplaceInput
  <2> QED BY <2>1, <2>4 DEF WatchInv, ReplaceInput, HintIsTimed, KeyIsTimed, ShownIsApplied
<1>9. CASE UNCHANGED vars
  BY <1>9 DEF WatchInv, vars, TypeOK, HintIsTimed, KeyIsTimed, ShownIsApplied, coordinator,
              world
<1> QED BY <1>1, <1>2, <1>3, <1>4, <1>5, <1>6, <1>7, <1>8, <1>9 DEF Next

\* Every behaviour keeps the inductive invariant.
THEOREM WatchInvariance == Spec => []WatchInv
<1> QED BY WatchInitInv, WatchStepInv, PTL DEF Spec

\* The coordinator, the runtime and the review on screen stay well typed, and
\* a load is in flight exactly while poll runs it.
THEOREM WatchTypeCorrect == Spec => []TypeOK
<1>1. WatchInv => TypeOK
  BY DEF WatchInv
<1> QED BY <1>1, WatchInvariance, PTL

\* However many events arrive and whatever the intervals are, a poll leaves no
\* event unserved for the maximum delay.
THEOREM BurstsServed == Spec => []BurstsAreServed
<1>1. WatchInv => BurstsAreServed
  BY DEF WatchInv, HintIsTimed, BurstsAreServed
<1> QED BY <1>1, WatchInvariance, PTL

\* The poll after the reload key loads, whatever events it drains.
THEOREM ManualServed == Spec => []ManualIsImmediate
<1>1. WatchInv => ManualIsImmediate
  BY DEF WatchInv, KeyIsTimed, ManualIsImmediate, Due
<1> QED BY <1>1, WatchInvariance, PTL

\* The review on screen is the last one that was loaded and had files.
THEOREM LastReviewStays == Spec => []ShownIsApplied
<1>1. WatchInv => ShownIsApplied
  BY DEF WatchInv
<1> QED BY <1>1, WatchInvariance, PTL

-----------------------------------------------------------------------------
(* Messages over HTTP, for every limit, head, body and cut of the network. *)

CONSTANTS HttpHead, HttpBody, HttpAnswer  \* the limits of SessionHttp
Http == INSTANCE SessionHttp WITH MaxHeader <- HttpHead, MaxBody <- HttpBody, MaxResponse <- HttpAnswer, None <- NoValue

HttpLimits == HttpHead \in Nat /\ HttpBody \in Nat /\ HttpAnswer \in Nat /\ NoValue \notin Nat

Bytes == {"x", "r", "n"}

\* What the head of an answer says.
HttpHeaders == [length : Nat \cup {NoValue}, duplicate : BOOLEAN, chunked : BOOLEAN]

\* As far as it goes, the wire has a head of that size, and the blank line after it.
Framed(wire, head) ==
  /\ wire \in Seq(Bytes) /\ head \in Nat
  /\ \A i \in 1 .. Len(wire) :
       /\ i <= head => wire[i] = "x"
       /\ i \in {head + 1, head + 3} => wire[i] = "r"
       /\ i \in {head + 2, head + 4} => wire[i] = "n"

\* As far as it goes, the wire has that body after the blank line.
Carries(wire, head, body) == \A i \in 1 .. Len(body) : head + 4 + i <= Len(wire) => wire[head + 4 + i] = body[i]

\* The bytes of one text after those of another.
LEMMA Joined ==
  ASSUME NEW s \in Seq(Bytes), NEW r \in Seq(Bytes)
  PROVE  /\ s \o r \in Seq(Bytes) /\ Len(s \o r) = Len(s) + Len(r)
         /\ \A i \in 1 .. Len(s) : (s \o r)[i] = s[i]
         /\ \A i \in 1 .. Len(r) : (s \o r)[Len(s) + i] = r[i]
<1>1. s \o r \in Seq(Bytes) /\ Len(s \o r) = Len(s) + Len(r)
  OBVIOUS
<1>2. \A i \in 1 .. Len(s) : (s \o r)[i] = s[i]
  OBVIOUS
<1>3. ASSUME NEW i \in 1 .. Len(r) PROVE (s \o r)[Len(s) + i] = r[i]
  <2>1. Len(s) \in Nat /\ Len(s) + i \in Len(s) + 1 .. Len(s) + Len(r) /\ (Len(s) + i) - Len(s) = i
    OBVIOUS
  <2> QED BY <2>1
<1> QED BY <1>1, <1>2, <1>3

\* The bytes of a piece of a text.
LEMMA Pieced ==
  ASSUME NEW s \in Seq(Bytes), NEW m \in 1 .. Len(s) + 1, NEW n \in m - 1 .. Len(s)
  PROVE  /\ SubSeq(s, m, n) \in Seq(Bytes) /\ Len(SubSeq(s, m, n)) = n - (m - 1)
         /\ \A i \in 1 .. n - (m - 1) : SubSeq(s, m, n)[i] = s[m - 1 + i]
<1>1. SubSeq(s, m, n) \in Seq(Bytes) /\ Len(SubSeq(s, m, n)) = n - (m - 1)
  OBVIOUS
<1>2. ASSUME NEW i \in 1 .. n - (m - 1) PROVE SubSeq(s, m, n)[i] = s[m - 1 + i]
  <2>1. i \in 1 .. n - m + 1 /\ m + i - 1 = m - 1 + i
    OBVIOUS
  <2> QED BY <2>1
<1> QED BY <1>1, <1>2

\* The wire of a message is its head, the blank line and its body, whatever follows.
LEMMA WireIsFramed ==
  ASSUME NEW head \in Nat, NEW body \in Seq(Bytes), NEW after \in Seq(Bytes)
  PROVE  LET wire == Http!Wire(head, body) \o after
         IN  /\ Framed(wire, head)
             /\ Len(wire) = head + 4 + Len(body) + Len(after)
             /\ Carries(wire, head, body)
<1> DEFINE xs == [i \in 1 .. head |-> "x"]
<1> DEFINE start == xs \o Http!Blank
<1> DEFINE message == start \o body
<1> DEFINE wire == message \o after
<1>1. xs \in Seq(Bytes) /\ Len(xs) = head /\ \A i \in 1 .. head : xs[i] = "x"
  BY DEF Bytes
<1>2. /\ Http!Blank \in Seq(Bytes) /\ Len(Http!Blank) = 4
      /\ Http!Blank[1] = "r" /\ Http!Blank[2] = "n" /\ Http!Blank[3] = "r" /\ Http!Blank[4] = "n"
  BY DEF Http!Blank, Bytes
<1> HIDE DEF xs
<1>3. /\ start \in Seq(Bytes) /\ Len(start) = head + 4
      /\ \A i \in 1 .. head : start[i] = "x"
      /\ start[head + 1] = "r" /\ start[head + 2] = "n" /\ start[head + 3] = "r" /\ start[head + 4] = "n"
  <2>1. /\ start \in Seq(Bytes) /\ Len(start) = Len(xs) + Len(Http!Blank)
        /\ \A i \in 1 .. Len(xs) : start[i] = xs[i]
        /\ \A i \in 1 .. Len(Http!Blank) : start[Len(xs) + i] = Http!Blank[i]
    BY <1>1, <1>2, Joined
  <2> HIDE DEF start
  <2>2. /\ start[Len(xs) + 1] = Http!Blank[1] /\ start[Len(xs) + 2] = Http!Blank[2]
        /\ start[Len(xs) + 3] = Http!Blank[3] /\ start[Len(xs) + 4] = Http!Blank[4]
    BY <1>2, <2>1
  <2> QED BY <1>1, <1>2, <2>1, <2>2
<1> HIDE DEF start
<1>4. /\ message \in Seq(Bytes) /\ Len(message) = head + 4 + Len(body)
      /\ \A i \in 1 .. head + 4 : message[i] = start[i]
      /\ \A i \in 1 .. Len(body) : message[head + 4 + i] = body[i]
  <2>1. /\ message \in Seq(Bytes) /\ Len(message) = Len(start) + Len(body)
        /\ \A i \in 1 .. Len(start) : message[i] = start[i]
        /\ \A i \in 1 .. Len(body) : message[Len(start) + i] = body[i]
    BY <1>3, Joined
  <2> QED BY <1>3, <2>1
<1> HIDE DEF message
<1>5. /\ wire \in Seq(Bytes) /\ Len(wire) = head + 4 + Len(body) + Len(after)
      /\ \A i \in 1 .. head + 4 + Len(body) : wire[i] = message[i]
  <2>1. /\ wire \in Seq(Bytes) /\ Len(wire) = Len(message) + Len(after)
        /\ \A i \in 1 .. Len(message) : wire[i] = message[i]
    BY <1>4, Joined
  <2> QED BY <1>4, <2>1
<1> HIDE DEF wire
<1>6. Len(body) \in Nat /\ Len(after) \in Nat
  OBVIOUS
<1>7. \A i \in 1 .. head + 4 : wire[i] = start[i]
  BY <1>4, <1>5, <1>6
<1>8. Framed(wire, head)
  BY <1>3, <1>5, <1>7 DEF Framed
<1>9. \A i \in 1 .. Len(body) : wire[head + 4 + i] = body[i]
  <2> SUFFICES ASSUME NEW i \in 1 .. Len(body) PROVE wire[head + 4 + i] = body[i]
    OBVIOUS
  <2>1. head + 4 + i \in 1 .. head + 4 + Len(body)
    BY <1>6
  <2> QED BY <1>4, <1>5, <2>1
<1>10. wire = Http!Wire(head, body) \o after
  BY DEF wire, message, start, xs, Http!Wire
<1>11. Carries(wire, head, body)
  BY <1>9 DEF Carries
<1> QED BY <1>5, <1>8, <1>10, <1>11

\* A prefix of a framed wire has its first blank line after the head, once it is that long
\* (find_bytes).
LEMMA BlankFound ==
  ASSUME HttpLimits, NEW wire, NEW head, Framed(wire, head), NEW c \in 0 .. Len(wire)
  PROVE  Http!find_bytes(SubSeq(wire, 1, c)) = IF c >= head + 4 THEN head ELSE NoValue
<1> DEFINE prefix == SubSeq(wire, 1, c)
<1>1. /\ wire \in Seq(Bytes) /\ head \in Nat /\ c \in Nat
      /\ prefix \in Seq(Bytes) /\ Len(prefix) = c /\ \A i \in 1 .. c : prefix[i] = wire[i]
  <2>1. wire \in Seq(Bytes) /\ head \in Nat /\ c \in Nat
    BY DEF Framed
  <2>2. /\ prefix \in Seq(Bytes) /\ Len(prefix) = c - (1 - 1)
        /\ \A i \in 1 .. c - (1 - 1) : prefix[i] = wire[1 - 1 + i]
    BY <2>1, Pieced
  <2> QED BY <2>1, <2>2
<1> HIDE DEF prefix
<1> DEFINE at == {i \in 0 .. Len(prefix) - 4 : SubSeq(prefix, i + 1, i + 4) = Http!Blank}
<1>2. ASSUME NEW i \in 0 .. c - 4
      PROVE  LET s == SubSeq(prefix, i + 1, i + 4)
             IN  /\ s \in Seq(Bytes) /\ Len(s) = 4
                 /\ s[1] = wire[i + 1] /\ s[2] = wire[i + 2] /\ s[3] = wire[i + 3] /\ s[4] = wire[i + 4]
  <2> DEFINE s == SubSeq(prefix, i + 1, i + 4)
  <2>1. i + 1 \in 1 .. Len(prefix) + 1 /\ i + 4 \in (i + 1) - 1 .. Len(prefix) /\ (i + 4) - ((i + 1) - 1) = 4
    BY <1>1
  <2>2. s \in Seq(Bytes) /\ Len(s) = 4 /\ \A k \in 1 .. 4 : s[k] = prefix[(i + 1) - 1 + k]
    BY <1>1, <2>1, Pieced
  <2> HIDE DEF s
  <2>3. s[1] = prefix[i + 1] /\ s[2] = prefix[i + 2] /\ s[3] = prefix[i + 3] /\ s[4] = prefix[i + 4]
    BY <2>2
  <2>4. s[1] = wire[i + 1] /\ s[2] = wire[i + 2] /\ s[3] = wire[i + 3] /\ s[4] = wire[i + 4]
    BY <1>1, <2>3
  <2> QED BY <2>2, <2>4 DEF s
<1>3. ASSUME NEW i \in at PROVE i \in 0 .. c - 4 /\ i >= head
  <2>1. i \in 0 .. c - 4 /\ SubSeq(prefix, i + 1, i + 4) = Http!Blank
    BY <1>1
  <2> HIDE DEF at
  <2>2. ASSUME i < head PROVE FALSE
    <3>1. SubSeq(prefix, i + 1, i + 4)[1] = wire[i + 1]
      BY <1>2, <2>1
    <3>2. Http!Blank[1] = "r"
      BY DEF Http!Blank
    <3>3. wire[i + 1] = "r"
      BY <2>1, <3>1, <3>2
    <3>4. i + 1 \in 1 .. Len(wire) /\ i + 1 <= head
      BY <1>1, <2>1, <2>2
    <3>5. wire[i + 1] = "x"
      BY <3>4 DEF Framed
    <3> QED BY <3>3, <3>5
  <2> QED BY <1>1, <2>1, <2>2
<1>4. ASSUME c >= head + 4 PROVE head \in at
  <2>1. head \in 0 .. Len(prefix) - 4
    BY <1>1, <1>4
  <2>2. wire[head + 1] = "r" /\ wire[head + 2] = "n" /\ wire[head + 3] = "r" /\ wire[head + 4] = "n"
    BY <1>1, <1>4 DEF Framed
  <2> DEFINE s == SubSeq(prefix, head + 1, head + 4)
  <2>3. s \in Seq(Bytes) /\ Len(s) = 4 /\ s[1] = "r" /\ s[2] = "n" /\ s[3] = "r" /\ s[4] = "n"
    BY <1>1, <1>2, <2>1, <2>2
  <2> HIDE DEF s
  <2>4. s = Http!Blank
    BY <2>3 DEF Http!Blank
  <2> QED BY <2>1, <2>4 DEF s
<1>5. ASSUME c < head + 4 PROVE at = {}
  <2>1. ASSUME NEW i \in at PROVE FALSE
    <3>1. i \in 0 .. c - 4 /\ i >= head
      BY <1>1, <1>3, <2>1
    <3> QED BY <1>1, <1>5, <3>1
  <2> QED BY <2>1
<1>6. Http!find_bytes(prefix) = IF at = {} THEN NoValue ELSE Http!Min(at)
  BY DEF Http!find_bytes
<1>7. ASSUME head \in at PROVE Http!Min(at) = head
  <2> HIDE DEF at
  <2>1. \A y \in at : head =< y
    BY <1>1, <1>3
  <2>2. \A n \in at : (\A y \in at : n =< y) => n = head
    <3>1. at \subseteq Nat
      BY <1>1 DEF at
    <3> QED BY <1>7, <1>3, <1>1, <3>1
  <2> QED BY <1>7, <2>1, <2>2 DEF Http!Min
<1> HIDE DEF at
<1>8. CASE c >= head + 4
  BY <1>4, <1>6, <1>7, <1>8 DEF prefix
<1>9. CASE ~(c >= head + 4)
  BY <1>1, <1>5, <1>6, <1>9 DEF prefix
<1> QED BY <1>8, <1>9

\* The loop over the reads finds the head, or gives up on one that is too long or not all
\* there (read_request, read_response).
LEMMA HeadIsRead ==
  ASSUME HttpLimits, NEW wire, NEW head, Framed(wire, head), NEW cuts, cuts \subseteq 0 .. Len(wire),
         NEW full \in Nat, full >= HttpHead
  PROVE  /\ Http!ReadHead(wire, cuts, full).code = "Ok" => Http!ReadHead(wire, cuts, full).size = head
         /\ Http!ReadHead(wire, cuts, full).code # "Ok" => head + 4 > HttpHead \/ \A c \in cuts : c < head + 4
<1> DEFINE found == {c \in cuts : Http!find_bytes(SubSeq(wire, 1, c)) # NoValue}
<1> DEFINE before == {c \in cuts : \A f \in found : c < f}
<1> DEFINE size == IF found = {} THEN NoValue ELSE Http!find_bytes(SubSeq(wire, 1, Http!Min(found)))
<1> DEFINE code == IF (\E c \in before : c >= full) \/ (found # {} /\ size > HttpHead) THEN "headers-too-large"
                   ELSE IF found = {} THEN "incomplete-request" ELSE "Ok"
<1> DEFINE read == Http!ReadHead(wire, cuts, full)
<1>1. read = [size |-> size, code |-> code]
  BY DEF Http!ReadHead
<1>2. head \in Nat /\ head # NoValue /\ cuts \subseteq Nat /\ HttpHead \in Nat /\ Len(wire) \in Nat
  BY DEF Framed, HttpLimits
<1>3. \A c \in cuts : c \in found <=> c >= head + 4
  BY <1>2, BlankFound
<1>4. found \subseteq cuts
  OBVIOUS
<1>5. \A c \in before : c \in cuts /\ c < head + 4
  <2>1. \A c \in before : c \in cuts /\ ~(c < c) /\ c \in Nat
    BY <1>2
  <2>2. \A c \in before : c \notin found
    BY <2>1
  <2> QED BY <1>2, <1>3, <2>1, <2>2
<1> HIDE DEF before
<1>6. ASSUME found # {} PROVE size = head
  <2> HIDE DEF found
  <2>1. \E n \in found : \A m \in found : n <= m
    BY <1>2, <1>4, <1>6, LeastNat
  <2>2. Http!Min(found) \in found
    BY <2>1 DEF Http!Min
  <2>3. Http!Min(found) \in 0 .. Len(wire) /\ Http!Min(found) >= head + 4
    BY <1>3, <1>4, <2>2
  <2>4. Http!find_bytes(SubSeq(wire, 1, Http!Min(found))) = head
    BY <2>3, BlankFound
  <2> QED BY <1>2, <1>6, <2>3, <2>4
<1> HIDE DEF found
<1>7. ASSUME code = "Ok" PROVE size = head
  BY <1>6, <1>7
<1>8. ASSUME code # "Ok" PROVE head + 4 > HttpHead \/ \A c \in cuts : c < head + 4
  <2>1. CASE found = {}
    BY <1>2, <1>3, <2>1
  <2>2. CASE found # {}
    <3>1. (\E c \in before : c >= full) \/ head > HttpHead
      BY <1>6, <1>8, <2>2
    <3>2. ASSUME NEW c \in before, c >= full PROVE head + 4 > HttpHead
      <4>1. c \in Nat /\ c < head + 4
        BY <1>2, <1>5, <3>2
      <4> QED BY <1>2, <3>2, <4>1
    <3> QED BY <1>2, <3>1, <3>2
  <2> QED BY <2>1, <2>2
<1> HIDE DEF size, code
<1>9. read.size = size /\ read.code = code
  BY <1>1
<1> HIDE DEF read
<1> QED BY <1>7, <1>8, <1>9 DEF read

\* A cut message is as long as the cut, and the bytes it still has are those of its body
\* (ReadBody, send).
LEMMA CutMessage ==
  ASSUME NEW head \in Nat, NEW body \in Seq(Bytes), NEW cut \in 0 .. head + 4 + Len(body)
  PROVE  LET wire == SubSeq(Http!Wire(head, body), 1, cut)
         IN  Framed(wire, head) /\ Len(wire) = cut /\ Carries(wire, head, body)
<1> DEFINE whole == Http!Wire(head, body)
<1> DEFINE wire == SubSeq(whole, 1, cut)
<1>1. Framed(whole, head) /\ Len(whole) = head + 4 + Len(body) /\ Carries(whole, head, body)
  <2>1. <<>> \in Seq(Bytes) /\ Len(<<>>) = 0 /\ Len(body) \in Nat
    OBVIOUS
  <2>2. whole \in Seq(Bytes)
    <3>1. [i \in 1 .. head |-> "x"] \in Seq(Bytes) /\ Http!Blank \in Seq(Bytes)
      BY DEF Bytes, Http!Blank
    <3> QED BY <3>1, Joined DEF Http!Wire
  <2>3. whole \o <<>> = whole
    BY <2>2
  <2>4. LET w == whole \o <<>>
        IN  Framed(w, head) /\ Len(w) = head + 4 + Len(body) + Len(<<>>) /\ Carries(w, head, body)
    BY <2>1, WireIsFramed
  <2> HIDE DEF whole
  <2> QED BY <2>1, <2>3, <2>4
<1> HIDE DEF whole
<1>2. cut \in Nat /\ Len(body) \in Nat /\ whole \in Seq(Bytes)
  BY <1>1 DEF Framed
<1>3. wire \in Seq(Bytes) /\ Len(wire) = cut /\ \A i \in 1 .. cut : wire[i] = whole[i]
  <2>1. /\ wire \in Seq(Bytes) /\ Len(wire) = cut - (1 - 1)
        /\ \A i \in 1 .. cut - (1 - 1) : wire[i] = whole[1 - 1 + i]
    BY <1>1, <1>2, Pieced
  <2> QED BY <1>2, <2>1
<1> HIDE DEF wire
<1>4. Framed(wire, head)
  BY <1>1, <1>2, <1>3 DEF Framed
<1>5. Carries(wire, head, body)
  <2> SUFFICES ASSUME NEW i \in 1 .. Len(body), head + 4 + i <= cut PROVE wire[head + 4 + i] = body[i]
    BY <1>3 DEF Carries
  <2>1. head + 4 + i \in 1 .. cut /\ head + 4 + i <= Len(whole)
    BY <1>1, <1>2
  <2>2. whole[head + 4 + i] = body[i]
    BY <1>1, <2>1 DEF Carries
  <2> QED BY <1>3, <2>1, <2>2
<1> QED BY <1>3, <1>4, <1>5 DEF wire, whole

\* What is accepted of a body is as much of it as its length says (ReadBody).
LEMMA BodyIsRead ==
  ASSUME NEW wire, NEW head, Framed(wire, head), NEW body \in Seq(Bytes), NEW length \in Nat,
         Carries(wire, head, body), length <= Len(body), head + 4 + length <= Len(wire)
  PROVE  SubSeq(wire, head + 5, head + 4 + length) = SubSeq(body, 1, length)
<1> DEFINE piece == SubSeq(wire, head + 5, head + 4 + length)
<1> DEFINE prefix == SubSeq(body, 1, length)
<1>1. wire \in Seq(Bytes) /\ head \in Nat /\ Len(wire) \in Nat /\ Len(body) \in Nat
  BY DEF Framed
<1>2. piece \in Seq(Bytes) /\ Len(piece) = length /\ \A i \in 1 .. length : piece[i] = wire[head + 4 + i]
  <2>1. /\ head + 5 \in 1 .. Len(wire) + 1 /\ head + 4 + length \in (head + 5) - 1 .. Len(wire)
        /\ (head + 4 + length) - ((head + 5) - 1) = length /\ (head + 5) - 1 = head + 4
    BY <1>1
  <2>2. /\ piece \in Seq(Bytes) /\ Len(piece) = (head + 4 + length) - ((head + 5) - 1)
        /\ \A i \in 1 .. (head + 4 + length) - ((head + 5) - 1) : piece[i] = wire[(head + 5) - 1 + i]
    BY <1>1, <2>1, Pieced
  <2> QED BY <2>1, <2>2
<1>3. prefix \in Seq(Bytes) /\ Len(prefix) = length /\ \A i \in 1 .. length : prefix[i] = body[i]
  <2>1. 1 \in 1 .. Len(body) + 1 /\ length \in 1 - 1 .. Len(body) /\ length - (1 - 1) = length
    BY <1>1
  <2>2. /\ prefix \in Seq(Bytes) /\ Len(prefix) = length - (1 - 1)
        /\ \A i \in 1 .. length - (1 - 1) : prefix[i] = body[1 - 1 + i]
    BY <2>1, Pieced
  <2> QED BY <2>1, <2>2
<1> HIDE DEF piece, prefix
<1>4. \A i \in 1 .. length : piece[i] = prefix[i]
  <2> SUFFICES ASSUME NEW i \in 1 .. length PROVE piece[i] = prefix[i]
    OBVIOUS
  <2>1. i \in 1 .. Len(body) /\ head + 4 + i <= Len(wire)
    BY <1>1
  <2>2. wire[head + 4 + i] = body[i]
    BY <2>1 DEF Carries
  <2> QED BY <1>2, <1>3, <2>2
<1>5. piece = prefix
  BY <1>2, <1>3, <1>4
<1> QED BY <1>5 DEF piece, prefix

\* A text is the whole of itself.
LEMMA WholePiece == ASSUME NEW s \in Seq(Bytes) PROVE SubSeq(s, 1, Len(s)) = s
OBVIOUS

\* Whatever the reads return and whatever follows it, a request that a command sends is read
\* byte for byte or refused for its size, and is routed as the command it is (read_request,
\* route, command_request).
THEOREM RequestsArrive ==
  ASSUME HttpLimits, \A a, s : NoValue # [action |-> a, selector |-> s],
         NEW command \in DOMAIN Http!Commands, NEW selector, NEW env,
         NEW head \in Nat, NEW body \in Seq(Bytes), NEW after \in Seq(Bytes),
         NEW cuts \in SUBSET (0 .. head + 4 + Len(body) + Len(after)),
         head + 4 + Len(body) + Len(after) \in cuts
  PROVE  Http!RequestArrives(command, selector, env, head, body, after, cuts)
<1> DEFINE address == Http!resolve_session_address(env)
<1> DEFINE request == Http!Request(command, selector, address, body)
<1> DEFINE wire == Http!Wire(head, body) \o after
<1> DEFINE read == Http!read_request(wire, cuts, request.headers)
<1> DEFINE routed == Http!route(request, address.port)
<1> SUFFICES ASSUME address # NoValue
             PROVE  /\ routed.code = "200" /\ routed.action = Http!Commands[command]
                    /\ routed.wait <= Http!command_request(command, selector).timeout
                    /\ \/ read = Http!Accepted(body)
                       \/ ~read.ok /\ (head + 4 > HttpHead \/ Len(body) > HttpBody)
  BY DEF Http!RequestArrives
<1>1. \E h \in {"127.0.0.1", "::1"}, p \in Http!Ports : address = [host |-> h, port |-> p]
  <2>1. \E h, p : address = IF h \notin Http!Loopback \/ p \notin Http!Ports THEN NoValue
                            ELSE [host |-> IF h = "localhost" THEN "127.0.0.1" ELSE h, port |-> p]
    BY DEF Http!resolve_session_address
  <2> HIDE DEF address
  <2> QED BY <2>1 DEF Http!Loopback
<1> HIDE DEF address
<1>2. /\ request.method = "POST" /\ request.path = "/session-api"
      /\ request.input = [action |-> Http!Commands[command], selector |-> IF command = "List" THEN {} ELSE {selector}]
      /\ request.headers = [host |-> Http!HostHeader(address), origin |-> NoValue, type |-> "application/json",
                            length |-> Len(body), duplicate |-> FALSE, chunked |-> FALSE]
  BY DEF Http!Request, Http!command_request
<1> HIDE DEF request
<1>3. Http!validate_request_authority(request.headers, address.port)
  <2>1. request.headers.host = Http!HostHeader(address) /\ request.headers.origin = NoValue
    BY <1>2
  <2>2. Http!validate_authority(Http!HostHeader(address), address.port)
    BY <1>1 DEF Http!validate_authority, Http!HostHeader, Http!Loopback
  <2> QED BY <2>1, <2>2 DEF Http!validate_request_authority
<1>4. routed = Http!route_session_api(request)
  BY <1>2, <1>3 DEF Http!route
<1> HIDE DEF routed
<1>5. /\ routed.code = "200" /\ routed.action = Http!Commands[command]
      /\ routed.wait <= Http!command_request(command, selector).timeout
  <2>1. request.headers.type = "application/json" /\ request.input # NoValue
    BY <1>2
  <2>2. /\ request.input.action = Http!Commands[command]
        /\ request.input.selector = IF command = "List" THEN {} ELSE {selector}
    BY <1>2
  <2>3. Http!Cardinality({selector}) = 1
    BY FS_Singleton DEF Http!Cardinality, Cardinality
  <2>4. CASE command = "List"
    <3>1. Http!Commands[command] = "list"
      BY <2>4 DEF Http!Commands
    <3>2. routed = Http!Routed("200", "list", 0)
      BY <1>2, <1>4, <2>1, <2>2, <3>1 DEF Http!route_session_api
    <3>3. Http!command_request(command, selector).timeout = 5
      BY <2>4 DEF Http!command_request
    <3> QED BY <3>1, <3>2, <3>3 DEF Http!Routed
  <2>5. CASE command # "List"
    <3>1. /\ Http!Commands[command] # "list"
          /\ Http!Commands[command] \in Http!Mutations \/ Http!Commands[command] \in Http!Reads
          /\ Http!Commands[command] \in {"reload", "comment-apply"} => command \in {"Reload", "CommentApply"}
      BY <2>5 DEF Http!Commands, Http!Mutations, Http!Reads
    <3>2. Http!Cardinality(request.input.selector) = 1
      BY <2>2, <2>3, <2>5
    <3>3. \/ Http!Commands[command] \in Http!Mutations /\ routed = Http!Routed("200", Http!Commands[command],
               IF Http!Commands[command] \in {"reload", "comment-apply"} THEN 30 ELSE 5)
          \/ routed = Http!Routed("200", Http!Commands[command], 0)
      <4> DEFINE action == Http!Commands[command]
      <4>1. request.method = "POST" /\ request.input.action = action /\ action # "list"
            /\ (action \in Http!Mutations \/ action \in Http!Reads)
        BY <1>2, <2>2, <3>1
      <4> HIDE DEF action
      <4>2. Http!route_session_api(request) =
              IF action \in Http!Mutations
              THEN Http!Routed("200", action, IF action \in {"reload", "comment-apply"} THEN 30 ELSE 5)
              ELSE Http!Routed("200", action, 0)
        BY <2>1, <3>2, <4>1 DEF Http!route_session_api
      <4> QED BY <1>4, <4>1, <4>2 DEF action
    <3>4. Http!command_request(command, selector).timeout = IF command \in {"Reload", "CommentApply"} THEN 30 ELSE 5
      BY DEF Http!command_request
    <3> QED BY <3>1, <3>3, <3>4 DEF Http!Routed
  <2> QED BY <2>4, <2>5
<1>6. Framed(wire, head) /\ Len(wire) = head + 4 + Len(body) + Len(after) /\ Carries(wire, head, body)
  BY WireIsFramed
<1> HIDE DEF wire
<1>7. \/ read = Http!Accepted(body)
      \/ ~read.ok /\ (head + 4 > HttpHead \/ Len(body) > HttpBody)
  <2> DEFINE found == Http!ReadHead(wire, cuts, HttpHead)
  <2>1. HttpHead \in Nat /\ HttpHead >= HttpHead /\ HttpBody \in Nat /\ Len(body) \in Nat /\ Len(after) \in Nat
        /\ Len(body) # NoValue
    BY DEF HttpLimits
  <2>2. /\ found.code = "Ok" => found.size = head
        /\ found.code # "Ok" => head + 4 > HttpHead \/ \A c \in cuts : c < head + 4
    <3>1. cuts \subseteq 0 .. Len(wire)
      BY <1>6
    <3>2. /\ Http!ReadHead(wire, cuts, HttpHead).code = "Ok" => Http!ReadHead(wire, cuts, HttpHead).size = head
          /\ Http!ReadHead(wire, cuts, HttpHead).code # "Ok" => head + 4 > HttpHead \/ \A c \in cuts : c < head + 4
      <4>1. HttpHead \in Nat /\ HttpHead >= HttpHead
        BY <2>1
      <4> QED BY <1>6, <3>1, <4>1, HeadIsRead, Zenon
    <3> QED BY <3>2
  <2>3. found.code # "Ok" => head + 4 > HttpHead
    BY <2>1, <2>2
  <2> HIDE DEF found
  <2>4. /\ request.headers.length = Len(body)
        /\ request.headers.duplicate = FALSE /\ request.headers.chunked = FALSE
    BY <1>2
  <2>5. read = IF found.code # "Ok" THEN Http!Refused(found.code)
               ELSE IF Len(body) > HttpBody THEN Http!Refused("body-too-large")
               ELSE Http!ReadBody(wire, found.size, Len(body))
    BY <2>1, <2>4 DEF Http!read_request, found
  <2> HIDE DEF read
  <2>6. CASE found.code # "Ok"
    BY <2>3, <2>5, <2>6 DEF Http!Refused
  <2>7. CASE found.code = "Ok" /\ Len(body) > HttpBody
    BY <2>5, <2>7 DEF Http!Refused
  <2>8. CASE found.code = "Ok" /\ ~(Len(body) > HttpBody)
    <3>1. read = Http!ReadBody(wire, head, Len(body))
      BY <2>2, <2>5, <2>8
    <3>2. head + 4 + Len(body) <= Len(wire) /\ Len(body) <= Len(body)
      BY <1>6, <2>1
    <3>3. ~(Len(wire) < head + 4 + Len(body))
      BY <1>6, <2>1
    <3>4. SubSeq(wire, head + 5, head + 4 + Len(body)) = SubSeq(body, 1, Len(body))
      BY <1>6, <2>1, <3>2, BodyIsRead
    <3>5. SubSeq(body, 1, Len(body)) = body
      BY WholePiece
    <3> QED BY <3>1, <3>3, <3>4, <3>5 DEF Http!ReadBody
  <2> QED BY <2>6, <2>7, <2>8
<1> QED BY <1>5, <1>7

\* However much of an answer is there, no more and no less than its length says is taken
\* (read_response).
LEMMA ResponseIsRead ==
  ASSUME HttpLimits, NEW wire, NEW head, Framed(wire, head), NEW cuts, cuts \subseteq 0 .. Len(wire),
         NEW headers \in HttpHeaders,
         NEW body \in Seq(Bytes), Carries(wire, head, body), Len(wire) <= head + 4 + Len(body)
  PROVE  LET answer == Http!read_response(wire, cuts, headers)
         IN  answer.ok => headers.length <= Len(body) /\ answer.body = SubSeq(body, 1, headers.length)
<1> DEFINE answer == Http!read_response(wire, cuts, headers)
<1> SUFFICES ASSUME answer.ok
             PROVE  headers.length <= Len(body) /\ answer.body = SubSeq(body, 1, headers.length)
  OBVIOUS
<1>1. PICK full \in Nat : full = HttpHead + 1 /\ full >= HttpHead
  BY DEF HttpLimits
<1> DEFINE found == Http!ReadHead(wire, cuts, full)
<1>2. found.code = "Ok" => found.size = head
  BY <1>1, HeadIsRead
<1> HIDE DEF found
<1>3. /\ found.code = "Ok" /\ headers.length # NoValue
      /\ answer = Http!ReadBody(wire, found.size, headers.length)
  BY <1>1 DEF Http!read_response, Http!Refused, found
<1> HIDE DEF answer
<1> DEFINE n == headers.length
<1>4. n \in Nat
  BY <1>3 DEF HttpHeaders
<1> HIDE DEF n
<1>5. answer = Http!ReadBody(wire, head, n)
  BY <1>2, <1>3 DEF n
<1>6. /\ ~(Len(wire) < head + 4 + n)
      /\ answer.body = SubSeq(wire, head + 5, head + 4 + n)
  BY <1>5 DEF Http!ReadBody, Http!Refused, Http!Accepted
<1>7. head \in Nat /\ Len(wire) \in Nat /\ Len(body) \in Nat
  BY DEF Framed
<1>8. n <= Len(body) /\ head + 4 + n <= Len(wire)
  BY <1>4, <1>6, <1>7
<1>9. SubSeq(wire, head + 5, head + 4 + n) = SubSeq(body, 1, n)
  BY <1>4, <1>8, BodyIsRead
<1> QED BY <1>6, <1>8, <1>9 DEF n

\* Wherever the connection ends, an answer is taken whole or refused, and a map of another
\* head is not taken for the one that was asked for (read_response, send, resolve).
THEOREM ResponsesAreWhole ==
  ASSUME HttpLimits,
         NEW head \in Nat, NEW body \in Seq(Bytes), NEW cut \in 0 .. head + 4 + Len(body), NEW cuts \in SUBSET (0 .. cut),
         NEW headers \in HttpHeaders,
         NEW response, NEW expected
  PROVE  Http!ResponseIsWhole(head, body, cut, cuts, headers, response, expected)
<1> DEFINE whole == Http!Wire(head, body)
<1> DEFINE wire == SubSeq(whole, 1, cut)
<1> DEFINE map == Http!read_response(wire, cuts, headers)
<1> DEFINE json == Http!send(wire, Len(whole))
<1>1. Framed(wire, head) /\ Len(wire) = cut /\ Carries(wire, head, body)
  BY CutMessage
<1>2. Len(whole) = head + 4 + Len(body)
  <2> DEFINE xs == [i \in 1 .. head |-> "x"]
  <2>1. /\ xs \in Seq(Bytes) /\ Len(xs) = head
        /\ Http!Blank \in Seq(Bytes) /\ Len(Http!Blank) = 4
    BY DEF Bytes, Http!Blank
  <2>2. whole = xs \o Http!Blank \o body
    BY DEF Http!Wire
  <2> HIDE DEF xs, whole
  <2> DEFINE start == xs \o Http!Blank
  <2>3. start \in Seq(Bytes) /\ Len(start) = head + 4
    <3>1. start \in Seq(Bytes) /\ Len(start) = Len(xs) + Len(Http!Blank)
      BY <2>1, Joined
    <3> HIDE DEF start
    <3> QED BY <2>1, <3>1
  <2> HIDE DEF start
  <2>4. Len(start \o body) = head + 4 + Len(body)
    <3>1. Len(start \o body) = Len(start) + Len(body)
      BY <2>3, Joined
    <3> QED BY <2>3, <3>1
  <2> QED BY <2>2, <2>4 DEF start
<1>3. /\ HttpHead \in Nat /\ HttpAnswer \in Nat /\ NoValue \notin Nat
      /\ Len(body) \in Nat /\ cut \in Nat /\ cut <= head + 4 + Len(body)
      /\ HttpHead + 1 \in Nat /\ HttpHead + 1 >= HttpHead
  BY DEF HttpLimits
<1> HIDE DEF whole, wire
<1>4. map.ok => headers.length <= Len(body) /\ map.body = SubSeq(body, 1, headers.length)
  <2> HIDE DEF map, json
  <2>1. cuts \subseteq 0 .. Len(wire)
    BY <1>1
  <2>3. Len(wire) <= head + 4 + Len(body)
    BY <1>1, <1>3
  <2>4. LET answer == Http!read_response(wire, cuts, headers)
        IN  answer.ok => headers.length <= Len(body) /\ answer.body = SubSeq(body, 1, headers.length)
    BY <1>1, <2>1, <2>3, ResponseIsRead
  <2> QED BY <2>4 DEF map
<1>5. json.ok => cut = Len(whole) /\ cut <= HttpAnswer
  BY <1>1, <1>2, <1>3 DEF Http!send, Http!Refused
<1>6. ASSUME cut = Len(whole), cut <= HttpAnswer PROVE json.ok /\ json.body = body
  <2>1. cut \in 0 .. Len(wire) /\ cut >= head + 4
    BY <1>1, <1>2, <1>3, <1>6
  <2>2. Http!find_bytes(SubSeq(wire, 1, cut)) = head
    BY <1>1, <2>1, BlankFound
  <2>3. SubSeq(wire, 1, cut) = wire
    BY <1>1, WholePiece DEF Framed
  <2>4. json = Http!Accepted(SubSeq(wire, head + 5, Len(wire)))
    <3>1. Http!find_bytes(wire) = head
      BY <2>2, <2>3
    <3>2. head # NoValue /\ ~(Len(wire) > HttpAnswer) /\ ~(Len(wire) < Len(whole))
      BY <1>1, <1>2, <1>3, <1>6
    <3> QED BY <3>1, <3>2 DEF Http!send
  <2>5. Len(wire) = head + 4 + Len(body) /\ Len(body) <= Len(body) /\ head + 4 + Len(body) <= Len(wire)
    BY <1>1, <1>2, <1>3, <1>6
  <2>6. SubSeq(wire, head + 5, head + 4 + Len(body)) = SubSeq(body, 1, Len(body))
    <3> DEFINE n == Len(body)
    <3>1. n \in Nat /\ n <= Len(body) /\ head + 4 + n <= Len(wire)
      BY <1>3, <2>5
    <3> HIDE DEF n
    <3>2. SubSeq(wire, head + 5, head + 4 + n) = SubSeq(body, 1, n)
      BY <1>1, <3>1, BodyIsRead
    <3> QED BY <3>2 DEF n
  <2>7. SubSeq(body, 1, Len(body)) = body
    BY WholePiece
  <2> QED BY <2>4, <2>5, <2>6, <2>7 DEF Http!Accepted
<1>7. (Http!resolve(map, response, expected) = "Ok" /\ expected # NoValue) => response.head = expected
  BY DEF Http!resolve
<1>8. json.ok \in BOOLEAN
  BY DEF Http!send, Http!Refused, Http!Accepted
<1> HIDE DEF map, json
<1> QED BY <1>4, <1>5, <1>6, <1>7, <1>8 DEF Http!ResponseIsWhole, map, json, wire, whole
=============================================================================
