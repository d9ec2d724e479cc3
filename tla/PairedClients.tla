---------------------------- MODULE PairedClients ----------------------------
(***************************************************************************)
(* Pairing with ramo-server: the pairing codes, which `ramo-server pair'   *)
(* and the server read and write in one file without a lock, and the       *)
(* paired clients, which the server keeps in memory and in a file of their *)
(* own under a mutex.  persist_json writes a temporary file and renames    *)
(* it, so that a file is replaced or stays; digests, random tokens and the *)
(* constant-time comparison are left out: a code or a client is its name.  *)
(*                                                                         *)
(* An operation on the codes is a read and, later, a write of what was     *)
(* read.  Writers of the codes in one process would share the temporary    *)
(* file; there each write is still taken as one step.                      *)
(***************************************************************************)
EXTENDS Integers, Sequences, FiniteSets, FiniteSetsExt

CONSTANTS Codes,     \* codes that may be issued, in order: 1 .. Codes
          Lifetime,  \* of a code: 300 seconds
          MaxTime,   \* bound on the clock
          MaxClients, \* bound on the clients that are issued
          Threads    \* operations under way on the codes

VARIABLES memory,  \* the records of a running server, {} when it is down
          disk,    \* clients.json
          codes,   \* pairing.json: a set of [code, expires]
          op,      \* the operations under way
          world    \* time, whether the server is up, what callers were told

pairingVars == <<memory, disk, codes, op, world>>

Idle == [kind |-> "Idle", at |-> 0, keep |-> {}, code |-> 0]

Init ==
  /\ memory = {} /\ disk = {} /\ codes = {}
  /\ op = [t \in 1 .. Threads |-> Idle]
  /\ world = [time |-> 0, up |-> TRUE, issued |-> 0, clients |-> 0, granted |-> {}, revoking |-> {}, revoked |-> {}]

Live(records, now) == {r \in records : r.expires > now}

\* PairingState::issue, of the command line: what is live is read, with the new code added.
ReadToIssue(t) ==
  /\ op[t].kind = "Idle" /\ world.issued < Codes
  /\ op' = [op EXCEPT ![t] = [kind |-> "Issue", at |-> world.time, code |-> world.issued + 1,
                              keep |-> Live(codes, world.time) \cup {[code |-> world.issued + 1, expires |-> world.time + Lifetime]}]]
  /\ world' = [world EXCEPT !.issued = @ + 1]
  /\ UNCHANGED <<memory, disk, codes>>

\* PairingState::exchange: a code that is not among the live ones is rejected.
ReadToExchange(t) ==
  /\ world.up /\ op[t].kind = "Idle"
  /\ \E code \in 1 .. world.issued :
       LET live == Live(codes, world.time)
           hit  == {r \in live : r.code = code}
       IN  op' = [op EXCEPT ![t] = [kind |-> IF hit = {} THEN "Reject" ELSE "Exchange", at |-> world.time, code |-> code, keep |-> live \ hit]]
  /\ UNCHANGED <<memory, disk, codes, world>>

\* persist_pairing_records, and for an exchange the credential after it.
Write(t) ==
  /\ op[t].kind \in {"Issue", "Reject"}
  /\ codes' = op[t].keep
  /\ op' = [op EXCEPT ![t] = Idle] /\ UNCHANGED <<memory, disk, world>>
WriteExchange(t) ==
  /\ op[t].kind = "Exchange"
  /\ codes' = op[t].keep
  /\ op' = [op EXCEPT ![t].kind = "Token"] /\ UNCHANGED <<memory, disk, world>>
WriteFails(t) ==
  /\ op[t].kind \in {"Issue", "Reject", "Exchange"}
  /\ op' = [op EXCEPT ![t] = Idle] /\ UNCHANGED <<memory, disk, codes, world>>

\* Mutant: the credential is handed out before the record is written.
IssueFirst(t) ==
  /\ op[t].kind = "Token" /\ world.clients < MaxClients
  /\ LET client == world.clients + 1
     IN  /\ memory' = memory \cup {client}
         /\ disk' \in {memory', disk} /\ world' = [world EXCEPT !.clients = client, !.granted = @ \cup {client}]
  /\ op' = [op EXCEPT ![t] = Idle] /\ UNCHANGED codes

\* ReviewMapClientTokenStore::issue under the mutex: the record stays in memory when it
\* cannot be written, but no credential is handed out for it.
Issue(t) ==
  /\ op[t].kind = "Token" /\ world.clients < MaxClients
  /\ LET client == world.clients + 1
     IN  /\ memory' = memory \cup {client}
         /\ \/ disk' = memory' /\ world' = [world EXCEPT !.clients = client, !.granted = @ \cup {client}]
            \/ UNCHANGED disk /\ world' = [world EXCEPT !.clients = client]
  /\ op' = [op EXCEPT ![t] = Idle] /\ UNCHANGED codes

\* authorize: a client is let in when the running server has its record.
authorize(client) == world.up /\ client \in memory

\* DELETE /v1/clients/{id}, asked for by any client that is let in.
revoke(client) ==
  /\ \E asks \in world.granted : authorize(asks)
  /\ client \in memory
  /\ memory' = memory \ {client}
  /\ \/ disk' = memory' /\ world' = [world EXCEPT !.revoked = @ \cup {client}, !.revoking = @ \cup {client}]
     \/ UNCHANGED disk /\ world' = [world EXCEPT !.revoking = @ \cup {client}]
  /\ UNCHANGED <<codes, op>>

\* The server stops, with the exchanges it was in; systemd starts it again.
Stop ==
  /\ world.up /\ world' = [world EXCEPT !.up = FALSE] /\ memory' = {}
  /\ op' = [t \in DOMAIN op |-> IF op[t].kind = "Issue" THEN op[t] ELSE Idle]
  /\ UNCHANGED <<disk, codes>>
Start == ~world.up /\ world' = [world EXCEPT !.up = TRUE] /\ memory' = disk /\ UNCHANGED <<disk, codes, op>>
Tick == world.time < MaxTime /\ world' = [world EXCEPT !.time = @ + 1] /\ UNCHANGED <<memory, disk, codes, op>>

Next ==
  \/ \E t \in 1 .. Threads : ReadToIssue(t) \/ ReadToExchange(t) \/ Write(t) \/ WriteExchange(t) \/ WriteFails(t) \/ Issue(t)
  \/ \E client \in 1 .. world.clients : revoke(client)
  \/ Stop \/ Start \/ Tick
-----------------------------------------------------------------------------
(* Properties.                                                             *)

\* A client that was told it is paired is let in by every server that runs from then on,
\* across restarts, failed writes and other clients coming and going, until somebody asks
\* to revoke it; one whose revocation succeeded is never let in again (issue, revoke, open).
PairingLasts ==
  \A client \in world.granted :
    /\ client \notin world.revoking => client \in disk /\ (world.up => authorize(client))
    /\ client \in world.revoked => client \notin disk /\ ~authorize(client)
=============================================================================
