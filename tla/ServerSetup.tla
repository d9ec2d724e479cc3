----------------------------- MODULE ServerSetup -----------------------------
(***************************************************************************)
(* `ramo-server setup': the plan, the endpoint file, the systemd user      *)
(* service, Tailscale Serve, and what is undone when a step fails.  Any    *)
(* command or write may fail; a write that fails has truncated its file.   *)
(* systemd and Tailscale are external: a service is the unit it runs.      *)
(***************************************************************************)
EXTENDS Integers, Sequences, FiniteSets

CONSTANTS None, Partial  \* Partial is what a failed write leaves in a file

VARIABLES files,    \* unit and endpoint on disk
          service,  \* loaded (the unit systemd read last) and running (the unit that runs)
          setup     \* the run: step, what it read before it wrote, and what failed

setupVars == <<files, service, setup>>

Programs == {"gh", "ollama", "tailscale", "systemctl"}

Init ==
  /\ files \in [unit : {None, "old"}, endpoint : {None, "old"}]
  /\ service = [loaded |-> files.unit, running |-> files.unit]
  /\ setup = [step |-> "Plan", unit |-> None, endpoint |-> None, was |-> files, untold |-> FALSE, undone |-> TRUE, result |-> None]

Step(next) == setup' = [setup EXCEPT !.step = next]
Fails(next, told) == setup' = [setup EXCEPT !.step = next, !.untold = @ \/ ~told, !.result = "Err"]

\* build_setup_plan: Linux, the programs and their checks; nothing is changed yet.
build_setup_plan ==
  /\ setup.step = "Plan" /\ UNCHANGED <<files, service>>
  /\ \/ \E program \in Programs : setup' = [setup EXCEPT !.step = "Done", !.result = "Err"]
     \/ Step("Read")

\* apply_setup: what there was, or nothing when it could not be read.
ReadPrevious ==
  /\ setup.step = "Read" /\ UNCHANGED <<files, service>>
  /\ \E unit \in {files.unit, None}, endpoint \in {files.endpoint, None} :
       setup' = [setup EXCEPT !.step = "Endpoint", !.unit = unit, !.endpoint = endpoint,
                              !.untold = unit # files.unit \/ endpoint # files.endpoint]

\* A dry run reads nothing and renders the plan.
DryRun == setup.step = "Read" /\ setup' = [setup EXCEPT !.step = "Done", !.result = "Dry"] /\ UNCHANGED <<files, service>>

\* write_private of the endpoint: its failure returns at once.
WriteEndpoint ==
  /\ setup.step = "Endpoint" /\ UNCHANGED service
  /\ \/ files' = [files EXCEPT !.endpoint = "new"] /\ Step("Unit")
     \/ \E left \in {files.endpoint, Partial} :
          files' = [files EXCEPT !.endpoint = left] /\ Fails("Done", left # Partial)

\* SystemdUserService::install.
WriteUnit ==
  /\ setup.step = "Unit" /\ UNCHANGED service
  /\ \/ files' = [files EXCEPT !.unit = "new"] /\ Step("Reload")
     \/ \E left \in {files.unit, Partial} : files' = [files EXCEPT !.unit = left] /\ setup' = [setup EXCEPT !.step = "Restore"]
Reload ==
  /\ setup.step = "Reload" /\ UNCHANGED files
  /\ \/ service' = [service EXCEPT !.loaded = files.unit] /\ Step("Enable")
     \/ UNCHANGED service /\ setup' = [setup EXCEPT !.step = "Restore"]
Enable ==
  /\ setup.step = "Enable" /\ UNCHANGED files
  /\ \/ service' = [service EXCEPT !.running = IF @ = None THEN service.loaded ELSE @] /\ Step("Publish")
     \/ UNCHANGED service /\ setup' = [setup EXCEPT !.step = "Restore"]

\* TailscalePublisher::publish.
publish ==
  /\ setup.step = "Publish" /\ UNCHANGED <<files, service>>
  /\ \/ setup' = [setup EXCEPT !.step = "Done", !.result = "Ok"]
     \/ setup' = [setup EXCEPT !.step = "Restore"]

\* Mutant: a unit that was not there before is left behind.
RestoreOldOnly ==
  /\ setup.step = "Restore" /\ Step("RestoreEndpoint")
  /\ IF setup.unit # None THEN files' = [files EXCEPT !.unit = setup.unit] /\ service' = [loaded |-> setup.unit, running |-> setup.unit]
     ELSE UNCHANGED <<files, service>>

\* SystemdUserService::restore stops at its first failure; remove ignores that of disable.
restore ==
  /\ setup.step = "Restore"
  /\ IF setup.unit # None
     THEN \/ /\ files' = [files EXCEPT !.unit = setup.unit]
             /\ \/ service' = [loaded |-> setup.unit, running |-> setup.unit] /\ Step("RestoreEndpoint")
                \/ UNCHANGED service /\ setup' = [setup EXCEPT !.step = "RestoreEndpoint", !.undone = FALSE]
          \/ /\ \E left \in {files.unit, Partial} : files' = [files EXCEPT !.unit = left]
             /\ UNCHANGED service /\ setup' = [setup EXCEPT !.step = "RestoreEndpoint", !.undone = FALSE]
     ELSE \/ /\ files' = [files EXCEPT !.unit = None]
             /\ \/ service' = [loaded |-> None, running |-> None] /\ Step("RestoreEndpoint")
                \/ \E running \in {None, service.running} :
                     service' = [service EXCEPT !.running = running] /\ setup' = [setup EXCEPT !.step = "RestoreEndpoint", !.undone = FALSE]
          \/ UNCHANGED <<files, service>> /\ setup' = [setup EXCEPT !.step = "RestoreEndpoint", !.undone = FALSE]

restore_file ==
  /\ setup.step = "RestoreEndpoint" /\ UNCHANGED service
  /\ \/ files' = [files EXCEPT !.endpoint = setup.endpoint] /\ setup' = [setup EXCEPT !.step = "Done", !.result = "Err"]
     \/ \E left \in {files.endpoint, Partial} :
          files' = [files EXCEPT !.endpoint = left] /\ setup' = [setup EXCEPT !.step = "Done", !.result = "Err", !.undone = FALSE]

\* The command is run again.
Again ==
  /\ setup.step = "Done" /\ Partial \notin {files.unit, files.endpoint}
  /\ setup' = [setup EXCEPT !.step = "Plan", !.was = files, !.unit = None, !.endpoint = None, !.untold = FALSE, !.undone = TRUE, !.result = None]
  /\ UNCHANGED <<files, service>>

Next == build_setup_plan \/ ReadPrevious \/ DryRun \/ WriteEndpoint \/ WriteUnit \/ Reload \/ Enable \/ publish \/ restore \/ restore_file \/ Again
-----------------------------------------------------------------------------
(* Properties.                                                             *)

\* A setup that fails leaves the unit and the endpoint as they were, and systemd with the
\* unit that was there, unless a step of the undoing itself failed, a file could not be
\* read before, or the endpoint was lost by its own write; one that succeeds has written
\* both (apply_setup, restore, restore_file).
FailedSetupIsUndone ==
  setup.step = "Done" =>
    /\ (setup.result \in {"Err", "Dry"} /\ setup.undone /\ ~setup.untold) => files = setup.was
    /\ setup.result = "Ok" => files = [unit |-> "new", endpoint |-> "new"] /\ service.running # None
=============================================================================
