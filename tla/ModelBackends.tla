---------------------------- MODULE ModelBackends ----------------------------
(***************************************************************************)
(* One analysis of a Review Map by a model: OllamaAnalyzer over HTTP, or   *)
(* PiAnalyzer through the pi command, which SystemCommandExecutor runs     *)
(* with a deadline and bounded capture.  What is accepted of an answer is  *)
(* ReviewMapPlan's; here an answer is Good, Bad (rejected by the schema or *)
(* the facts) or Poor (rejected by the quality gate).                      *)
(*                                                                         *)
(* Ollama, pi and its descendants are external.  A process that cannot be  *)
(* waited for (an error of try_wait or wait) is left out.                  *)
(***************************************************************************)
EXTENDS Integers, Sequences, FiniteSets, TLC

CONSTANTS Batches,     \* batches of the request; more than one are synthesized
          StdoutLimit, \* PI_STDOUT_LIMIT, in chunks
          None

VARIABLES job,    \* the analysis: backend, request, attempt, phase, what it was given
          proc,   \* the pi process of the current attempt, or None
          output, \* the file pi's extension writes: None or [attempt, answer]
          probed  \* the OnceCell of the pre-flight

backendVars == <<job, proc, output, probed>>

Answers == {"Good", "Bad", "Poor"}
Requests == IF Batches = 1 THEN 1 ELSE Batches + 1
Running == {"Probe", "Tags", "Chat", "Spawn", "Stdin", "Wait", "Join"}

Init ==
  /\ \E backend \in {"ollama", "pi"} :
       job = [backend |-> backend, request |-> 1, attempt |-> 1, repair |-> FALSE, calls |-> 0, kept |-> <<>>,
              phase |-> IF backend = "pi" THEN "Probe" ELSE "Tags", timedOut |-> FALSE, result |-> None]
  /\ proc = None /\ output = None /\ probed = FALSE

Fail(code) == job' = [job EXCEPT !.phase = "Done", !.result = code]

\* Mutant: the repair runs in the workspace of the first attempt.
SharedWorkspace(j) ==
  /\ job' = [j EXCEPT !.attempt = @ + 1, !.phase = IF j.backend = "pi" THEN "Spawn" ELSE "Chat", !.timedOut = FALSE]
  /\ UNCHANGED output

\* The next invocation, with a Workspace of its own.
StartAttempt(j) ==
  /\ job' = [j EXCEPT !.attempt = @ + 1, !.phase = IF j.backend = "pi" THEN "Spawn" ELSE "Chat", !.timedOut = FALSE]
  /\ output' = None

\* attempt, analyze_request: an answer is kept, repaired once, or the analysis fails.
Received(answer, from) ==
  LET kept == [job EXCEPT !.kept = Append(@, [request |-> job.request, attempt |-> from, now |-> job.attempt]), !.repair = FALSE]
  IN  CASE answer = "Good" /\ job.request < Requests -> StartAttempt([kept EXCEPT !.request = @ + 1])
        [] answer = "Good" /\ job.request = Requests -> job' = [kept EXCEPT !.phase = "Done", !.result = "Ok"] /\ UNCHANGED output
        [] answer # "Good" /\ ~job.repair -> StartAttempt([job EXCEPT !.repair = TRUE])
        [] OTHER -> UNCHANGED output /\ Fail(IF answer = "Poor" /\ job.backend = "ollama" THEN "AnalysisLowQuality" ELSE "AnalysisInvalid")
-----------------------------------------------------------------------------
(* Ollama.                                                                 *)

\* model_digest: the list of models, and the one that is configured in it.
model_digest ==
  /\ job.phase = "Tags"
  /\ \/ job' = [job EXCEPT !.phase = "Chat"]
     \/ \E code \in {"OllamaUnavailable", "AnalysisTimedOut", "ModelMissing"} : Fail(code)
  /\ UNCHANGED <<proc, output, probed>>

\* request_once: the transport, the status and the envelope, then the content.
request_once ==
  /\ job.phase = "Chat"
  /\ \/ \E code \in {"OllamaUnavailable", "AnalysisTimedOut", "ModelMissing", "AnalysisFailed", "AnalysisInvalid"} :
          Fail(code) /\ UNCHANGED output
     \/ \E answer \in Answers : Received(answer, job.attempt)
  /\ UNCHANGED <<proc, probed>>

\* The timeout around the whole analysis drops the request under way.
OverallTimeout ==
  /\ job.backend = "ollama" /\ job.phase \in Running
  /\ Fail("AnalysisTimedOut") /\ UNCHANGED <<proc, output, probed>>
-----------------------------------------------------------------------------
(* pi: SystemCommandExecutor::execute with limits.                         *)

\* identity: the pre-flight runs until it succeeded once.
probe_once ==
  /\ job.phase = "Probe"
  /\ \/ probed' = TRUE /\ job' = [job EXCEPT !.phase = "Spawn"]
     \/ ~probed /\ probed' = FALSE /\ Fail("OllamaUnavailable")
  /\ UNCHANGED <<proc, output>>

Spawn ==
  /\ job.phase = "Spawn"
  /\ \/ \E code \in {"OllamaUnavailable", "AnalysisFailed"} : Fail(code) /\ UNCHANGED proc
     \/ /\ proc' = [state |-> "Running", code |-> None, reading |-> FALSE, out |-> 0, seen |-> 0, held |-> FALSE]
        /\ job' = [job EXCEPT !.phase = "Stdin", !.calls = @ + 1]
  /\ UNCHANGED <<output, probed>>

\* write_all blocks until the child reads; a child that is gone breaks the pipe, and it is
\* killed and waited for before the error is returned.
WriteStdin ==
  /\ job.phase = "Stdin"
  /\ \/ proc.reading /\ job' = [job EXCEPT !.phase = "Wait"] /\ UNCHANGED proc
     \/ ~proc.reading /\ proc.state = "Exited" /\ ~proc.held /\ proc' = None /\ Fail("AnalysisFailed")
  /\ UNCHANGED <<output, probed>>

\* try_wait, every 5 ms.
TryWait ==
  /\ job.phase = "Wait" /\ proc.state = "Exited"
  /\ job' = [job EXCEPT !.phase = "Join"]
  /\ UNCHANGED <<proc, output, probed>>

Deadline ==
  /\ job.phase = "Wait" /\ proc.state = "Running"
  /\ \E held \in BOOLEAN : proc' = [proc EXCEPT !.state = "Exited", !.code = None, !.held = held]
  /\ job' = [job EXCEPT !.phase = "Join", !.timedOut = TRUE]
  /\ UNCHANGED <<output, probed>>

\* read_bounded keeps what fits and drains the rest.
ReaderReads ==
  /\ job.phase \in {"Stdin", "Wait", "Join"} /\ proc.seen < proc.out
  /\ proc' = [proc EXCEPT !.seen = @ + 1]
  /\ UNCHANGED <<job, output, probed>>

\* validate_result and classify of what execute returned; EmptyAnswer is no error here.
validate_result(timedOut, truncated, code) ==
  CASE timedOut -> "AnalysisTimedOut"
    [] ~timedOut /\ truncated -> "AnalysisFailed"
    [] ~timedOut /\ ~truncated /\ code = "rejected" -> "ModelMissing"
    [] ~timedOut /\ ~truncated /\ code = "failed" -> "AnalysisFailed"
    [] OTHER -> "Ok"

\* The readers end once every holder of the pipes is gone; then invoke reads the file.
Join ==
  /\ job.phase = "Join" /\ ~proc.held /\ proc.seen = proc.out
  /\ proc' = None
  /\ LET outcome == validate_result(job.timedOut, proc.out > StdoutLimit, proc.code)
     IN  IF outcome # "Ok" THEN Fail(outcome) /\ UNCHANGED output
         ELSE IF output = None THEN Fail("AnalysisInvalid") /\ UNCHANGED output
         ELSE Received(output.answer, output.attempt)
  /\ UNCHANGED probed
-----------------------------------------------------------------------------
(* The child and what it left behind (external).                           *)

Alive == proc # None /\ (proc.state = "Running" \/ proc.held)
ChildReads == Alive /\ proc.state = "Running" /\ ~proc.reading /\ proc' = [proc EXCEPT !.reading = TRUE] /\ UNCHANGED <<job, output, probed>>
ChildWrites == Alive /\ proc.out <= StdoutLimit /\ proc' = [proc EXCEPT !.out = @ + 1] /\ UNCHANGED <<job, output, probed>>
ChildSubmits == /\ Alive /\ \E answer \in Answers : output' = [attempt |-> job.attempt, answer |-> answer]
                /\ UNCHANGED <<job, proc, probed>>
ChildExits ==
  /\ Alive /\ proc.state = "Running"
  /\ \E code \in {"ok", "failed", "rejected"}, held \in BOOLEAN :
       proc' = [proc EXCEPT !.state = "Exited", !.code = code, !.held = held]
  /\ UNCHANGED <<job, output, probed>>
DescendantEnds == proc # None /\ proc.held /\ proc' = [proc EXCEPT !.held = FALSE] /\ UNCHANGED <<job, output, probed>>

\* A resolve after this one finds the probe done; Batches and backend are the same.
Again ==
  /\ job.phase = "Done" /\ job.calls < 2 * Requests
  /\ job' = [job EXCEPT !.phase = IF job.backend = "pi" THEN "Probe" ELSE "Tags", !.request = 1, !.attempt = 1, !.repair = FALSE,
               !.calls = 2 * Requests, !.kept = <<>>, !.timedOut = FALSE, !.result = None]
  /\ output' = None /\ UNCHANGED <<proc, probed>>

Next == \/ model_digest \/ request_once \/ OverallTimeout \/ probe_once \/ Spawn \/ WriteStdin \/ TryWait \/ Deadline
        \/ ReaderReads \/ Join \/ ChildReads \/ ChildWrites \/ ChildSubmits \/ ChildExits \/ DescendantEnds \/ Again
-----------------------------------------------------------------------------
(* Properties.                                                             *)

\* A result is made of one accepted answer per request, in order, each written by the very
\* attempt that was accepted: a rejected answer of an earlier attempt never comes back as
\* the answer of the repair (attempt, Workspace).
AnswersOfThisAttempt ==
  /\ \A i \in DOMAIN job.kept : job.kept[i].request = i /\ job.kept[i].attempt = job.kept[i].now
  /\ job.result = "Ok" => Len(job.kept) = Requests

\* No process is left behind when an attempt ends, and one whose output was cut or that was
\* killed at its deadline is never the source of an answer (execute, validate_result).
NothingLeftRunning ==
  /\ job.phase \notin {"Stdin", "Wait", "Join"} => proc = None
  /\ job.attempt <= 2 * Requests
=============================================================================
