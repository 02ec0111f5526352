---------------------------- MODULE CommandRunner ---------------------------
(***************************************************************************)
(* ExecRunner: one external command whose standard output and standard     *)
(* error are copied into a shared buffer of bounded size.  Two goroutines  *)
(* of os/exec do the copying, one per stream; captureWriter.Write holds    *)
(* the mutex for its whole length, so a write is one step.                 *)
(*                                                                         *)
(* The streams are pipes, and no WaitDelay is set: Run waits for them to   *)
(* be closed by everyone who has them, which may be a descendant of the    *)
(* command that runs on when the command has ended, or has been killed.    *)
(* What it writes is counted as written before the end of the command: the *)
(* runner looks at its exit status and its output when both are final.     *)
(*                                                                         *)
(* A line stands for the bytes of a line and counts one towards the limit. *)
(* "written" is what the command itself wrote and "captured" what the      *)
(* runner kept of it; the code only has the second.                        *)
(***************************************************************************)
EXTENDS Integers, Sequences

CONSTANTS
  Limit,     \* MaxOutputBytes of the invocation
  MaxOutput  \* bound on what the command writes to each of its streams

ASSUME LimitAssumption == Limit \in Nat /\ MaxOutput \in Nat

VARIABLES
  context,   \* the context the command runs under: live, expired, cancelled
  process,   \* none, running, ended
  exit,      \* none, zero, nonzero, signal
  held,      \* a descendant of the ended command has a pipe open that Run waits for
  written,   \* stream -> lines the command wrote
  captured,  \* stream -> lines in the buffers of boundedCapture
  exceeded,  \* boundedCapture.exceeded
  result     \* what Run returned: none, ok, failed, not-found, context, limit

runner == <<context, process, exit, held, written, captured, exceeded, result>>

Streams == {"stdout", "stderr"}
Nothing == [s \in Streams |-> <<>>]

RunnerInit ==
  /\ context = "live"
  /\ process = "none"
  /\ exit = "none"
  /\ held = FALSE
  /\ written = Nothing
  /\ captured = Nothing
  /\ exceeded = FALSE
  /\ result = "none"

(* boundedCapture.written: both streams draw on one allowance. *)
Used == Len(captured["stdout"]) + Len(captured["stderr"])

Kept(chunk) ==
  SubSeq(chunk, 1, IF Len(chunk) < Limit - Used THEN Len(chunk) ELSE Limit - Used)

(* os/exec stops copying a stream whose Write returned an error. *)
Copying(s) == captured[s] = written[s]

(* Mutant: Write drops what does not fit without noting it. *)
TruncatingWrite(s, chunk) ==
  /\ process = "running"
  /\ Len(written[s]) + Len(chunk) =< MaxOutput
  /\ written' = [written EXCEPT ![s] = @ \o chunk]
  /\ captured' = IF Copying(s) THEN [captured EXCEPT ![s] = @ \o Kept(chunk)] ELSE captured
  /\ exceeded' = (exceeded \/ (Copying(s) /\ Used >= Limit))
  /\ UNCHANGED <<context, process, exit, held, result>>

Write(s, chunk) ==
  /\ process = "running"
  /\ Len(written[s]) + Len(chunk) =< MaxOutput
  /\ written' = [written EXCEPT ![s] = @ \o chunk]
  /\ IF Copying(s)
     THEN /\ captured' = [captured EXCEPT ![s] = @ \o Kept(chunk)]
          /\ exceeded' = (exceeded \/ Len(chunk) > Limit - Used)
     ELSE UNCHANGED <<captured, exceeded>>
  /\ UNCHANGED <<context, process, exit, held, result>>

StartProcess ==
  /\ process = "none"
  /\ context = "live"
  /\ result = "none"
  /\ process' = "running"
  /\ UNCHANGED <<context, exit, held, written, captured, exceeded, result>>

(* Nothing runs: the executable does not exist (exec.ErrNotFound), or the *)
(* context ended before the start.                                        *)
NotStarted ==
  /\ process = "none"
  /\ result = "none"
  /\ result' = IF context = "live" THEN "not-found" ELSE "context"
  /\ UNCHANGED <<context, process, exit, held, written, captured, exceeded>>

(* What the command started may outlive it, with its streams. *)
Exit(status) ==
  /\ process = "running"
  /\ process' = "ended"
  /\ exit' = status
  /\ held' \in BOOLEAN
  /\ UNCHANGED <<context, written, captured, exceeded, result>>

(* The deadline passes, or the caller's context is cancelled. *)
EndContext(why) ==
  /\ context # why
  /\ context # "cancelled"
  /\ context' = why
  /\ UNCHANGED <<process, exit, held, written, captured, exceeded, result>>

(* The last of them ends, closes the pipe or is cut off by the limit. *)
LetGo ==
  /\ held
  /\ held' = FALSE
  /\ UNCHANGED <<context, process, exit, written, captured, exceeded, result>>

(* Mutant: only the caller's cancellation kills the process. *)
KillWhenCancelled == context = "cancelled" /\ Exit("signal")

(* CommandContext kills the process once the context has ended: the        *)
(* process, not what it started.                                           *)
Kill == context # "live" /\ Exit("signal")

(* Run waits for the pipes, then looks at the limit first, then at the     *)
(* context, then at the command.                                           *)
Return ==
  /\ process = "ended" /\ ~held
  /\ result = "none"
  /\ result' = IF exceeded THEN "limit"
               ELSE IF context # "live" THEN "context"
               ELSE IF exit # "zero" THEN "failed" ELSE "ok"
  /\ UNCHANGED <<context, process, exit, held, written, captured, exceeded>>
=============================================================================
