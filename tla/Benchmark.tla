------------------------------ MODULE Benchmark -----------------------------
(***************************************************************************)
(* The benchmark of an experiment: Execute claims the attempt, measure     *)
(* runs the command of the contract through the bounded runner, takes the  *)
(* metric and stores it; a later command restores it; Review claims the    *)
(* review, has the reviewer answer, and lets its promotion stand only if   *)
(* ValidatePromotion agrees.                                               *)
(*                                                                         *)
(* The command itself is external.  It writes log lines and documents to   *)
(* its streams; a document is the line of its value and a closing line,    *)
(* and only a standard output that is exactly one document is readable.    *)
(***************************************************************************)
EXTENDS CommandRunner, FiniteSets

CONSTANTS
  Values,     \* values of the metric
  Log, Close, \* a line that is no part of a document; the end of one
  None,
  MaxFaults   \* bound: failed calls, cancelled commands and crashes

ASSUME BenchmarkAssumption ==
  /\ Values \subseteq Int /\ MaxFaults \in Nat
  /\ Log \notin Values /\ Close \notin Values /\ None \notin Values

VARIABLES
  metric,    \* contract.Metric, part of the approved contract
  key,       \* durable: benchmark:attempt
  saved,     \* durable: cycle.Measurement
  stage,     \* durable: executing, failed, reviewing
  asked,     \* durable: review:attempt
  final,     \* durable: Resolution.FinalVerdict, or none
  vetoed,    \* durable: Resolution.OverrideReason is set
  files,     \* benchmark.stdout, measurement.json and review.json
  pc, mem,   \* place in Execute or Review, and cycle.Measurement in memory
  took,      \* duration of the run, in units of Values
  faults

document == <<key, saved, stage, asked, final, vetoed>>
local == <<mem, took>>
vars == <<runner, metric, document, files, pc, local, faults>>

Metrics == [source : {"wall", "stdout"}, direction : {"maximize", "minimize"},
            baseline : Values, target : Values]
Measurements == [exit : {"zero", "nonzero"}, value : Values \cup {0}]

(* validateMetric: the target improves on the baseline. *)
ValidMetric(m) ==
  IF m.direction = "maximize" THEN m.target > m.baseline ELSE m.target < m.baseline

(* Mutant: the target itself is not enough. *)
Exceeded(value) ==
  IF metric.direction = "maximize" THEN value > metric.target ELSE value < metric.target

Reached(value) ==
  IF metric.direction = "maximize" THEN value >= metric.target ELSE value =< metric.target

Unreadable == None
Verdicts == {"promote", "close"}

(* ExtractMetric: the duration, or the value of a readable document. *)
Extract(stdout, duration) ==
  IF metric.source = "wall" THEN duration
  ELSE IF \E v \in Values : stdout = <<v, Close>> THEN stdout[1] ELSE Unreadable

Init ==
  /\ RunnerInit
  /\ metric \in {m \in Metrics : ValidMetric(m)}
  /\ key = "none" /\ saved = None /\ stage = "executing"
  /\ asked = "none" /\ final = "none" /\ vetoed = FALSE
  /\ files = [stdout |-> None, measurement |-> None, review |-> None]
  /\ pc = "idle" /\ mem = None /\ took = None
  /\ faults = 0

Fault == faults < MaxFaults /\ faults' = faults + 1
NoFault == UNCHANGED faults

End == pc' = "idle"   \* the command returns
Goto(place) == pc' = place

(* persist under the command's context: once it is cancelled no `ic` starts*)
(* any more; otherwise the call succeeds, or fails before or behind its    *)
(* effect.                                                                 *)
Persist(k, m, s, place) ==
  \/ /\ context # "cancelled"
     /\ key' = k /\ saved' = m /\ stage' = s
     /\ Goto(place) /\ NoFault
  \/ /\ context = "cancelled"
     /\ UNCHANGED <<key, saved, stage>> /\ End /\ NoFault
  \/ /\ context # "cancelled"
     /\ \/ key' = k /\ saved' = m /\ stage' = s
        \/ UNCHANGED <<key, saved, stage>>
     /\ End /\ Fault

(* fail persists on a context of its own. *)
Fail ==
  \/ stage' = "failed" /\ saved' = mem /\ End /\ NoFault
  \/ UNCHANGED <<stage, saved>> /\ End /\ Fault

(* Mutant: an attempt that was started is never taken up. *)
NeverFound == FALSE
MeasurementFound == files.measurement # None

(* Mutant: the exit status is lost on the way through measurement.json. *)
RestoredWithoutExit == [files.measurement EXCEPT !.exit = "zero"]
Restored == files.measurement

(* Execute reaches the benchmark: claim it, restore it, or stop. *)
Claim ==
  /\ pc = "idle" /\ stage = "executing" /\ key # "completed"
  /\ context' = "live"
  /\ \/ /\ key = "none"
        /\ Persist("started", saved, stage, "run") /\ UNCHANGED mem
     \/ /\ key = "started" /\ MeasurementFound
        /\ \/ mem' = Restored /\ Goto("save") /\ NoFault
           \/ UNCHANGED mem /\ End /\ Fault
        /\ UNCHANGED <<key, saved, stage>>
     \/ /\ key = "started" /\ ~MeasurementFound
        /\ End
        /\ UNCHANGED <<mem, key, saved, stage, faults>>
  /\ UNCHANGED <<process, exit, held, written, captured, exceeded, result,
                 metric, asked, final, vetoed, files, took>>

(* The command runs: the runner's own steps, while measure waits for it. *)
Running == pc = "run" /\ UNCHANGED <<metric, document, files, pc, local>>

Begin == Running /\ StartProcess /\ NoFault

(* External: what the benchmark writes and how it ends (a signal of its own*)
(* counts as nonzero, as ExitCode makes it), and the end of what it left.  *)
Chunks == {<<Log>>} \cup {<<v, Close>> : v \in Values}
Output ==
  /\ Running
  /\ \/ \E chunk \in Chunks : Write("stdout", chunk)
     \/ Write("stderr", <<Log>>)
  /\ NoFault
Finish ==
  /\ Running /\ NoFault
  /\ \E status \in {"zero", "nonzero"} : Exit(status)
Released == Running /\ LetGo /\ NoFault

Stopped == Running /\ Kill /\ NoFault
Unstarted == Running /\ NotStarted /\ NoFault
(* SafeEnvironment fails, and with it the cycle, before anything runs. *)
Unprepared ==
  /\ pc = "run" /\ process = "none" /\ result = "none"
  /\ Fail
  /\ UNCHANGED <<runner, metric, key, asked, final, vetoed, files, local>>
OutOfTime == Running /\ EndContext("expired") /\ NoFault
Interrupt ==
  /\ pc # "idle" /\ EndContext("cancelled") /\ Fault
  /\ UNCHANGED <<metric, document, files, pc, local>>

(* Run returns; its error is only kept as text in benchmark.stderr. *)
Answered ==
  /\ pc = "run"
  /\ \/ Return
     \/ result # "none" /\ UNCHANGED runner
  /\ \E duration \in Values : took' = duration
  /\ Goto("streams")
  /\ UNCHANGED <<metric, document, files, mem, faults>>

(* An error fails the cycle, if that can be recorded. *)
Broken ==
  /\ \/ stage' = "failed" /\ saved' = mem
     \/ UNCHANGED <<stage, saved>>
  /\ End /\ Fault

(* A write to the artifact store fails before or behind its rename. *)
Store(written2, place) ==
  \/ files' = written2 /\ Goto(place) /\ NoFault /\ UNCHANGED document
  \/ files' \in {files, written2} /\ Broken /\ UNCHANGED <<key, asked, final, vetoed>>

WriteStreams ==
  /\ pc = "streams"
  /\ Store([files EXCEPT !.stdout = captured["stdout"]], "extract")
  /\ UNCHANGED <<runner, metric, local>>

(* A metric that cannot be read fails the cycle after exit status zero and *)
(* counts as zero after any other.                                         *)
ExitCode == IF exit = "zero" THEN "zero" ELSE "nonzero"
Measure ==
  LET value == Extract(captured["stdout"], took)
  IN /\ pc = "extract"
     /\ IF value = Unreadable /\ ExitCode = "zero"
        THEN Fail /\ UNCHANGED mem
        ELSE /\ mem' = [exit |-> ExitCode, value |-> IF value = Unreadable THEN 0 ELSE value]
             /\ Goto("write") /\ NoFault /\ UNCHANGED <<stage, saved>>
     /\ UNCHANGED <<runner, metric, key, asked, final, vetoed, files, took>>

WriteMeasurement ==
  /\ pc = "write"
  /\ Store([files EXCEPT !.measurement = mem], "save")
  /\ UNCHANGED <<runner, metric, local>>

Save ==
  /\ pc = "save"
  /\ Persist("completed", mem, stage, "enter")
  /\ UNCHANGED <<runner, metric, asked, final, vetoed, files, local>>

Enter ==
  /\ pc = "enter"
  /\ Persist(key, saved, "reviewing", "review")
  /\ UNCHANGED <<runner, metric, asked, final, vetoed, files, local>>

(* A later command takes a measured cycle up again. *)
Resume ==
  /\ pc = "idle" /\ key = "completed" /\ final = "none" /\ stage # "failed"
  /\ mem' = saved /\ context' = "live"
  /\ Goto(IF stage = "executing" THEN "enter" ELSE "review")
  /\ UNCHANGED <<process, exit, held, written, captured, exceeded, result,
                 metric, document, files, took, faults>>

(* ValidatePromotion, as far as the measurement is concerned. *)
Promotable == saved.exit = "zero" /\ Reached(saved.value)

(* The document is persisted with what has become of the review. *)
Recorded(a, f, v, place) ==
  \/ /\ context # "cancelled"
     /\ asked' = a /\ final' = f /\ vetoed' = v
     /\ Goto(place) /\ NoFault
  \/ /\ context = "cancelled"
     /\ UNCHANGED <<asked, final, vetoed>> /\ End /\ NoFault
  \/ /\ context # "cancelled"
     /\ \/ asked' = a /\ final' = f /\ vetoed' = v
        \/ UNCHANGED <<asked, final, vetoed>>
     /\ End /\ Fault

(* Review: the projection must still agree; the review is claimed, unless  *)
(* it was: then its answer is taken from review.json, and without one that *)
(* can be used the command ends, today and whenever it is repeated.        *)
Review ==
  /\ pc = "review"
  /\ \/ /\ files.measurement # saved
        /\ Fail /\ UNCHANGED <<asked, final, vetoed>>
     \/ /\ files.measurement = saved /\ asked = "none"
        /\ \/ Recorded("started", final, vetoed, "reviewer") /\ UNCHANGED <<stage, saved>>
           \/ Broken /\ UNCHANGED <<asked, final, vetoed>>   \* review-material.json
     \/ /\ files.measurement = saved /\ asked # "none"
        /\ \/ files.review \in Verdicts /\ Goto("resolve") /\ NoFault
           \/ files.review \in Verdicts /\ End /\ Fault
           \/ files.review \notin Verdicts /\ End /\ NoFault
        /\ UNCHANGED <<stage, saved, asked, final, vetoed>>
  /\ UNCHANGED <<runner, metric, key, files, local>>

(* External: the reviewer is told to write its answer where Review stores  *)
(* it, and may write there what is no answer.                              *)
ReviewerWrites ==
  /\ pc = "reviewer" /\ files.review = None
  /\ \E v \in Verdicts \cup {"unusable"} : files' = [files EXCEPT !.review = v]
  /\ UNCHANGED <<runner, metric, document, pc, local, faults>>

(* It answers, or fails and with it the cycle. *)
ReviewerAnswers ==
  /\ pc = "reviewer"
  /\ \/ \E v \in Verdicts :
          /\ files.review \in {None, v}
          /\ Store([files EXCEPT !.review = v], "resolve")
     \/ Fail /\ UNCHANGED <<key, asked, final, vetoed, files>>
  /\ UNCHANGED <<runner, metric, local>>

(* The verdict is resolved, with the veto, and recorded; a review that     *)
(* cites what is no evidence of the cycle fails it.                        *)
Resolve ==
  LET veto == files.review = "promote" /\ ~Promotable
  IN /\ pc = "resolve"
     /\ \/ /\ Recorded("completed", IF veto THEN "close" ELSE files.review, veto, "idle")
           /\ UNCHANGED <<stage, saved>>
        \/ Fail /\ UNCHANGED <<asked, final, vetoed>>
     /\ UNCHANGED <<runner, metric, key, files, local>>

Crash ==
  /\ pc # "idle" /\ Fault
  /\ End /\ mem' = None
  /\ UNCHANGED <<runner, metric, document, files, took>>

Settled == stage = "failed" \/ final # "none"

Next ==
  \/ Claim \/ Begin \/ Output \/ Finish \/ Released \/ Stopped \/ Unstarted \/ Unprepared
  \/ OutOfTime \/ Interrupt \/ Answered \/ WriteStreams \/ Measure \/ WriteMeasurement
  \/ Save \/ Enter \/ Resume \/ Review \/ ReviewerWrites \/ ReviewerAnswers \/ Resolve
  \/ Crash
  \/ (Settled /\ UNCHANGED vars)

(* A command goes on, the benchmark is stopped once its time is up, and    *)
(* somebody resumes an unfinished cycle.  The reviewer may never answer.   *)
Step == Claim \/ Stopped \/ Answered \/ WriteStreams \/ Measure
        \/ WriteMeasurement \/ Save \/ Enter \/ Resume \/ Review \/ Resolve
Spec == Init /\ [][Next]_vars /\ WF_vars(Step)

-----------------------------------------------------------------------------

(* What the command itself reported: the value of its document, or its     *)
(* duration.                                                               *)
Showed(value) ==
  IF metric.source = "wall" THEN value = took
  ELSE Len(written["stdout"]) > 1 /\ written["stdout"][1] = value

(* A promotion rests on one run of the benchmark that exited with zero and *)
(* itself showed a value at the target and strictly better than the        *)
(* baseline, whichever way the metric points and whatever was restored     *)
(* from disk in between; and the reviewer's promotion is overridden only   *)
(* for cause: no zero exit, or a value it showed is short of the target.   *)
Better(v, limit) == IF metric.direction = "maximize" THEN v > limit ELSE v < limit
VerdictEarned ==
  /\ final = "promote" =>
       /\ process = "ended" /\ exit = "zero"
       /\ \E v \in Values :
            Showed(v) /\ Better(v, metric.baseline) /\ ~Better(metric.target, v)
  /\ vetoed => exit # "zero" \/ \E v \in Values : Showed(v) /\ Better(metric.target, v)

(* The measurement on record, the file the reviewer reads and the stored   *)
(* output tell the same: the value of a successful run can be taken again  *)
(* from benchmark.stdout.                                                  *)
MeasurementReproducible ==
  key = "completed" =>
    /\ saved = files.measurement
    /\ saved.exit = "zero" => Extract(files.stdout, took) = saved.value

(* Once the measurement is on disk it is used: the benchmark is never      *)
(* given up as indeterminate, and the cycle comes to its verdict, or       *)
(* fails, unless its review is: the reviewer never answers, or was         *)
(* interrupted and has left no answer that can be used.                    *)
ReviewIndeterminate ==
  \/ pc = "reviewer"
  \/ asked = "started" /\ files.review \notin Verdicts
MeasurementUsed ==
  <>[](files.measurement # None => Settled \/ ReviewIndeterminate)
=============================================================================
