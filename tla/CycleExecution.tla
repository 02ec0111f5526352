--------------------------- MODULE CycleExecution ---------------------------
(***************************************************************************)
(* Service.Execute: one bounded run of an executor in a worktree, checked  *)
(* against the contract, then one run of the contract's benchmark.  Both   *)
(* are marked "started" in the canonical document before they are invoked  *)
(* and never invoked again after that; what a lost invocation left on disk *)
(* is recovered, otherwise the attempt stays indeterminate.                *)
(***************************************************************************)
EXTENDS CycleService

\* Execute's check of the document it reads before it asks for the lock.
ExecuteReady(d) ==
  \/ d.stage \in {"approved", "executing"}
  \/ d.stage = "reviewing" /\ d.key["benchmark:attempt"] = "completed"

\* Mutant: an attempt that was started may be started again.
Unfinished(m, k) == m.key[k] # "completed"

Unattempted(m, k) == m.key[k] \notin {"started", "completed"}

\* Under the lock: the evidence of the approval, then Prepare, which finds
\* or creates the cycle's worktree, and the mark that it is prepared.
PrepareExecution(p) ==
  LET m == mem[p]
      measured == m.stage = "reviewing" /\ m.key["benchmark:attempt"] = "completed"
      refused == m.judged # "select" \/ ~m.approved
      prepared == SetKey([m EXCEPT !.execution = TRUE], "execution:prepared", "completed")
  IN /\ At(p, "execute")
     /\ \/ (measured \/ refused) /\ Jump(p, "release")
        \/ /\ ~measured /\ ~refused
           /\ \/ ~Unattempted(m, "execution:attempt") /\ Jump(p, "executeAdvance")
              \/ /\ Unattempted(m, "execution:attempt")
                 /\ IF prepared = m
                    THEN Jump(p, "executeAdvance")
                    ELSE Persist(p, prepared, "executeAdvance", "release")
              \/ /\ Unattempted(m, "execution:attempt") /\ ~m.execution
                 /\ Raise(p, "fail") /\ UNCHANGED <<doc, mem>>
     /\ UNCHANGED <<world, lock, job>>

AdvanceToExecute(p) ==
  /\ At(p, "executeAdvance")
  /\ IF mem[p].stage \in {"approved", "executing"}
     THEN Advance(p, "run:execute", "executeEnter")
     ELSE Continue(p, "executeAttempt") /\ UNCHANGED job
  /\ UNCHANGED <<doc, mem, world, lock>>

EnterExecuting(p) ==
  /\ At(p, "executeEnter")
  /\ IF mem[p].stage = "approved"
     THEN Transition(p, mem[p], "executing", "executeAttempt")
     ELSE Jump(p, "executeAttempt") /\ UNCHANGED job
  /\ UNCHANGED <<world, lock>>

\* The attempt: open it and invoke, recover a report left on disk, or stop.
\* A recovered report comes with no usage and no transcript.
ClaimExecution(p) ==
  LET m == mem[p]
      attempt == m.key["execution:attempt"]
      recoverable == m.execution /\ files[Cyc(p)].report = "valid"
  IN /\ At(p, "executeAttempt")
     /\ \/ /\ Unattempted(m, "execution:attempt")
           /\ Persist(p, SetKey(m, "execution:attempt", "started"), "executor", "release")
           /\ UNCHANGED job
        \/ /\ attempt = "started" /\ recoverable
           /\ Jump(p, "collect") /\ Got(p, "unknown")
        \/ /\ attempt = "started"
           /\ \/ ~recoverable /\ Jump(p, "release")
              \/ recoverable /\ Raise(p, "release") /\ UNCHANGED <<doc, mem>>
           /\ UNCHANGED job
        \/ attempt = "completed" /\ Jump(p, "benchmark") /\ UNCHANGED job
     /\ UNCHANGED <<world, lock>>

\* The executor runs.  It leaves the worktree within the allowed paths and as
\* reported ("allowed") or not ("stray"), may write the report file itself,
\* and returns its usage or an error.
InvokeExecutor(p) ==
  LET c == Cyc(p)
  IN /\ At(p, "executor")
     /\ \E tree \in {"allowed", "stray"}, report \in {"none", "valid", "invalid"} :
          /\ files' = [files EXCEPT ![c].worktree = tree, ![c].report = report]
          /\ \/ \E usage \in {"within", "over"} :
                  /\ report # "invalid"
                  /\ calls' = [calls EXCEPT ![c].executor = @ + 1,
                                            ![c].overBudget = usage = "over"]
                  /\ Continue(p, "report")
                  /\ Got(p, usage)
             \/ /\ calls' = [calls EXCEPT ![c].executor = @ + 1]
                /\ Continue(p, "fail")
                /\ UNCHANGED job
     /\ UNCHANGED <<doc, mem, kernel, backlog, latest, lock>>

WriteReport(p) ==
  LET written == [files EXCEPT ![Cyc(p)].report = "valid"]
  IN /\ At(p, "report")
     /\ \/ files' = written /\ Continue(p, "collect")
        \/ files' \in {files, written} /\ Raise(p, "fail")
     /\ UNCHANGED <<doc, mem, kernel, backlog, calls, latest, lock, job>>

OverBudget(usage) == usage = "over"
WithinPaths(tree) == tree = "allowed"

\* Budget, paths and patch, then the attempt is completed.  The transcript
\* becomes an artifact when the harness returned one; one of a run that
\* succeeds is taken not to be empty.
CollectExecution(p) ==
  LET m == mem[p]
      accepted == ~OverBudget(job[p].got) /\ m.execution /\ WithinPaths(files[Cyc(p)].worktree)
      collected == SetKey([m EXCEPT !.transcript = job[p].got # "unknown"],
                          "execution:attempt", "completed")
  IN /\ At(p, "collect")
     /\ \/ ~accepted /\ Jump(p, "fail")
        \/ accepted /\ Persist(p, collected, "benchmark", "release")
        \/ accepted /\ Raise(p, "fail") /\ UNCHANGED <<doc, mem>>
     /\ UNCHANGED <<world, lock, job>>

\* The benchmark: claim it, restore its measurement from disk, or stop.
ClaimBenchmark(p) ==
  LET m == mem[p]
      attempt == m.key["benchmark:attempt"]
      found == files[Cyc(p)].measurement
  IN /\ At(p, "benchmark")
     /\ \/ /\ attempt = "started" /\ found # "none"
           /\ Remember(p, [m EXCEPT !.measured = found])
           /\ Continue(p, "measured") /\ UNCHANGED doc
        \/ attempt = "started" /\ found = "none" /\ Jump(p, "release")
        \/ attempt = "started" /\ found # "none" /\ Raise(p, "release") /\ UNCHANGED <<doc, mem>>
        \/ attempt = "completed" /\ Jump(p, "measured")
        \/ /\ Unattempted(m, "benchmark:attempt")
           /\ Persist(p, SetKey(m, "benchmark:attempt", "started"), "measure", "release")
     /\ UNCHANGED <<world, lock, job>>

\* measure: the benchmark runs; its metric meets the target or misses it (a
\* failing or interrupted benchmark counts as a miss), or cannot be read.
Measure(p) ==
  /\ At(p, "measure")
  /\ calls' = [calls EXCEPT ![Cyc(p)].benchmark = @ + 1]
  /\ \/ \E value \in {"met", "missed"} :
          Remember(p, [mem[p] EXCEPT !.measured = value]) /\ Continue(p, "measureWrite")
     \/ Continue(p, "fail") /\ UNCHANGED mem
  /\ UNCHANGED <<doc, kernel, backlog, files, latest, lock, job>>

WriteMeasurement(p) ==
  LET written == [files EXCEPT ![Cyc(p)].measurement = mem[p].measured]
  IN /\ At(p, "measureWrite")
     /\ \/ files' = written /\ Continue(p, "measured")
        \/ files' \in {files, written} /\ Raise(p, "fail")
     /\ UNCHANGED <<doc, mem, kernel, backlog, calls, latest, lock, job>>

SaveMeasurement(p) ==
  /\ At(p, "measured")
  /\ Persist(p, SetKey(mem[p], "benchmark:attempt", "completed"), "reviewAdvance", "release")
  /\ UNCHANGED <<world, lock, job>>

AdvanceToReview(p) ==
  /\ At(p, "reviewAdvance")
  /\ Advance(p, "run:review", "reviewEnter")
  /\ UNCHANGED <<doc, mem, world, lock>>

EnterReviewing(p) ==
  /\ At(p, "reviewEnter")
  /\ Transition(p, mem[p], "reviewing", "release")
  /\ UNCHANGED <<world, lock>>

ExecutionStep(p) ==
  \/ PrepareExecution(p) \/ AdvanceToExecute(p) \/ EnterExecuting(p)
  \/ ClaimExecution(p) \/ InvokeExecutor(p) \/ WriteReport(p) \/ CollectExecution(p)
  \/ ClaimBenchmark(p) \/ Measure(p) \/ WriteMeasurement(p) \/ SaveMeasurement(p)
  \/ AdvanceToReview(p) \/ EnterReviewing(p)
=============================================================================
