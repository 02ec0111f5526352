-------------------------- MODULE CycleObservation --------------------------
(***************************************************************************)
(* Service.Start and Service.ResumeObservation: create the cycle and its   *)
(* run, capture one observation, obtain one judgment of it (with at most   *)
(* one corrective retry) and rank.  Each capture, each registration and    *)
(* each call of the judge is claimed in the document first; a claim found  *)
(* without its result makes the cycle fail instead of being repeated.      *)
(***************************************************************************)
EXTENDS CycleService

Start(p) ==
  /\ At(p, "start")
  /\ \E mode \in Modes :
       Persist(p, [NoDoc EXCEPT !.stage = "new", !.mode = mode], "startLatest", "release")
  /\ UNCHANGED <<world, lock, job>>

StartLatest(p) ==
  /\ At(p, "startLatest")
  /\ \/ latest' = Cyc(p) /\ Continue(p, "ensureRun")
     \/ latest' \in {latest, Cyc(p)} /\ Raise(p, "release")
  /\ UNCHANGED <<doc, mem, kernel, backlog, files, calls, lock, job>>

\* ensureCycleRun.  CreateCycleRun is keyed by the cycle's identifier: an
\* existing run is found again.
EnsureCycleRun(p) ==
  LET c == Cyc(p)
      created == [kernel EXCEPT ![c].phase = IF @ = Absent THEN "observe" ELSE @]
  IN /\ At(p, "ensureRun")
     /\ \/ mem[p].run /\ Continue(p, "continue") /\ UNCHANGED kernel
        \/ ~mem[p].run /\ kernel' = created /\ Continue(p, "ensureRunSave")
        \/ ~mem[p].run /\ kernel' = created /\ Raise(p, "ensureRunSave")
        \/ ~mem[p].run /\ kernel' \in {kernel, created} /\ Raise(p, "release")
     /\ UNCHANGED <<doc, mem, backlog, files, calls, latest, lock, job>>

SaveCycleRun(p) ==
  /\ At(p, "ensureRunSave")
  /\ Persist(p, [mem[p] EXCEPT !.run = TRUE], "continue", "release")
  /\ UNCHANGED <<world, lock, job>>

ContinueObservation(p) ==
  LET stage == mem[p].stage
  IN /\ At(p, "continue")
     /\ \/ stage = "ranked" /\ Call(p, "event", "finishRanked") /\ UNCHANGED <<latest, faults>>
        \/ /\ stage \in {"new", "observing"}
           /\ \/ latest' = Cyc(p) /\ Continue(p, "observing")
              \/ latest' \in {latest, Cyc(p)} /\ Raise(p, "release")
           /\ UNCHANGED job
        \/ /\ stage \notin {"new", "observing", "ranked"}
           /\ Continue(p, "release")
           /\ UNCHANGED <<latest, job>>
     /\ UNCHANGED <<doc, mem, kernel, backlog, files, calls, lock>>

EnterObserving(p) ==
  /\ At(p, "observing")
  /\ IF mem[p].stage = "new"
     THEN Transition(p, mem[p], "observing", "capture")
     ELSE Call(p, "event", "capture") /\ UNCHANGED <<doc, mem, faults>>
  /\ UNCHANGED <<world, lock>>

-----------------------------------------------------------------------------
(* loadOrCaptureObservation *)

\* Mutant: only a finished capture counts as claimed.
CaptureFinished(m) == m.key["observation:capture"] = "completed"

CaptureClaimed(m) == m.key["observation:capture"] = "started"

CaptureObservation(p) ==
  LET m == mem[p]
      stored == files[Cyc(p)].observation
  IN /\ At(p, "capture")
     /\ \/ stored /\ Jump(p, "register")
        \/ ~stored /\ (m.observed \/ CaptureClaimed(m)) /\ Jump(p, "fail")
        \/ /\ ~stored /\ ~m.observed /\ ~CaptureClaimed(m)
           /\ Persist(p, SetKey(m, "observation:capture", "started"), "observe", "fail")
        \/ Raise(p, "fail") /\ UNCHANGED <<doc, mem>>
     /\ UNCHANGED <<world, lock, job>>

\* observe reads every source and registers each component as it goes.
Observe(p) ==
  LET c == Cyc(p)
      registered == [kernel EXCEPT ![c].replays["components"] = @ + 1]
  IN /\ At(p, "observe")
     /\ \/ kernel' = registered /\ Continue(p, "observeWrite")
        \/ kernel' \in {kernel, registered} /\ Raise(p, "fail")
     /\ UNCHANGED <<doc, mem, backlog, files, calls, latest, lock, job>>

WriteObservation(p) ==
  LET written == [files EXCEPT ![Cyc(p)].observation = TRUE]
  IN /\ At(p, "observeWrite")
     /\ \/ files' = written /\ Continue(p, "register")
        \/ files' \in {files, written} /\ Raise(p, "fail")
     /\ UNCHANGED <<doc, mem, kernel, backlog, calls, latest, lock, job>>

ClaimRegistration(p) ==
  LET m == [mem[p] EXCEPT !.observed = TRUE]
      attempt == m.key["replay:observation"]
  IN /\ At(p, "register")
     /\ \/ attempt = "completed" /\ Remember(p, m) /\ Continue(p, "registerDone") /\ UNCHANGED doc
        \/ attempt = "started" /\ Remember(p, m) /\ Continue(p, "fail") /\ UNCHANGED doc
        \/ /\ attempt = "none"
           /\ Persist(p, SetKey(m, "replay:observation", "started"), "registerSend", "fail")
     /\ UNCHANGED <<world, lock, job>>

SendRegistration(p) ==
  LET c == Cyc(p)
      sent == [kernel EXCEPT ![c].replays["observation"] = @ + 1]
  IN /\ At(p, "registerSend")
     /\ \/ kernel' = sent /\ Continue(p, "registerDone")
        \/ kernel' \in {kernel, sent} /\ Raise(p, "fail")
     /\ UNCHANGED <<doc, mem, backlog, files, calls, latest, lock, job>>

SaveObservation(p) ==
  LET registered == SetKey(mem[p], "replay:observation", "completed")
  IN /\ At(p, "registerDone")
     /\ Persist(p, SetKey(registered, "observation:capture", "completed"), "judge", "fail")
     /\ UNCHANGED <<world, lock, job>>

-----------------------------------------------------------------------------
(* loadOrRunJudgment.  A judgment selects an opportunity, is an explicit    *)
(* no-op, has every opportunity rejected ("invalid"), or is unusable.       *)

Usable == {"select", "noop"}
FirstCallMade(m) == m.key["judgment:attempt1"] # "none"
RetryOpen(m) == m.key["judgment:retry"] = "started"
MayRetry(m) == m.key["judgment:retry"] = "none"
CloseRetry(m) == SetKey(m, "judgment:retry", "completed")

ClaimJudgment(p) ==
  LET m == mem[p]
      stored == files[Cyc(p)].judgment
      spent == RetryOpen(m) \/ FirstCallMade(m) \/ m.judged # "none"
  IN /\ At(p, "judge")
     /\ \/ stored # "none" /\ Jump(p, "judgmentFilter") /\ Got(p, stored)
        \/ /\ stored = "none" /\ spent
           /\ Remember(p, IF RetryOpen(m) THEN CloseRetry(m) ELSE m)
           /\ Continue(p, "fail") /\ UNCHANGED <<doc, job>>
        \/ /\ stored = "none" /\ ~spent
           /\ Persist(p, SetKey(m, "judgment:attempt1", "started"), "judgeFirst", "fail")
           /\ UNCHANGED job
        \/ Raise(p, "fail") /\ UNCHANGED <<doc, mem, job>>
     /\ UNCHANGED <<world, lock>>

\* The judge answers, or fails for reasons of its own.
InvokeJudge(p, l, next) ==
  /\ At(p, l)
  /\ calls' = [calls EXCEPT ![Cyc(p)].judge = @ + 1]
  /\ \/ \E answer \in Usable \cup {"invalid", "bad"} :
          Got(p, answer) /\ Continue(p, next) /\ UNCHANGED mem
     \/ /\ Remember(p, IF RetryOpen(mem[p]) THEN CloseRetry(mem[p]) ELSE mem[p])
        /\ Continue(p, "fail") /\ UNCHANGED job
  /\ UNCHANGED <<doc, kernel, backlog, files, latest, lock>>

JudgeFirst(p) == InvokeJudge(p, "judgeFirst", "judgeFirstSave")
JudgeAgain(p) == InvokeJudge(p, "judgeAgain", "judgeAgainSave")

SaveFirstAttempt(p) ==
  /\ At(p, "judgeFirstSave")
  /\ Persist(p, SetKey(mem[p], "judgment:attempt1", "completed"), "judgmentFilter", "fail")
  /\ UNCHANGED <<world, lock, job>>

SaveSecondAttempt(p) ==
  /\ At(p, "judgeAgainSave")
  /\ \/ job[p].got \in Usable /\ Persist(p, mem[p], "judgmentWrite", "fail")
     \/ job[p].got \notin Usable /\ Persist(p, mem[p], "judgmentReject", "fail")
  /\ UNCHANGED <<world, lock, job>>

RejectSecondAttempt(p) ==
  /\ At(p, "judgmentReject")
  /\ Remember(p, CloseRetry(mem[p]))
  /\ Continue(p, "fail")
  /\ UNCHANGED <<doc, world, lock, job>>

\* filterJudgment on the first answer or on an unclaimed judgment.json.
FilterJudgment(p) ==
  LET m == mem[p]
      answer == job[p].got
  IN /\ At(p, "judgmentFilter")
     /\ \/ answer \in Usable /\ Jump(p, "judgmentWrite")
        \/ /\ answer = "invalid" /\ MayRetry(m)
           /\ Persist(p, SetKey(m, "judgment:retry", "started"), "judgeAgain", "fail")
        \/ answer = "invalid" /\ ~MayRetry(m) /\ Jump(p, "fail")
        \/ answer = "bad" /\ Jump(p, "fail")
     /\ UNCHANGED <<world, lock, job>>

WriteJudgment(p) ==
  LET m == mem[p]
      agrees == m.judged \in {"none", job[p].got}
      written == [files EXCEPT ![Cyc(p)].judgment = job[p].got]
  IN /\ At(p, "judgmentWrite")
     /\ \/ ~agrees /\ Continue(p, "fail") /\ UNCHANGED <<files, mem>>
        \/ /\ agrees /\ files' = written
           /\ Remember(p, IF RetryOpen(m) THEN CloseRetry(m) ELSE m)
           /\ Continue(p, "judged")
        \/ agrees /\ files' \in {files, written} /\ Raise(p, "fail") /\ UNCHANGED mem
     /\ UNCHANGED <<doc, kernel, backlog, calls, latest, lock, job>>

SaveJudgment(p) ==
  LET m == [mem[p] EXCEPT !.judged = job[p].got]
  IN /\ At(p, "judged")
     /\ \/ Persist(p, m, "rankAdvance", "release")
        \/ m.judged = "select" /\ Remember(p, m) /\ Raise(p, "fail") /\ UNCHANGED doc
     /\ UNCHANGED <<world, lock, job>>

AdvanceToRank(p) ==
  /\ At(p, "rankAdvance")
  /\ Advance(p, "run:rank", "rankEnter")
  /\ UNCHANGED <<doc, mem, world, lock>>

EnterRanked(p) ==
  /\ At(p, "rankEnter")
  /\ Transition(p, mem[p], "ranked", "finishRanked")
  /\ UNCHANGED <<world, lock>>

\* Mutant: the mode is ignored.
ProposesInAnyMode(m) == m.judged = "select"

\* Shadow mode stops before anything is written to the backlog.
Proposes(m) == m.judged = "select" /\ m.mode # "shadow"

FinishRanked(p) ==
  LET m == mem[p]
  IN /\ At(p, "finishRanked")
     /\ \/ m.judged = "none" /\ Jump(p, "release")
        \/ m.judged # "none" /\ Jump(p, IF Proposes(m) THEN "proposal" ELSE "noop")
     /\ UNCHANGED <<world, lock, job>>

ObservationStep(p) ==
  \/ Start(p) \/ StartLatest(p) \/ EnsureCycleRun(p) \/ SaveCycleRun(p)
  \/ ContinueObservation(p) \/ EnterObserving(p)
  \/ CaptureObservation(p) \/ Observe(p) \/ WriteObservation(p)
  \/ ClaimRegistration(p) \/ SendRegistration(p) \/ SaveObservation(p)
  \/ ClaimJudgment(p) \/ JudgeFirst(p) \/ SaveFirstAttempt(p) \/ FilterJudgment(p)
  \/ JudgeAgain(p) \/ SaveSecondAttempt(p) \/ RejectSecondAttempt(p)
  \/ WriteJudgment(p) \/ SaveJudgment(p) \/ AdvanceToRank(p) \/ EnterRanked(p)
  \/ FinishRanked(p)
=============================================================================
