---------------------------- MODULE CycleService ----------------------------
(***************************************************************************)
(* The part of internal/cycle that every operation of the service shares:  *)
(* the canonical cycle document in Intercore, the portfolio lock, persist, *)
(* transition with its agency event, advanceOnce and fail.                 *)
(*                                                                         *)
(* A process p is one invocation of the remontoire command.  pc[p] is the  *)
(* place in the handler it runs, job[p] its operation and the registers of *)
(* the shared procedures, and mem[p] its own copy of the cycle, which the  *)
(* Go code reads once under the lock and then keeps.  One step performs at *)
(* most one call that leaves a durable effect.  Such a call succeeds, or   *)
(* reports an error, with or without having taken effect; each error and   *)
(* each crash spends one unit of the budget MaxFaults.                     *)
(***************************************************************************)
EXTENDS Domain, Sequences, FiniteSets

CONSTANTS
  Cycles,       \* cycle identifiers the operators may create
  Procs,        \* concurrent invocations of the command
  Modes,        \* the modes a cycle may be started in
  Discoveries,  \* discovery references in a candidate's evidence
  MaxFaults,    \* bound: failed calls and crashes in one behaviour
  Free, Stale,  \* the lock is free, or held by an invocation that is gone
  NoCycle       \* an idle process works on no cycle

ASSUME ServiceAssumption ==
  /\ Modes \subseteq {"proposal", "shadow"}
  /\ MaxFaults \in Nat
  /\ Free \notin Procs /\ Stale \notin Procs /\ Free # Stale
  /\ NoCycle \notin Cycles

VARIABLES
  doc,      \* canonical cycle documents, Intercore state "remontoire.cycle"
  kernel,   \* the rest of Intercore: run, events, replay inputs, receipts
  backlog,  \* the Beads issues of a cycle and the generated roadmap
  files,    \* artifacts under the cycle's directory that control flow reads
  calls,    \* how often each agent or benchmark has been invoked
  latest,   \* Intercore state "remontoire.latest" of the portfolio
  lock,     \* Intercore's portfolio lock
  pc, job, mem,
  faults

world == <<kernel, backlog, files, calls, latest>>
vars == <<doc, kernel, backlog, files, calls, latest, lock, pc, job, mem, faults>>

-----------------------------------------------------------------------------
(* The canonical document. *)

RunKeys == {"run:rank", "run:propose", "run:execute", "run:review", "run:compound"}
TerminalKeys == {"run:terminal:rank", "run:terminal:propose", "run:terminal:execute",
                 "run:terminal:review", "run:terminal:compound"}
Keys == RunKeys \cup TerminalKeys \cup
        {"observation:capture", "replay:observation", "judgment:attempt1",
         "judgment:retry", "replay:proposal-backlog", "decline:close",
         "execution:prepared", "execution:attempt", "benchmark:attempt",
         "review:attempt", "backlog:promotion", "backlog:close", "outcome:state",
         "roadmap:sync", "run:terminal", "receipt:attempt"}
Marks == {"none", "started", "completed"}

Judged == {"none", "noop", "select"}
Measured == {"none", "met", "missed"}
RoadmapView == {"none", "open", "closed"}
MaybeVerdict == Verdicts \cup {"none"}

CycleDoc ==
  [stage : Stages \cup {Absent}, mode : {"proposal", "shadow"}, run : BOOLEAN,
   observed : BOOLEAN, judged : Judged, bead : BOOLEAN, approved : BOOLEAN,
   declined : BOOLEAN, execution : BOOLEAN, transcript : BOOLEAN,
   measured : Measured, review : MaybeVerdict, final : MaybeVerdict,
   promotion : BOOLEAN, roadmap : RoadmapView, signed : Nat, digest : Nat,
   feedback : [Discoveries -> Marks], events : SUBSET Stages, key : [Keys -> Marks]]

NoDoc ==
  [stage |-> Absent, mode |-> "proposal", run |-> FALSE,
   observed |-> FALSE, judged |-> "none", bead |-> FALSE, approved |-> FALSE,
   declined |-> FALSE, execution |-> FALSE, transcript |-> FALSE,
   measured |-> "none", review |-> "none", final |-> "none",
   promotion |-> FALSE, roadmap |-> "none", signed |-> 0, digest |-> 0,
   feedback |-> [d \in Discoveries |-> "none"], events |-> {},
   key |-> [k \in Keys |-> "none"]]

SetKey(m, k, v) == [m EXCEPT !.key[k] = v]

-----------------------------------------------------------------------------
(* The services the cycle calls; none of them is code of this repository.  *)
(* RecordStageEvent and RecordDiscoveryFeedback carry idempotency keys that *)
(* Intercore honours, so what they record is a set.                        *)

ReplayKinds == {"components", "observation", "proposal-backlog"}

KernelInit ==
  [phase |-> Absent, events |-> {}, replays |-> [k \in ReplayKinds |-> 0],
   outcome |-> "none", feedback |-> {}, ledger |-> <<>>]
BacklogInit == [experiments |-> 0, closed |-> FALSE, promotions |-> 0, roadmap |-> "none"]
FilesInit ==
  [observation |-> FALSE, judgment |-> "none", backlog |-> FALSE, worktree |-> "clean",
   report |-> "none", measurement |-> "none", review |-> "none", roadmap |-> "none",
   digest |-> 0, receipt |-> NoDoc, signature |-> 0]
CallsInit ==
  [judge |-> 0, executor |-> 0, benchmark |-> 0, reviewer |-> 0, overBudget |-> FALSE]

NoJob == [op |-> "none", cyc |-> NoCycle, ret |-> "none", adv |-> "none", got |-> "none"]

ServiceInit ==
  /\ doc = [c \in Cycles |-> NoDoc]
  /\ kernel = [c \in Cycles |-> KernelInit]
  /\ backlog = [c \in Cycles |-> BacklogInit]
  /\ files = [c \in Cycles |-> FilesInit]
  /\ calls = [c \in Cycles |-> CallsInit]
  /\ latest = NoCycle
  /\ lock = Free
  /\ pc = [p \in Procs |-> "idle"]
  /\ job = [p \in Procs |-> NoJob]
  /\ mem = [p \in Procs |-> NoDoc]
  /\ faults = 0

-----------------------------------------------------------------------------
(* Control flow. *)

At(p, l) == pc[p] = l
Cyc(p) == job[p].cyc
Goto(p, l) == pc' = [pc EXCEPT ![p] = l]
Continue(p, l) == Goto(p, l) /\ UNCHANGED faults
Raise(p, l) == faults < MaxFaults /\ faults' = faults + 1 /\ Goto(p, l)
Call(p, procedure, k) ==
  /\ Goto(p, procedure)
  /\ job' = [job EXCEPT ![p].ret = k]
Got(p, value) == job' = [job EXCEPT ![p].got = value]
Remember(p, m) == mem' = [mem EXCEPT ![p] = m]

\* A step that only branches: the document, the world and the copy stay.
Jump(p, l) == Continue(p, l) /\ UNCHANGED <<doc, mem>>

\* persist: SetCycle, then the local projection.  The in-memory copy keeps
\* the change even when the call fails; an error after SetCycle took effect
\* covers a failing WriteCycle too.
Persist(p, m, next, onError) ==
  LET written == [doc EXCEPT ![Cyc(p)] = m]
  IN /\ Remember(p, m)
     /\ \/ doc' = written /\ Continue(p, next)
        \/ doc' \in {doc, written} /\ Raise(p, onError)

-----------------------------------------------------------------------------
(* The portfolio lock. *)

\* Where an operation starts once it holds the lock and re-read the cycle.
\* Start has no cycle to read; ResumeObservation first makes sure of the run;
\* every other operation first repairs the event of the current stage.
Body == [op \in {"start", "observe", "propose", "approve", "decline", "execute",
                 "review", "compound"} |->
           CASE op = "start"   -> "start"
             [] op = "observe" -> "ensureRun"
             [] OTHER          -> "event"]

\* Mutant: a lock that is held by a live invocation is granted again.
LockRegranted == lock # Stale

LockGranted == lock = Free

\* AcquireCycleLock: with a timeout of "0s" the call gives up at once, with
\* a longer one it waits; both are allowed.  Reading the cycle under the lock
\* may fail.  An error reported after the lock was taken leaves it to an
\* owner that is gone.
Acquire(p) ==
  /\ At(p, "acquire")
  /\ \/ /\ LockGranted
        /\ lock' = p
        /\ Call(p, Body[job[p].op], job[p].op)
        /\ Remember(p, doc[Cyc(p)])
        /\ UNCHANGED faults
     \/ /\ LockGranted
        /\ lock' = p
        /\ Raise(p, "release")
        /\ UNCHANGED <<job, mem>>
     \/ /\ LockGranted
        /\ lock' \in {Free, Stale}
        /\ Raise(p, "idle")
        /\ job' = [job EXCEPT ![p] = NoJob]
        /\ UNCHANGED mem
     \/ /\ lock # Free
        /\ Continue(p, "idle")
        /\ job' = [job EXCEPT ![p] = NoJob]
        /\ UNCHANGED <<lock, mem>>
  /\ UNCHANGED <<doc, world>>

\* The deferred ReleaseCycleLock of every operation.
Release(p) ==
  /\ At(p, "release")
  /\ \/ lock' = Free /\ Continue(p, "idle")
     \/ lock' = Stale /\ Raise(p, "idle")
  /\ job' = [job EXCEPT ![p] = NoJob]
  /\ Remember(p, NoDoc)
  /\ UNCHANGED <<doc, world>>

\* The invocation is killed.  Nothing in memory survives and nobody releases
\* the lock it may hold.
Crash(p) ==
  /\ pc[p] # "idle"
  /\ Raise(p, "idle")
  /\ lock' = IF lock = p THEN Stale ELSE lock
  /\ job' = [job EXCEPT ![p] = NoJob]
  /\ Remember(p, NoDoc)
  /\ UNCHANGED <<doc, world>>

\* Intercore (or its operator) breaks a lock whose owner is gone.
ReclaimLock ==
  /\ lock = Stale
  /\ lock' = Free
  /\ UNCHANGED <<doc, world, pc, job, mem, faults>>

-----------------------------------------------------------------------------
(* transition, ensureStageEvent and fail. *)

\* Mutant: the edge is not validated.
TransitionUnchecked(p, m, next, k) ==
  /\ Persist(p, [m EXCEPT !.stage = next], "event", "release")
  /\ job' = [job EXCEPT ![p].ret = k]

\* transition validates the edge, changes the stage in memory, persists, and
\* goes on to ensureStageEvent, which returns to k.
Transition(p, m, next, k) ==
  IF ValidateTransition(m.stage, next)
  THEN /\ Persist(p, [m EXCEPT !.stage = next], "event", "release")
       /\ job' = [job EXCEPT ![p].ret = k]
  ELSE /\ Remember(p, m)
       /\ Continue(p, "release")
       /\ UNCHANGED <<doc, job>>

\* Mutant: the event of any earlier stage passes for the current one.
AnyEventRecorded(m) == m.stage = "new" \/ m.events # {}

EventRecorded(m) == m.stage = "new" \/ m.stage \in m.events

\* ensureStageEvent, first half: RecordStageEvent unless its key is set.
EnsureStageEvent(p) ==
  LET c == Cyc(p)
      m == mem[p]
      recorded == [kernel EXCEPT ![c].events = @ \cup {m.stage}]
  IN /\ At(p, "event")
     /\ \/ EventRecorded(m) /\ Continue(p, job[p].ret) /\ UNCHANGED kernel
        \/ ~EventRecorded(m) /\ kernel' = recorded /\ Continue(p, "eventSave")
        \/ ~EventRecorded(m) /\ kernel' \in {kernel, recorded} /\ Raise(p, "release")
     /\ UNCHANGED <<doc, backlog, files, calls, latest, lock, job, mem>>

\* ensureStageEvent, second half: the key, persisted.
SaveStageEvent(p) ==
  /\ At(p, "eventSave")
  /\ Persist(p, [mem[p] EXCEPT !.events = @ \cup {mem[p].stage}], job[p].ret, "release")
  /\ UNCHANGED <<world, lock, job>>

\* fail: whatever the handler has in memory is persisted with stage failed.
Fail(p) ==
  /\ At(p, "fail")
  /\ IF mem[p].stage \in {"failed", "completed"}
     THEN Jump(p, "release") /\ UNCHANGED job
     ELSE Transition(p, mem[p], "failed", "release")
  /\ UNCHANGED <<world, lock>>

-----------------------------------------------------------------------------
(* advanceOnce. *)

Target ==
  [k \in RunKeys \cup TerminalKeys |->
     CASE k \in {"run:rank", "run:terminal:rank"}       -> "rank"
       [] k \in {"run:propose", "run:terminal:propose"} -> "propose"
       [] k \in {"run:execute", "run:terminal:execute"} -> "execute"
       [] k \in {"run:review", "run:terminal:review"}   -> "review"
       [] OTHER                                         -> "compound"]

Advance(p, k, cont) ==
  /\ Continue(p, "advance")
  /\ job' = [job EXCEPT ![p].adv = k, ![p].ret = cont]

\* Only the observation handler turns an advance error into a failed cycle.
AdvanceError(k) == IF k = "run:rank" THEN "fail" ELSE "release"

\* advanceOnce up to the point where the run is known to need the step.
BeginAdvance(p) ==
  LET k == job[p].adv
      m == mem[p]
      phase == kernel[Cyc(p)].phase
      done == m.key[k] = "completed"
  IN /\ At(p, "advance")
     /\ \/ done /\ Jump(p, job[p].ret)
        \/ ~done /\ Raise(p, AdvanceError(k)) /\ UNCHANGED <<doc, mem>>
        \/ /\ ~done /\ phase = Target[k]
           /\ Persist(p, SetKey(m, k, "completed"), job[p].ret, AdvanceError(k))
        \/ ~done /\ phase \notin {Target[k], PreviousPhase[Target[k]]} /\ Jump(p, AdvanceError(k))
        \/ /\ ~done /\ phase # Target[k] /\ phase = PreviousPhase[Target[k]]
           /\ IF m.key[k] = "started"
              THEN Jump(p, "advanceRun")
              ELSE Persist(p, SetKey(m, k, "started"), "advanceRun", AdvanceError(k))
     /\ UNCHANGED <<world, lock, job>>

\* AdvanceRun and the look at the phase after it.  An error is forgiven when
\* the run is seen to have reached the target.
AdvanceRun(p) ==
  LET c == Cyc(p)
      k == job[p].adv
      advanced == [kernel EXCEPT ![c].phase = NextPhase[@]]
  IN /\ At(p, "advanceRun")
     /\ \/ kernel' = advanced /\ Continue(p, "advanceSave")
        \/ kernel' = advanced /\ \E l \in {"advanceSave", AdvanceError(k)} : Raise(p, l)
        \/ UNCHANGED kernel /\ Raise(p, AdvanceError(k))
     /\ UNCHANGED <<doc, backlog, files, calls, latest, lock, job, mem>>

FinishAdvance(p) ==
  LET k == job[p].adv
  IN /\ At(p, "advanceSave")
     /\ Persist(p, SetKey(mem[p], k, "completed"), job[p].ret, AdvanceError(k))
     /\ UNCHANGED <<world, lock, job>>

\* The steps a holder of the lock takes inside the shared procedures.
ServiceStep(p) ==
  \/ Acquire(p) \/ Release(p)
  \/ EnsureStageEvent(p) \/ SaveStageEvent(p) \/ Fail(p)
  \/ BeginAdvance(p) \/ AdvanceRun(p) \/ FinishAdvance(p)
=============================================================================
