# Remontoire in TLA+

Remontoire runs *portfolio cycles*: it observes a backlog, has an agent judge
which experiment should come next, waits for a principal's approval, has an
agent carry the experiment out within a contract, has another agent review it,
and compounds the result into the backlog, the outcomes and a roadmap, under a
signed receipt. Every command is a short-lived process that picks up a *cycle
document* from Intercore, does some steps with external effects, and may die
between any two of them. This project models that core: which steps are taken,
in which order, under which guards, and what every crash, lost answer, repeated
command or concurrent command can do to it. Around the core it models the parts
whose data decide what the core takes for granted: the run of a cycle, the
calls of the agents, the filter of a judgment, the worktree, the benchmark, the
evidence with its replay, and the strict decoder.

## 1. Inventory

### Components, their state and their operations

| Component | Code | State it keeps | Operations | What makes it correct |
|---|---|---|---|---|
| Stage machine | `internal/domain` | a cycle's stage | `ValidateTransition` | only legal edges, from whichever process and copy |
| Service core | `cycle/service.go`, `propose.go:184-249`, `review.go:877-913` | cycle document in Intercore, portfolio lock | persist, transition, event, fail, advanceOnce, lock and release | one writer; no stage without event; run and cycle in step |
| Observation | `cycle/observation_resume.go`, `observe.go` | observation, judgment, their claims | Start, ResumeObservation | captured and registered once; two judge calls at most |
| Proposal | `cycle/propose.go` | experiment bead, backlog snapshot | ResumeProposal | one experiment per fingerprint |
| Decision | `cycle/execution.go:24-81`, `decline.go` | approval, decline record | Approve, Decline | a decision is final; a bead is closed for a cause |
| Execution | `cycle/execution.go:83-439` | worktree, report, measurement | Execute | approved, once, in paths and budget |
| Review | `cycle/review.go:45-201` | review, resolution | Review | once; promotion only on cited evidence |
| Compound | `cycle/review.go:203-319, 534-1035`, `receipt/writer.go` | promotion bead, outcome, feedback, roadmap, receipt, signature | Compound | one of each; signed last; signature binds content |
| Commands | `internal/app/app.go` | none | cycle, approve, decline, resume | every unfinished cycle finds its operation |
| Intercore adapter | `adapters/intercore.go` | runs, documents, events, receipts | CreateCycleRun and thin calls | keyed or looked up before repeated |
| Git worktrees | `adapters/worktree.go` | a worktree and its index | Prepare, ChangedPaths, Patch, CheckAllowedPaths | what is checked is what is recorded |
| Process runner | `adapters/runner.go` | two bounded streams | Run | nothing is lost unreported |
| Other adapters | `adapters/beads.go`, `roadmap.go`, `ockham.go` | Beads, roadmap, policy | thin calls | looked up before repeated |
| Agents | `internal/harness`, `domain/usage.go` | a transcript | Judge, Execute, Review | started once per call, within budget, counted in full |
| Judgment filter | `cycle/observation_resume.go:284-587`, `propose.go:251-351`, `domain/validate.go:239-307` | judgment.json | filter, replace, check, reload | nothing disappears; the best that is left is chosen |
| Benchmark and promotion | `cycle/execution.go:275-438`, `domain/validate.go:112-155, 360-400` | measurement, streams | measure, restore, ValidatePromotion | a promotion is earned by what was measured |
| Artifacts | `cycle/store.go`, artifacts of `domain.Cycle` | files, digests | write, append, bind, restore | one of each kind, never changed behind its digest |
| Offline replay | `app/replay.go`, `cycle/replay_validation.go` | none | receipt replay | accepts every receipt that is signed |
| Strict JSON decoder | `internal/strictjson` | none | duplicate keys, aliases, unknown fields | what was checked is what is decoded |
| Read-only commands, config, installer, systemd, schemas, prompts | several | none | - | outside the model, see section 8 |

### How they interact

The operations of `cycle.Service` share one document per cycle. An operation
takes the portfolio lock, reads the document *once* under the lock, and works on
that copy. The copy is written back as a whole by `persist`, many times in one
operation, each time before or after one external effect. Every operation but
Start also reads the document before the lock; three of them (Execute, Review,
Compound) decide on that first copy whether to go on at all. The two halves of an effect
(the call and the record of the call) are never atomic: the code claims first
("started"), calls, then records ("completed"), or it looks the effect up before
it repeats it. Which of the two it does differs from effect to effect, and that
is where the hard behaviours are:

* a crash, an error, or an error *with* effect between claim, call and record;
* another invocation that waits for the lock with a stale opinion;
* an abandoned lock;
* a `fail` that persists whatever the copy holds, and may itself fail;
* results left on disk by a lost invocation and adopted by the next one;
* the order of the end: consequences, run, receipt, signature, stage, event.

`PROJECT.json` lists these hazards line by line with the properties that cover
them.

## 2. Modules

| Module | Models |
|---|---|
| `Domain` | stages, verdicts, the transition table, the phases of the run, the promotion veto |
| `StageMachine` | the abstract specification: a cycle is created once and moves along legal edges |
| `CycleService` | all variables; persist, transition, ensureStageEvent, fail, advanceOnce, lock, crash |
| `CycleObservation` | Start, ResumeObservation, capture, judgment, ranking |
| `CycleProposal` | ensureProposal, backlog snapshot, no-op |
| `CycleDecision` | Approve and Decline |
| `CycleExecution` | Execute, benchmark |
| `CycleReview` | Review |
| `CycleCompound` | Compound, terminalizeRun, receipt |
| `Remontoire` | the composition: commands, routing, pre-lock checks, `Next`, `Spec`, `FairSpec` |
| `CycleProperties` | every property, and the refinement mapping to `StageMachine` |
| `MCRemontoire` | the instance for TLC |
| `CycleInvariant` | the inductive invariant and what one step does to it |
| `CycleClaims` | the inductive invariants behind the safety properties, one per theme |
| `StepProofs` | lemmas: what each step does to documents, services, places and registers |
| `CycleProofs`, `SafetyProofs`, `ConsequenceProofs` | theorems of the core: lock, types and stages; what happens at most once and with authority; phases, consequences and signature |
| `CommandRunner` | `ExecRunner.Run`: one external command, its context, its two streams in one bounded buffer |
| `CodexCall` | one call of Codex over the runner: the pool, the one fallback, turns and tokens |
| `ClaudeCall` | one call of Claude: the review's repair, the budget, the cost |
| `JudgmentFilter` | what becomes of a judge's answer until it is recorded, and of judgment.json after a crash |
| `KeyedRun`, `RunCreation` | what the program believes of run creation, and how CreateCycleRun achieves it |
| `Worktree` | Prepare, the executor's edits, the inspection and the patch |
| `Benchmark` | the benchmark over the runner, the metric, and the verdict that rests on it |
| `Evidence` | files, artifacts and digests through every operation, the receipt and its replay |
| `StrictJSON` | the decoder's checks and, external, what `encoding/json` decodes |
| `MCAgents`, `MCAnswers`, `MCExperiment`, `MCRecords` | instances for TLC, two of these modules each |
| `AgentProofs`, `FilterProofs`, `ExperimentProofs`, `RecordProofs` | theorems about the modules around the core |

The core composes the operations of the service. The other modules each refine
one place of it: what the core leaves to a free choice between outcomes is there
computed from the data the code computes it from. `CodexCall` and `Benchmark`
are composed with `CommandRunner` by extending it, and their steps contain its
steps. They are not one specification with the core: their states together are
far beyond TLC, and what connects them is listed below.

An MC module for these puts two neighbours side by side: it EXTENDS one, INSTANCEs
the other, and a variable chosen at the start says of which one a behaviour is,
while the other stays in one of its initial states. That is sound because the two
share no state: `MCAgents` (a call goes to Codex or to Claude), `MCAnswers` (an
answer is read, and a judgment, whatever was read, is filtered), `MCExperiment`
(the worktree, and the benchmark on the accepted tree), `MCRecords` (the run in
Intercore and the evidence on disk).

| Choice in the core | Decided by | In |
|---|---|---|
| an agent answers, fails, or answers nothing usable | `CodexCall`, `ClaudeCall` | `Judge*`, `Execute*`, `Review*` steps |
| a judgment is `select`, `noop`, `invalid` or `bad` | `JudgmentFilter` | `CycleObservation` |
| a run is created, with or without an answer | `RunCreation` | `CycleObservation` |
| the worktree is `allowed` or `stray` | `Worktree` | `CycleExecution` |
| the measurement meets the target or misses it | `Benchmark` | `CycleExecution`, `Domain!FinalVerdict` |
| evidence on record is intact, a receipt is built | `Evidence` | `CycleReview`, `CycleCompound` |

### State and code

| Variable | Stands for |
|---|---|
| `doc[c]` | the cycle document in Intercore (`domain.Cycle`): stage, mode, which evidence it holds, `key` for `IdempotencyKeys`, `events` for its `event:*` keys, `feedback` for its `feedback:*` keys |
| `kernel[c]` | the rest of Intercore: phase of the run, agency events, replay inputs (counted, since the call has no key), outcome, feedback, ledger of receipts |
| `backlog[c]` | the experiment and promotion beads of the cycle, whether the experiment is closed, and the generated roadmap as it shows this |
| `files[c]` | the artifacts of the cycle that control flow reads back |
| `calls[c]` | how often each agent ran, and whether the executor exceeded its budget; only properties read it |
| `latest` | `remontoire.latest` |
| `lock` | the portfolio lock: free, held by an invocation, or `Stale` |
| `pc[p]`, `job[p]`, `mem[p]` | where invocation p is, its operation and registers, its copy of the document |
| `faults` | errors and crashes so far |

An invocation `p` is one run of the command. `pc[p]` names the next step, and one
step makes at most one call with a durable effect, together with the branches
before and the assignments after it. Such a call succeeds, or fails without
effect, or fails *with* effect; the handler sees the same error in both failing
cases. The register `job[p].got` carries an input across steps: an agent's
answer, the usage of the executor, or, for Decline, that the actor or reason
differ from the recorded ones.

A `resume` loops over operations and re-reads the document each time; one round
of the loop is one invocation here. The same holds for the Compound that follows
`cycle`, `decline` and a failed operation (`signFailedCycle`). The run's steps in
`terminalizeRun` are one action taken again for each phase.

### Abstractions

* The content of observations, judgments, contracts, reviews and receipts is
  reduced to what branches depend on. A judgment is `select`, `noop`, `invalid`
  (all opportunities rejected) or `bad`; a review is a verdict or `uncited`; a
  measurement meets its target or misses it; the worktree is as contracted and
  reported (`allowed`) or `stray`.
* Agents may answer anything their callers distinguish, fail, and leave their
  output file in any state the harness allows.
* A receipt is the document as it was when it was built; its digest is a fresh
  number for each build, because each build carries a new terminal time.
* Intercore's lock is exclusive and does not expire under a living holder. Its
  `ic state set` and `ic run create` are atomic; run creation, stage events and
  feedback are keyed, replay inputs and receipts are not.
* `approval.json`, `decline.json`, the local projection of the document, stdout
  files, patches and notes are written and never read by control flow.
* The bookkeeping around usage, timestamps and failure messages is left out.

The other modules abstract in their own ways:

* `CommandRunner`, `CodexCall`: output is counted in lines, a write of the command
  is one step (the code holds the mutex for it), and a limit cuts in the middle of
  a write. Assumed of `bb`: one marker before the provider is started, none after
  a refusal. Assumed of Codex: `turn.started` before a turn spends anything,
  `turn.completed` after it. Both may hang, die, or run on when the command is
  killed, and keep the pipes open that `Run` waits for (`held`, no `WaitDelay` is
  set). What such a descendant writes counts as written before the command's end;
  the runner reads exit status and output only when both are final. Codex's answer
  file, read with plain `json.Unmarshal`, is left out.
* `ClaudeCall`: money in whole units; the last turn may overrun its budget.
* `JudgmentFilter`: an opportunity is what the filter asks of it; the tolerance of
  1e-9 is one unit of score, so that "better" is not transitive here either.
* `RunCreation`: the scope and project of a run are the cycle's unless an operator
  altered the run. A killed `ic run create` may commit later (`MaxOrphans`).
* `Worktree`: a file's content is the path it was committed at, or new; a new one
  may be similar to a committed file (`like`). `git diff --name-only` names a file
  that was moved, and perhaps edited, by its new path once the index knows it. Every
  git call, and the write of the patch, may fail and with it the cycle.
* `Benchmark`: numbers are small integers, a document two lines; what is not one
  document is unreadable. A review is a verdict; the reviewer may write the file
  Review recovers from before it answers, hang, or be cut off.
* `Evidence`: a digest is a number that is fresh for each content. The second judge
  attempt, raw attempts, and the reviewer's transcript are left out, and so are
  transitions that touch no evidence, which are taken with the next record. Nobody
  changes files behind the program. `Routes` is what a command does that finds the
  stage it looked for; `Outrun` is Execute or Review on a cycle that failed while
  they waited for the lock.
* `StrictJSON`: a few keys and values; `encoding/json` is modelled as documented
  (case-insensitive match, the last one wins). Trailing data is left out. State,
  agent envelopes and answers pass the alias and unknown-field checks modelled
  here; configuration, replay and snapshots only the check for duplicate keys.

## 3. Properties

Those of the core are in `CycleProperties`, the others at the end of their
modules, each with the behaviour it is about.

| Property | Kind | Says |
|---|---|---|
| `TypeOK` | type invariant | - |
| `MutualExclusion` | invariant | whoever is inside an operation holds the lock |
| `OnlyHolderWrites` | action | no durable change but by the holder |
| `StagesLegal` | refinement | `StageMachine!Spec` |
| `StagesReported` | action | no stage is left without its event |
| `RunTracksStage` | invariant | the run's phase is that of the stage, or one ahead |
| `InvokedAtMostOnce` | invariant | one executor, benchmark and reviewer run, two judge calls |
| `RegisteredAtMostOnce` | invariant | each replay input registered once |
| `OneBeadEach`, `OneReceipt` | invariants | no duplicate bead, no second receipt |
| `OneExperimentPerFingerprint` | invariant | across cycles |
| `ExecutionAuthorised` | invariant | approved, not shadow, not declined |
| `ShadowOnlyWatches` | invariant | shadow mode writes no backlog |
| `PromotionJustified` | invariant | approval, transcript, target met, paths, budget, review |
| `ClosedForCause` | invariant | a verdict or a decline |
| `SignedAfterConsequences` | invariant | everything in place before the signature |
| `SignatureBinds` | invariant | document, file, ledger and signature agree |
| `SignedFrozen` | invariant | a signed document still says what was signed (`OneInvocation`) |
| `EveryCycleSettles` | liveness | signed, awaiting the principal, or indeterminate |

| Module | Property | Kind | Says |
|---|---|---|---|
| `CodexCall` | `CaptureFaithful` | invariant | two streams within one limit; nothing cut without a report |
| | `StartedAtMostOnce` | invariant | the provider runs once, whatever the pool did |
| | `SuccessMeansRan` | invariant | a success is of a provider that ran and ended |
| | `UsageComplete` | invariant | reported tokens are all that was spent, turns too unless a line was too long |
| | `PoolBounded` | liveness | a call that hangs in the pool leaves it, unless its pipes are held open for ever |
| `ClaudeCall` | `WithinBudget` | invariant | both attempts together cost no more than one may, and a reported cost is that of both |
| `JudgmentFilter` | `ReplacementRanked` | invariant | a replaced selection passes the ranking check |
| | `ReloadIsStable` | invariant | a stored judgment filtered again is unchanged |
| `StrictJSON` | `OrderIrrelevant` | invariant | the decoded value does not depend on key order |
| | `NothingIgnored` | invariant | unknown keys decode to nothing, and Claude's answer has none |
| `Worktree` | `PatchFaithful` | invariant | the patch stays within the allowed paths and gives, on the base on record, the tree that was inspected |
| | `RecoveryKeepsResult` | invariant | what passed an inspection is not rejected by a later one, unless git takes a new file for a renamed one |
| `Benchmark` | `VerdictEarned` | invariant | a promotion showed target and progress; an override has a failure or a miss |
| | `MeasurementReproducible` | invariant | the stored streams give the value on record |
| | `MeasurementUsed` | liveness | a stored measurement comes to a verdict or the cycle fails, unless its review is indeterminate |
| `RunCreation` | `ReconciliationFinds` | action | "no run" is said only when there is none |
| | `CreationAnswered` | liveness | a cycle gets its run |
| | `CreatesKeyed` | refinement | `KeyedRun!Spec` |
| `Evidence` | `EvidenceFrozen` | invariant | one artifact of a kind, and no file changes behind it, unless a command has run on a failed cycle |
| | `SignedReplays` | invariant | every signed receipt replays, with the same exception |
| | `CompoundingStands` | invariant | what Review accepts, Compound accepts |

`JudgmentFilter` also states `SelectionSurvives`, `EachAccountedFor` and
`OnlyEligibleKept`, and `RunCreation` states `OneRun`: these are proved for every
instance (section 5) and need no run. `EachAccountedFor` says that what is kept is,
in order and normalized, exactly the inspected opportunities that fit, and that the
indices on record as rejected are exactly those of the others.

`CreatesKeyed` and its neighbours promise something *until a creation outlives its
invocation* (`outlived`). Intercore has no key that would tell the late creation
from the repeated one, so after that a cycle may have two runs; `KeyedRun` has the
step `Lapse` for it, which a key would make unnecessary. The program does not
choose between two runs, it fails.

## 4. Runs

The runs of the core use `MCRemontoire`, which gives every cycle the same
fingerprint.

| Run | Instance | Distinct states | Shows |
|---|---|---|---|
| `OneInvocation` | 1 cycle, 1 invocation at a time, both modes and decisions, 1 discovery, 2 faults, fairness | about 337,000 | the invariants of a cycle that is interrupted and resumed, and that it settles |
| `TwoInvocations` | 2 cycles, 2 concurrent invocations, proposal mode, both decisions, no discovery, 1 fault, symmetry, `Meeting` | about 802,000 | lock, single writer, no double invocation, authority, approval against decline, deduplication, refinement |
| `Agents` | Codex: a limit of 4 lines, 4 lines per stream, 2 turns, counts up to 1; Claude: a budget of 3, overrun 1 | about 1,387,000 | single start, capture, usage, the pool's deadline; budget and cost over a repair |
| `Answers` | up to 4 of 7 opportunities, tolerance 1; objects of 2 keys, 3 levels, 6 types | about 1,335,000 | filter, replacement, reload; the decoder against `encoding/json` |
| `Experiment` | 5 paths, 2 edits, 1 crash or failed call, 2 commits; values 0 to 2, 2 lines of 2, 2 faults | about 1,464,000 | the patch and its base, recovery; promotion and veto, the use of a measurement |
| `Records` | 4 faults and 2 orphans in the creation; 2 faults in the evidence, 2 sections on a failed cycle | about 237,000 | one keyed run; evidence through every ending, and its replay |
| `ActiveCycles`, `DeclinedExecution`, `StaleExecution`, `RecoveredBudget`, `LastEvent`, `JudgeRetry` | as small as the case allows | - | section 7 |

`Meeting` (a CONSTRAINT of `TwoInvocations`, in `MCRemontoire`) cuts off what this
run is not about: once a second cycle is under way, only states without a fault
and without an approved cycle are followed, and a decline is followed without a
fault. What is left is one cycle with an approval and one fault under two
invocations, approval against decline on one cycle, and two cycles up to the
decision, which is where deduplication happens. Two cycles that both execute, or
with faults, are beyond a few minutes; `OneInvocation` has two faults around a
decline. The constraint cuts states off and adds none, and no liveness property is
checked under it.

**Bounds.** `MaxFaults` bounds errors and crashes; two are enough to interrupt an
operation and then the recovery of that interruption, which is the deepest
nesting the code distinguishes (a claim has three values). Operations and
commands are not bounded: an operation that does not fail does not repeat an
effect, which is why the state space is finite. Two cycles suffice for
deduplication, which is a relation of two cycles; two invocations for the lock
and for stale copies. A second
discovery adds only further rounds of `compoundFeedback`'s loop.

`SignedFrozen` and the other receipt properties run with one invocation at a
time. The stale Execute of section 7 can run the executor for a cycle that has
failed and been signed, and its results then change the signed document.

In the other modules: four lines of output under a limit of four let either
stream overrun the limit alone or with the other; two turns give a turn that is
lost before a complete one, and a count of 1 as the largest overflows at the second
turn. Four opportunities leave three when the selected one is rejected, which
intransitive comparison needs; scores 0, 1, 2 under a tolerance of 1 have every
pattern of ties. Objects of two keys hold a repeated key, a pair of spellings, or a
stranger beside a field, at each level. A run creation needs a fault in the listing, the creation and
the second listing, and one more for the retry. Two edits make a move, two
commits a base that is stale, one crash is enough for a second `Prepare` or a
second inspection. Three values miss, meet and exceed a target. Two faults in
`Evidence` interrupt a recovery; three have been checked as well (910,000 states).
Two late sections are an Execute that goes on to its benchmark.

**Symmetry** is used only where safety is checked: cycles and invocations are
interchangeable in every definition (`Fingerprint` is constant there).

**Deadlock** is checked in every run: a principal may always ask for a decision on
an existing cycle, so the core never stops; a call that has returned, a creation
that has been answered, a document that has been read and a cycle whose evidence is
complete or indeterminate stay as they are by explicit steps.

**Fairness.** `WF(Step(p))`: a process that runs goes on, until it ends or is
killed. `SF(Resume(p))`: the operator, or the timer, runs `resume` for an
unfinished cycle again and again; strong fairness because a decision command may
occupy the process in between. `WF(ReclaimLock)`: the lock of a dead invocation
is eventually broken, by Intercore or by hand; without that a single crash ends
all progress, since nothing in this code breaks a lock. No fairness is assumed of
principals, agents' answers or faults.

`CodexCall` assumes that the code's own steps are taken, that the deadline of the
pool's context expires (`context.WithTimeout`) and that a killed command ends;
nothing of the pool, of the provider or of what they start: they may hang and keep
the pipes open. `RunCreation` assumes that an adapter's steps are taken, that each
listing comes to an end either way, that a failed command is run
again (the timer or the operator, as above) and that a creation that is running
commits if it is left alone; its failures are bounded by `MaxFaults`, so they end.
`Benchmark` assumes that Execute and Review go on and are resumed, not that the
benchmark command ends by itself or that the reviewer answers. In a run of two modules the fairness is that of
the module the behaviour is of.

**Mutants.** For every property `PROJECT.json` names a plausible slip in the code
(a dropped guard, a wrong comparison, a reset left out) under which TLC finds the
property violated. Definitions marked `Mutant:` in the modules are these.

## 5. What is proved

TLAPS proves 39 theorems: 33 of the 35 invariants of section 3, and all of its
properties of steps and refinements. All but one of them (`SignedFrozen`, below) hold of
the specification without a condition. Every one is for all values of the constants:
any sets of cycles, invocations and discoveries, any number of faults, transcripts and
judgments of any length, any files, budgets and metrics. They rest on the
assumptions the modules state about their constants and on nothing else. For the
core these are `ServiceAssumption` (modes; a natural fault bound; `Free`, `Stale`
and `NoCycle` are distinct from what they could be mistaken for),
`FingerprintAssumption` and `DecisionsAssumption`.

Every inductive invariant named below was first checked by TLC, those of the core
completely for one invocation at a time (355,689 states) and as far as five
minutes go for two (1,650,000 states), the two added last (`RunInv` and `FrozenInv`)
completely for one (336,753 states) and for two as long as `Timely` holds; several clauses are there because TLC
or a proof obligation showed that an earlier form was not inductive.

### The core

| Theorem | Statement |
|---|---|
| `CycleProofs!LockExcludes` | `Spec => []MutualExclusion` |
| `CycleProofs!HolderWrites` | `Spec => OnlyHolderWrites` |
| `CycleProofs!TypeCorrect` | `Spec => []TypeOK` |
| `CycleProofs!StagesImplementMachine` | `Spec => StagesLegal` |
| `SafetyProofs!AtMostOnce` | `Spec => []InvokedAtMostOnce` |
| `SafetyProofs!RegisteredOnce` | `Spec => []RegisteredAtMostOnce` |
| `SafetyProofs!OneBead` | `Spec => []OneBeadEach` |
| `SafetyProofs!OneExperiment` | `Spec => []OneExperimentPerFingerprint` |
| `SafetyProofs!EveryLeftStageReported` | `Spec => StagesReported` |
| `SafetyProofs!ExecutionUnderApproval` | `Spec => []ExecutionAuthorised` |
| `SafetyProofs!ShadowWatches` | `Spec => []ShadowOnlyWatches` |
| `SafetyProofs!PromotionsJustified` | `Spec => []PromotionJustified` |
| `SafetyProofs!ReceiptOnce` | `Spec => []OneReceipt` |
| `SafetyProofs!SignatureBound` | `Spec => []SignatureBinds` |
| `ConsequenceProofs!RunTracks` | `Spec => []RunTracksStage` |
| `ConsequenceProofs!ClosuresCaused` | `Spec => []ClosedForCause` |
| `ConsequenceProofs!SignedLast` | `Spec => []SignedAfterConsequences` |
| `ConsequenceProofs!SignedStands` | `Spec /\ []Timely => []SignedFrozen` |
| `ConsequenceProofs!SignedStandsAlone` | one invocation at a time: `Spec => []SignedFrozen` |

**The lock.** `MutualExclusion` is inductive once `DOMAIN pc` is known: a
step of `p` from inside an operation keeps the lock or leaves; `Acquire` enters
only with the lock free; `Crash` and a failed `Release` leave both the operation
and the lock (`Stale`); `ReclaimLock` needs a stale lock. `OnlyHolderWrites`
follows from it, action by action.

**Types and stages** (`CycleInvariant`). `TypeOK` alone is not inductive: that
`FinishAdvance` writes a well-typed key needs that `job[p].adv` holds one there.
`StagesLegal` needs much more. The code validates the edge from the stage *of its
copy*, so the claim about the document is true only because, while an invocation
is inside an operation, its copy has the document's stage. `CycleInv` says so:
`Coherent` (copy and document agree in stage everywhere but on the way out, where
a failed write may have left them apart), `Registers` (what each place finds in
the registers) and `Entered` (an operation other than Start has a document; a
cycle being started is nobody else's). A step of `p` keeps `Coherent(q)` for
another `q` because `q` is then not inside (the lock), so `CycleInv` is inductive
relative to `MutualExclusion`.

`StepProofs` has three lemmas for the steps of each handler module, kept apart
because they need different facts: what they do to documents and copies, to
services, files and counters, and to place and registers. `CycleProofs` joins them
with the steps outside the handlers into the invariance of `CycleInv`, and derives
the refinement: `Create` is the first persist of Start, `Move` a persist in
`transition`, everything else a stutter.

**What a document says of the world** (`CycleClaims`). The other safety properties
relate a document to Intercore, the backlog, the files and the counters of what
was invoked. A recovery trusts only the document, so each property becomes a fact
of the form "as long as the document does not say so, nothing has happened", or
"once the document says so, it has". Each invariant of `CycleClaims` has the same
three parts:

* the facts, for the canonical document of every cycle;
* the same facts for the copy of an invocation that is inside an operation. They
  are separate because a copy runs ahead of the document when a write has failed,
  and the document keeps the older claim, under which the same facts must hold;
* what an invocation relies on at the places it has reached: what it has just
  read, claimed or been answered, which the lock keeps true until it is used.

The invariants, in the order in which each may use those before it:

| Invariant | Its facts | Gives |
|---|---|---|
| `ClaimInv` | a count is zero as long as its claim is `none`; a finished claim has its result | `InvokedAtMostOnce`, `RegisteredAtMostOnce` |
| `BeadInv` | a bead that was not there at the listing is not there at the creation | `OneBeadEach`, `OneExperimentPerFingerprint` |
| `ReportInv` | the events on record are among Intercore's; past its report, a stage is among them | `StagesReported` |
| `AuthorityInv` | committed stages are of proposal mode and have their bead; an execution claim has its approval; what an operation knew when it was chosen | `ExecutionAuthorised`, `ShadowOnlyWatches` |
| `EvidenceInv` | a transcript is of an execution within its paths and budget; a final verdict is the reviewer's, or a veto; the copy of a file in the document is the file | `PromotionJustified` |
| `ReceiptInv` | a claimed receipt has the file's digest, the ledger nothing or exactly that, the signature the ledger's | `OneReceipt`, `SignatureBinds` |
| `PhaseInv` | a run key that is completed has the run at its phase or beyond | `RunTracksStage` |
| `ConsequenceInv` | a completed consequence is in place; a claimed receipt has them all | `ClosedForCause`, `SignedAfterConsequences` |
| `RunInv` | a stage after the first has a run; in the first stage only the observation goes on | used by `FrozenInv` |
| `FrozenInv` | under `Timely`: once the receipt is claimed, the file has the document's content, the run has ended, and a handler is where nothing is left to do | `SignedFrozen` |

`BeadInv` is where the lock carries a property by itself: a listing of
the backlog is used steps later, and nothing but the lock keeps a second cycle of
the same fingerprint from creating the bead in between. `StagesReported` and
`RunTracksStage` do not follow from a handler's text: `advanceOnce` and `event` are
shared by all of them and return to where the registers say, so the invariants
need which handler a place belongs to, where it is heading (`Heading`), and along
which edges (`Edges`, `Flow`).

That a step of `p` leaves the invariant's instance for another invocation and
another cycle alone is proved once (`CycleProofs`, last section), as are the
handlers that touch nothing an invariant speaks of; each invariant then has one
lemma for each place where something it speaks of is written.

**What is signed stays as it is.** `SignedFrozen` is the one property that does not
hold of the specification as it stands: Execute and Review look at the stage before
they have the lock, and an invocation that gets the lock after the cycle has failed
and been signed writes into the signed document (`StaleExecution`, section 7). The
theorems say that this is the only way. `Timely` says that an Execute or a Review
that is about to begin its section finds the stage and the approval it
saw before the lock; under it, for any number of invocations, faults and crashes, no
step changes a signed document except the signature itself.

The content of a document is almost all of it, so the argument has to go through
every write of every handler. `Sealed` is a document whose receipt is claimed, and
`Calm` lists the places where a handler of a sealed document may be: those at which
it asks whether something is done, or signs. By `ConsequenceInv` everything a
receipt speaks of is done by then, so at each of these places the handler moves on
without a write of its own. Three places need more: the first stage, where a document
without a run would be given one (`RunInv`); the event after a stage, which is
on record already except `completed`, whose event follows the signature and is no
part of the content (`Kept`); and Execute and Review, which under the lock look only
at the evidence (`Timely`).

`SignedStandsAlone` is the same without the hypothesis, for invocations that follow
one another, each perhaps cut off anywhere (the `Alone` of `ConsequenceProofs`: there
is one process at most). `Timely` is then a consequence: nobody else moves the
cycle between the check and the lock (`Prompt`), so `Prompt /\ Timely` is inductive.

### Around the core

| Theorem | Statement |
|---|---|
| `AgentProofs!CaptureIsFaithful` | `Spec => []CaptureFaithful` |
| `AgentProofs!ProviderStartedOnce` | `Spec => []StartedAtMostOnce` |
| `AgentProofs!SuccessRan` | `Spec => []SuccessMeansRan` |
| `AgentProofs!UsageIsComplete` | `Spec => []UsageComplete` |
| `AgentProofs!BudgetKept` | `Claude!Spec => []WithinBudget` |
| `FilterProofs!ReplacementIsRanked` | `Spec => []ReplacementRanked` |
| `FilterProofs!SelectionIsKept` | `Spec => []SelectionSurvives` |
| `FilterProofs!NothingIsLost` | `Spec => []EachAccountedFor` |
| `FilterProofs!LeftoversAreEligible` | `Spec => []OnlyEligibleKept` |
| `FilterProofs!ReloadKeeps` | `Spec => []ReloadIsStable` |
| `RecordProofs!AtMostOneRun` | `Spec => []OneRun` |
| `RecordProofs!CreationIsKeyed` | `Spec => CreatesKeyed` |
| `RecordProofs!NoRunIsLost` | `Spec => ReconciliationFinds` |
| `RecordProofs!RecordedFilesKept` | `E!Spec => []EvidenceFrozen` |
| `RecordProofs!SignedReceiptsReplay` | `E!Spec => []SignedReplays` |
| `RecordProofs!ReviewedEvidenceStands` | `E!Spec => []CompoundingStands` |
| `ExperimentProofs!AcceptedPatch` | `W!Spec => []PatchFaithful` |
| `ExperimentProofs!ResultKept` | `W!Spec => []RecoveryKeepsResult` |
| `ExperimentProofs!VerdictIsEarned` | `Spec => []VerdictEarned` |
| `ExperimentProofs!MeasurementIsReproducible` | `Spec => []MeasurementReproducible` |

`AgentProofs`, a Codex call: a second start could only come from the fallback, so
`CallInv` says that a pool that has started the provider has its marker in
`written`, that `captured` is `written` as long as the limit is not exceeded, and
that an exceeded limit, an ended context or a captured marker keeps the call from
falling back. The external assumptions of section 2 are in the guards of the
pool's actions. `RanInv` continues it: a call that is read is of a provider that
was started, its transcript has its turns one by one, the last perhaps cut short,
and the tally counts them. The tally is a recursive function over the lines of a
transcript of any length. The library's induction theorems cannot be used here
(they have an operator as a parameter), so `Induction` states induction over sets
of naturals, from the fact that a nonempty set of naturals has a least element,
and `TalliedSteps` gives the two equations of the recursion. A Claude call: the
repair is given what the first attempt left, and the invariant follows the
remainder through the calls.

`FilterProofs`: the loop's own claim is the invariant. While it inspects, the
survivors are those of the opportunities before `next` and `survivor` is the
place of the selection among them; while it compares, nothing seen so far beats
the best by more than the tolerance, which holds in spite of the intransitive
comparison because a replacement of the best always has a higher score. Where each
survivor came from is the witness of `EachAccountedFor`; it is extended as the loop
keeps one more. A second
pass over what was kept rejects nothing, which is `ReloadIsStable`.

`RecordProofs`, the creation of a run: why listing before creating is enough. While nothing has outlived
its invocation (`Alone`), the scope is empty from an empty listing to the end of
the command, because only the command of this call can fill it; a running command
has an empty scope and a committed one a single run, and an answer is that run.
The invariant is `outlived \/ Alone`, for any number of orphans. After `outlived`
nothing is promised, and nothing can be: two creations then commit in any order.

`RecordProofs`, the evidence: `EvidenceInv` has two halves. `Facts` speaks of the
document: what its marks, its stage and its list say of each other and of the disk.
Its core is `Past` with `Tidy`: a kind is on the list once and with the digest of
its file, and it comes onto the list only behind a mark or a stage from which the
section that writes it is not entered again. `Running` speaks of
the command. A file changes only in a section that writes its kind, so the
proof has to know, at every step of every section, which kinds are still to be
written and that none of these is on the list. The plan of a section is therefore
unrolled into `Rows`, one for each point it may be at: the steps left, the kinds
still written, the kinds still noted. `Onward` shows that the first step of a row
leads to a row again (no list of steps is ever indexed), and each action then uses
the row it is at. A crash needs only `Facts`; a section that is taken up again starts
from one of the rows of its plan, whichever of its files are on disk (`FirstRows`,
`Enters`). The replay compares the receipt with the document by the filter of
`Build`, which leaves out the receipt and its signature: `FilteredList` says for lists
of any length what the filter returns, by `InductionTo` over the places of the list.
A command that runs on although the cycle has failed (`Outrun`) breaks `EvidenceInv`;
what holds from then on is `RunOn`, that the cycle stays failed in the document and in
every copy, so the exception of the two properties is never left for a cycle that goes
on. The invariant is `EvidenceInv \/ RunOn`.

`ExperimentProofs`, the worktree: what is checked is a listing of names, what is
taken is a diff, and between the two the index has changed. The invariant says
that the base on record is the commit the worktree stands on, that from the
inspection to the diff nothing but the index changes, and that the index only
grows once an inspection has passed, so that a second inspection after a crash
lists what the first did, except for a rename. Errors of git fail the cycle
by another exit (`CallFails`), which is not a rejection. The benchmark: the measurement goes
through the copy, the file and the document; since it runs once, whatever carries
a measurement carries that of the one run, and the verdict is a function of it.

## 6. What is only model-checked

* Liveness (`EveryCycleSettles`, `PoolBounded`, `MeasurementUsed`,
  `CreationAnswered`): beyond this prover, as fairness is.
* `OrderIrrelevant` and `NothingIgnored`: the decoder walks trees with recursive
  operators, which the prover cannot use; no other module declares one.
* `SignedFrozen` for several invocations without `Timely` is not true: with the
  instance of `StaleExecution` TLC finds a cycle that is failed and signed, and then
  changed by an Execute that waited for the lock.

## 7. Where the code and its documents differ

Six have a run in which TLC finds the shortest case.

* **More than one active cycle** (`ActiveCycles`). `docs/architecture.md:72` says
  only one active cycle may exist and that the lock enforces it. The lock is held
  for one command; Start does not look for an unfinished cycle.
* **A declined proposal is executed** (`DeclinedExecution`). Decline persists its
  record before the stage (`decline.go:68-78`); after an interruption in between,
  Approve looks only at the stage and accepts.
* **Execution of a cycle that is not executing** (`StaleExecution`). Execute
  checks the stage before the lock (`execution.go:91`) and only the evidence
  after it; a cycle that failed meanwhile still has its approval.
* **Budget not enforced on recovery** (`RecoveredBudget`). The usage of a report
  recovered from disk is read from the document, which does not have it yet
  (`execution.go:200`).
* **A lost event** (`LastEvent`). The `completed` event follows the signature
  (`review.go:310-317`); when it fails, resume sees a signed completed cycle and
  returns (`app.go:263-268`). Only a decision asked for once more, which is refused,
  would still record it on its way.
* **One judge attempt unused** (`JudgeRetry`). `docs/architecture.md:191` calls a
  harness failure retryable within the attempt budget; the first error fails the
  cycle.

The modules around the core met more of them. They are in the models as the code
has them, and a property that would hold without them names the exception; they
have no run of their own.

* **Turns behind a long line are not counted.** `codexTurns` stops at the first
  line above 64 KiB (`codex.go:341`), and the turn budget is checked with its
  number. `UsageComplete` excepts it.
* **A creation that outlives its command.** `ic run create` has no key of its own; a
  killed creation that commits after the retry's listing gives the cycle two runs,
  and it is stuck (`intercore.go:148, 219`). `CreatesKeyed` ends there.
* **Ignored files escape.** The listing of changed paths leaves out what
  `.gitignore` matches (`worktree.go:63`), so such a file is neither checked nor in
  the patch. `PatchFaithful` excepts it.
* **A half checked out worktree is used.** An existing directory is reused if it
  has a HEAD (`worktree.go:40`); the executor then starts from a tree that lacks
  files, and the patch holds their deletion.
* **A parent of the workflows is allowed.** Only `.github/workflows` and what is
  below it is refused (`validate.go:171`); a contract may allow `.github`.
* **A renamed file fails a recovered execution.** After `git add -N` a new file that
  is similar to a deleted one, edited or not, is listed by its new name only
  (`worktree.go:59, 89`), which differs from the report. `RecoveryKeepsResult` excepts
  it.
* **A deadline does not bound a call.** `Run` sets no `WaitDelay`
  (`runner.go:65-76`): the deadline kills the command, and the call goes on until
  everything it started has closed its pipes. `PoolBounded` excepts a descendant that
  never does.
* **A review that was cut off is never repeated.** It is claimed before the reviewer
  runs (`review.go:126`); without a usable `review.json` every later Review ends with
  `ErrReviewIndeterminate`, or the error of reading it (`review.go:99-113`), and the
  cycle neither fails nor ends. `MeasurementUsed` excepts it.
* **Evidence recorded twice.** The late Execute of `StaleExecution` recovers the report
  of the cycle that failed and appends it again (`execution.go:199`), persists that
  (`execution.go:270`), and may rewrite the patch; the receipt of the failed cycle is
  then signed with two artifacts of a kind, and the replay refuses it
  (`replay.go:69-71`). `EvidenceFrozen` and `SignedReplays` except a failed cycle on
  which a command ran late (`RunOver`).
* **An interrupt counts as a miss.** `measure` does not ask why the command failed
  (`execution.go:357`), so a benchmark that was interrupted is on record as failed
  and the experiment cannot be promoted.
* **Truncated output is taken for all of it.** The runner's limit error is
  discarded (`execution.go:345`), and the metric is read from what is left.

Also without a run: a judgment that is loaded from
its file after a crash has lost the rejections of the first pass, which are then
recorded as none (`observation_resume.go:359`); `docs/architecture.md:195` says
that a signing failure leaves the cycle non-terminal, which holds for a
compounding cycle and not for a failed or no-op one, whose stage is terminal
before it is signed. The four indeterminate states (`Indeterminate` in
`CycleProperties`) are refused by every later command and never fail; only an
operator outside this program can end them.

## 8. What is not modelled

Read-only commands (`status`, `doctor`, `attention`, `receipt show`) and
configuration: no state. Prompts, schemas and `SanitizeObservation`: text. The
Ockham policy and the content of an observation: they reach the judge and nothing
else. `HashContract` and `FingerprintCandidate`: equal contents have equal hashes,
which is all the models use. Path rules of the artifact store. Files that somebody
changes behind the program: the replay would refuse them, which is the digest
comparison and nothing more. Lock expiry under a living holder: not this code's
behaviour, but a hazard (the owner's name is shared by all invocations of a
cycle). Installer, timer and schemas: not part of the running program.

## 9. Plan

Done: the cycle core, its properties, and theorems for all its safety properties;
the modules around it, and theorems for all of them but `StrictJSON`, whose walks
are recursive. Left:

* Refinements that tie the modules to the core: the outcomes `allowed` and
   `stray` shown to be those of `Worktree`, the measurement that of `Benchmark`.
