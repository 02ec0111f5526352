--------------------------- MODULE CycleProperties --------------------------
(***************************************************************************)
(* What makes the program correct, in terms of the model's variables.      *)
(***************************************************************************)
EXTENDS Remontoire

-----------------------------------------------------------------------------
(* Types. *)

\* The places in the handlers.
ServiceLabels == {"acquire", "release", "event", "eventSave", "fail",
  "advance", "advanceRun", "advanceSave", "idle", "check"}
ObservationLabels == {"start", "startLatest", "ensureRun", "ensureRunSave",
  "continue", "observing", "capture", "observe", "observeWrite", "register",
  "registerSend", "registerDone", "judge", "judgeFirst", "judgeAgain",
  "judgeFirstSave", "judgeAgainSave", "judgmentReject", "judgmentFilter",
  "judgmentWrite", "judged", "rankAdvance", "rankEnter", "finishRanked"}
ProposalLabels == {"propose", "proposal", "proposalList", "proposalCreate",
  "proposeAdvance", "proposeEnter", "awaitEnter", "snapshotWrite",
  "snapshotSave", "snapshotRegister", "snapshotSend", "snapshotDone", "noop",
  "noopComplete"}
DecisionLabels == {"approve", "decline", "declineStage", "declineClose",
  "declineSave", "declineDone"}
ExecutionLabels == {"execute", "executeAdvance", "executeEnter",
  "executeAttempt", "executor", "report", "collect", "benchmark", "measure",
  "measureWrite", "measured", "reviewAdvance", "reviewEnter"}
ReviewLabels == {"review", "reviewer", "reviewWrite", "resolve",
  "compoundAdvance", "compoundEnter"}
CompoundLabels == {"compound", "compoundStage", "promote", "promoteCreate",
  "promoteSave", "close", "closeSave", "outcome", "outcomeSave", "feedback",
  "feedbackSend", "feedbackSave", "roadmap", "roadmapSync", "roadmapUndo",
  "roadmapWrite", "roadmapSave", "roadmapCheck", "terminalize", "receipt",
  "receiptSave", "emit", "emitSend", "accept", "acceptSave", "complete"}
Labels ==
  ServiceLabels \cup ObservationLabels \cup ProposalLabels \cup DecisionLabels
  \cup ExecutionLabels \cup ReviewLabels \cup CompoundLabels

Jobs ==
  [op : {"none", "start", "observe", "propose", "approve", "decline", "execute",
         "review", "compound"},
   cyc : Cycles \cup {NoCycle}, ret : Labels \cup {"none"},
   adv : RunKeys \cup TerminalKeys \cup {"none"},
   got : {"none", "other", "select", "noop", "invalid", "bad", "within", "over", "unknown",
          "uncited"} \cup Verdicts]

KernelType ==
  [phase : Phases \cup {Absent}, events : SUBSET Stages, replays : [ReplayKinds -> Nat],
   outcome : MaybeVerdict, feedback : SUBSET Discoveries, ledger : Seq(Nat)]
BacklogType ==
  [experiments : Nat, closed : BOOLEAN, promotions : Nat, roadmap : RoadmapView]
FilesType ==
  [observation : BOOLEAN, judgment : Judged, backlog : BOOLEAN,
   worktree : {"clean", "allowed", "stray"}, report : {"none", "valid", "invalid"},
   measurement : Measured, review : MaybeVerdict \cup {"uncited", "invalid"},
   roadmap : RoadmapView, digest : Nat, receipt : CycleDoc, signature : Nat]
CallsType ==
  [judge : Nat, executor : Nat, benchmark : Nat, reviewer : Nat, overBudget : BOOLEAN]

\* Every variable has its type: documents, copies and services are records
\* of the shapes above (domain.Cycle and the adapters' state).
TypeOK ==
  /\ doc \in [Cycles -> CycleDoc]
  /\ mem \in [Procs -> CycleDoc]
  /\ kernel \in [Cycles -> KernelType]
  /\ backlog \in [Cycles -> BacklogType]
  /\ files \in [Cycles -> FilesType]
  /\ calls \in [Cycles -> CallsType]
  /\ latest \in Cycles \cup {NoCycle}
  /\ lock \in Procs \cup {Free, Stale}
  /\ pc \in [Procs -> Labels]
  /\ job \in [Procs -> Jobs]
  /\ faults \in 0..MaxFaults

-----------------------------------------------------------------------------
(* The portfolio lock. *)

Outside == {"idle", "check", "acquire"}
Critical(p) == pc[p] \notin Outside

\* Whoever is inside an operation holds the portfolio lock, through errors,
\* crashes, failed releases and reclaimed locks: at most one invocation is
\* past AcquireCycleLock and not yet past its deferred ReleaseCycleLock.
MutualExclusion == \A p \in Procs : Critical(p) => lock = p

\* Nothing a cycle leaves anywhere (document, Intercore, backlog, files)
\* changes except by the step of the invocation that holds the lock.
OnlyHolderWrites ==
  [][doc' # doc \/ world' # world => lock \in Procs /\ Critical(lock)]_vars

-----------------------------------------------------------------------------
(* The stage machine. *)

\* The document's stage implements the abstract machine: despite stale
\* copies, failed writes and repeated commands it only ever takes edges of
\* domain.ValidateTransition.
Machine == INSTANCE StageMachine WITH stage <- [c \in Cycles |-> doc[c].stage]
StagesLegal == Machine!Spec

\* transition records the event of a stage after persisting it and every
\* operation repairs a missing one first: no stage is left unreported.
StagesReported ==
  [][\A c \in Cycles :
       doc'[c].stage # doc[c].stage =>
         doc[c].stage \in kernel[c].events \cup {Absent, "new"}]_vars

\* The Intercore run and the cycle move together: the run is in the phase of
\* the cycle's stage, or one ahead of it between advanceOnce and transition.
PhasesOf(stage) ==
  CASE stage = "ranked"            -> {"rank", "propose"}
    [] stage \in {"proposed", "awaiting_approval", "declined"} -> {"propose"}
    [] stage = "approved"          -> {"propose", "execute"}
    [] stage = "executing"         -> {"execute", "review"}
    [] stage = "reviewing"         -> {"review", "compound"}
    [] stage = "compounding"       -> {"compound"}
    [] stage \in {"new", "observing"} -> {Absent, "observe", "rank"}
    [] OTHER                       -> Phases \cup {Absent}
RunTracksStage == \A c \in Cycles : kernel[c].phase \in PhasesOf(doc[c].stage)

-----------------------------------------------------------------------------
(* Nothing is done twice. *)

\* However often a cycle is interrupted and resumed, by however many
\* invocations: one executor, benchmark and reviewer run, two judgments.
InvokedAtMostOnce ==
  \A c \in Cycles :
    /\ calls[c].executor <= 1 /\ calls[c].benchmark <= 1 /\ calls[c].reviewer <= 1
    /\ calls[c].judge <= 2

\* RecordReplayInput has no idempotency key: each input is registered once.
RegisteredAtMostOnce ==
  \A c \in Cycles : \A k \in ReplayKinds : kernel[c].replays[k] <= 1

\* A cycle has at most one experiment and one promotion bead, also when the
\* answer of bd create is lost or the process dies before it is recorded.
OneBeadEach ==
  \A c \in Cycles : backlog[c].experiments <= 1 /\ backlog[c].promotions <= 1

\* ensureProposal lists and creates in two calls, yet the whole backlog never
\* holds two experiments of one fingerprint, whichever cycles made them.
OneExperimentPerFingerprint ==
  \A c, d \in Cycles :
    Fingerprint[c] = Fingerprint[d] /\ ExperimentExists(c) /\ ExperimentExists(d) => c = d

\* One receipt per cycle in Intercore's ledger, even when the answer of
\* EmitReceipt is lost or receipt.json is rebuilt.
OneReceipt == \A c \in Cycles : Len(kernel[c].ledger) <= 1

-----------------------------------------------------------------------------
(* Authority. *)

\* The executor runs only under a recorded approval of a proposed
\* experiment, and never in shadow mode or for a cycle in stage declined.
ExecutionAuthorised ==
  \A c \in Cycles :
    calls[c].executor > 0 =>
      /\ doc[c].approved /\ doc[c].mode = "proposal" /\ doc[c].stage # "declined"
      /\ ExperimentExists(c)

\* Shadow mode touches neither the backlog nor a worktree.
ShadowOnlyWatches ==
  \A c \in Cycles :
    doc[c].mode = "shadow" =>
      /\ backlog[c] = BacklogInit
      /\ files[c].worktree = "clean"

\* A promotion, decided or already in the backlog, rests on an approved run
\* within paths and budget, a benchmark that met its target, and a reviewer
\* who cited the transcript: also when any of it was recovered from disk.
PromotionJustified ==
  \A c \in Cycles :
    doc[c].final = "promote" \/ PromotionExists(c) =>
      /\ doc[c].approved /\ doc[c].transcript
      /\ doc[c].measured = "met" /\ files[c].measurement = "met"
      /\ files[c].worktree = "allowed" /\ ~calls[c].overBudget
      /\ files[c].review = "promote"

\* The experiment is closed only for a cause the document records.
ClosedForCause ==
  \A c \in Cycles :
    backlog[c].closed => \/ doc[c].final # "none"
                         \/ doc[c].declined /\ doc[c].stage \in {"declined", "completed"}

-----------------------------------------------------------------------------
(* The receipt. *)

\* When a reviewed cycle is signed every consequence of its verdict is in
\* place: bead, closure, outcome, feedback, and a roadmap that shows them.
SignedAfterConsequences ==
  \A c \in Cycles :
    Signed(doc[c]) /\ doc[c].stage \in {"compounding", "completed"} /\ doc[c].final # "none" =>
      /\ backlog[c].closed
      /\ PromotionExists(c) <=> doc[c].final = "promote"
      /\ kernel[c].outcome = doc[c].final
      /\ kernel[c].feedback = Discoveries
      /\ doc[c].roadmap = "closed" /\ files[c].roadmap = "closed"
      /\ kernel[c].phase = "compound"

\* The accepted identity is Intercore's receipt of exactly the file on disk,
\* and a document that is signed never loses or changes that identity.
SignatureBinds ==
  \A c \in Cycles :
    Signed(doc[c]) =>
      /\ doc[c].signed \in DOMAIN kernel[c].ledger
      /\ kernel[c].ledger[doc[c].signed] = files[c].digest
      /\ doc[c].digest = files[c].digest /\ files[c].signature = doc[c].signed

\* What was signed is what the document still says: signing is the last
\* change of content (unless an Execute outruns its check: StaleExecution).
SignedFrozen ==
  \A c \in Cycles : Signed(doc[c]) => files[c].receipt = Content(doc[c])

-----------------------------------------------------------------------------
(* Progress. *)

\* The places where the code gives up for good without failing the cycle:
\* something was claimed and its result is neither recorded nor on disk.
Indeterminate(c) ==
  LET d == doc[c]
  IN \/ d.stage \in {"ranked", "proposed"} /\ d.key["replay:proposal-backlog"] = "started"
     \/ d.stage = "executing" /\ d.key["execution:attempt"] = "started"
        /\ files[c].report # "valid"
     \/ d.stage = "executing" /\ d.key["benchmark:attempt"] = "started"
        /\ files[c].measurement = "none"
     \/ d.stage = "reviewing" /\ d.key["review:attempt"] = "started"
        /\ files[c].review \in {"none", "invalid"}

Settled(c) ==
  \/ doc[c].stage \in {Absent, "awaiting_approval"} \/ Indeterminate(c)
  \/ doc[c].stage \in {"completed", "failed"} /\ Signed(doc[c])

\* A cycle that is resumed again and again ends signed, or waits for its
\* principal, or is in one of the indeterminate states above.
EveryCycleSettles == \A c \in Cycles : <>[]Settled(c)

-----------------------------------------------------------------------------
(* What the documents say and the code does not do: each of these is       *)
(* expected to be violated.                                                *)

Active(stage) == stage \in ActiveStages \cup {"no_op", "declined"}

\* docs/architecture.md:72: "Only one active cycle may exist for a configured
\* portfolio."  Start takes the lock but looks at no other cycle.
OneActiveCycle ==
  \A c, d \in Cycles : Active(doc[c].stage) /\ Active(doc[d].stage) => c = d

\* README.md:102: "Decline a proposal without executing it".  Decline records
\* the decision before it changes the stage; Approve does not look at it.
DeclinedNeverExecuted ==
  \A c \in Cycles : doc[c].declined => calls[c].executor = 0

\* execution.go:92: a cycle "must be approved before execution (stage %s)".
\* Execute checks the stage before it takes the lock and not after.
ExecutorOnlyWhileExecuting ==
  \A p \in Procs : At(p, "executor") => doc[Cyc(p)].stage = "executing"

\* docs/architecture.md:160: execution is bounded by "maximum wall time and
\* turn/cost budget".  A report recovered from disk comes without its usage.
BudgetEnforced ==
  \A c \in Cycles : calls[c].overBudget => doc[c].key["execution:attempt"] # "completed"

\* docs/architecture.md:61-65: each transition persists the document and then
\* records its event.  The event of a signed cycle's last stage may be lost:
\* resume returns before any operation could repair it, so it is left to a
\* decision that somebody happens to ask for once more.
EveryStageReported ==
  \A c \in Cycles : doc[c].stage = "completed" ~> "completed" \in kernel[c].events

\* docs/architecture.md:191: "Harness failure is retryable within the same
\* cycle and attempt budget."  The judge has two attempts; an error in the
\* first fails the cycle.
JudgeAttemptsUsed ==
  \A c \in Cycles :
    doc[c].stage = "failed" /\ doc[c].judged = "none" /\ calls[c].judge > 0 => calls[c].judge = 2
=============================================================================
