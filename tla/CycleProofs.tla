---------------------------- MODULE CycleProofs -----------------------------
(***************************************************************************)
(* What every step of the program respects, for every set of cycles and of *)
(* invocations and every number of faults.  First the portfolio lock: at   *)
(* most one invocation is inside an operation, and nothing durable changes *)
(* but by its steps.  Then type correctness, and that the stages of the    *)
(* documents implement StageMachine: CycleInv is inductive next to mutual  *)
(* exclusion, because a handler may trust its copy of the document while   *)
(* no other invocation is inside an operation.  Last, which place a        *)
(* handler comes from, which action a place belongs to, and that a step    *)
(* leaves the other invocations and their cycles alone.                    *)
(***************************************************************************)
EXTENDS StepProofs, CycleClaims

-----------------------------------------------------------------------------
(* The portfolio lock. *)

\* A step of a handler is taken from inside the operation, before the lock is
\* given back; it leaves the lock alone and moves no invocation but p.
Inside(p) ==
  /\ Critical(p) /\ pc[p] # "release"
  /\ pc[p] = "start" => Start(p)
  /\ lock' = lock
  /\ pc' = [pc EXCEPT ![p] = pc'[p]]

\* The inductive invariant.
LockInv == DOMAIN pc = Procs /\ MutualExclusion

-----------------------------------------------------------------------------
(* Every step of every handler is such a step: one lemma per module.       *)

\* The shared procedures: all of ServiceStep but Acquire and Release.
LEMMA ServiceInside ==
  ASSUME NEW p \in Procs, DOMAIN pc = Procs,
         \/ EnsureStageEvent(p) \/ SaveStageEvent(p) \/ Fail(p)
         \/ BeginAdvance(p) \/ AdvanceRun(p) \/ FinishAdvance(p)
  PROVE  Inside(p)
<1> USE DEF Inside, At, Critical, Outside, Goto, Continue, Raise, Jump, Persist
<1>1. CASE EnsureStageEvent(p)  BY <1>1 DEF EnsureStageEvent
<1>2. CASE SaveStageEvent(p)  BY <1>2 DEF SaveStageEvent
<1>3. CASE Fail(p)  BY <1>3 DEF Fail, Transition
<1>4. CASE BeginAdvance(p)  BY <1>4 DEF BeginAdvance
<1>5. CASE AdvanceRun(p)  BY <1>5 DEF AdvanceRun
<1>6. CASE FinishAdvance(p)  BY <1>6 DEF FinishAdvance
<1> QED
  BY <1>1, <1>2, <1>3, <1>4, <1>5, <1>6

\* CycleObservation.
LEMMA ObservationInside ==
  ASSUME NEW p \in Procs, DOMAIN pc = Procs,
         ObservationStep(p)
  PROVE  Inside(p)
<1> USE DEF Inside, At, Critical, Outside, Goto, Continue, Raise, Jump, Persist
<1>1. CASE Start(p)  BY <1>1 DEF Start
<1>2. CASE StartLatest(p)  BY <1>2 DEF StartLatest
<1>3. CASE EnsureCycleRun(p)  BY <1>3 DEF EnsureCycleRun
<1>4. CASE SaveCycleRun(p)  BY <1>4 DEF SaveCycleRun
<1>5. CASE ContinueObservation(p)  BY <1>5 DEF ContinueObservation, Call
<1>6. CASE EnterObserving(p)  BY <1>6 DEF EnterObserving, Transition, Call
<1>7. CASE CaptureObservation(p)  BY <1>7 DEF CaptureObservation
<1>8. CASE Observe(p)  BY <1>8 DEF Observe
<1>9. CASE WriteObservation(p)  BY <1>9 DEF WriteObservation
<1>10. CASE ClaimRegistration(p)  BY <1>10 DEF ClaimRegistration
<1>11. CASE SendRegistration(p)  BY <1>11 DEF SendRegistration
<1>12. CASE SaveObservation(p)  BY <1>12 DEF SaveObservation
<1>13. CASE ClaimJudgment(p)  BY <1>13 DEF ClaimJudgment
<1>14. CASE JudgeFirst(p)  BY <1>14 DEF JudgeFirst, InvokeJudge
<1>15. CASE SaveFirstAttempt(p)  BY <1>15 DEF SaveFirstAttempt
<1>16. CASE FilterJudgment(p)  BY <1>16 DEF FilterJudgment
<1>17. CASE JudgeAgain(p)  BY <1>17 DEF JudgeAgain, InvokeJudge
<1>18. CASE SaveSecondAttempt(p)  BY <1>18 DEF SaveSecondAttempt
<1>19. CASE RejectSecondAttempt(p)  BY <1>19 DEF RejectSecondAttempt
<1>20. CASE WriteJudgment(p)  BY <1>20 DEF WriteJudgment
<1>21. CASE SaveJudgment(p)  BY <1>21 DEF SaveJudgment
<1>22. CASE AdvanceToRank(p)  BY <1>22 DEF AdvanceToRank, Advance
<1>23. CASE EnterRanked(p)  BY <1>23 DEF EnterRanked, Transition
<1>24. CASE FinishRanked(p)  BY <1>24 DEF FinishRanked
<1> QED
  BY <1>1, <1>2, <1>3, <1>4, <1>5, <1>6, <1>7, <1>8, <1>9, <1>10, <1>11,
     <1>12, <1>13, <1>14, <1>15, <1>16, <1>17, <1>18, <1>19, <1>20, <1>21,
     <1>22, <1>23, <1>24 DEF ObservationStep

\* CycleProposal.
LEMMA ProposalInside ==
  ASSUME NEW p \in Procs, DOMAIN pc = Procs,
         ProposalStep(p)
  PROVE  Inside(p)
<1> USE DEF Inside, At, Critical, Outside, Goto, Continue, Raise, Jump, Persist
<1>1. CASE ResumeProposal(p)  BY <1>1 DEF ResumeProposal
<1>2. CASE LoadSnapshot(p)  BY <1>2 DEF LoadSnapshot
<1>3. CASE ListBacklog(p)  BY <1>3 DEF ListBacklog
<1>4. CASE CreateExperiment(p)  BY <1>4 DEF CreateExperiment
<1>5. CASE AdvanceToPropose(p)  BY <1>5 DEF AdvanceToPropose, Advance
<1>6. CASE EnterProposed(p)  BY <1>6 DEF EnterProposed, Transition
<1>7. CASE EnterAwaitingApproval(p)  BY <1>7 DEF EnterAwaitingApproval, Transition
<1>8. CASE WriteSnapshot(p)  BY <1>8 DEF WriteSnapshot
<1>9. CASE SaveSnapshot(p)  BY <1>9 DEF SaveSnapshot
<1>10. CASE ClaimSnapshot(p)  BY <1>10 DEF ClaimSnapshot
<1>11. CASE SendSnapshot(p)  BY <1>11 DEF SendSnapshot
<1>12. CASE SaveRegistered(p)  BY <1>12 DEF SaveRegistered
<1>13. CASE EnterNoOp(p)  BY <1>13 DEF EnterNoOp, Transition
<1>14. CASE CompleteNoOp(p)  BY <1>14 DEF CompleteNoOp, Transition
<1> QED
  BY <1>1, <1>2, <1>3, <1>4, <1>5, <1>6, <1>7, <1>8, <1>9, <1>10, <1>11,
     <1>12, <1>13, <1>14 DEF ProposalStep

\* CycleDecision.
LEMMA DecisionInside ==
  ASSUME NEW p \in Procs, DOMAIN pc = Procs,
         DecisionStep(p)
  PROVE  Inside(p)
<1> USE DEF Inside, At, Critical, Outside, Goto, Continue, Raise, Jump, Persist
<1>1. CASE Approve(p)  BY <1>1 DEF Approve, Transition
<1>2. CASE Decline(p)  BY <1>2 DEF Decline
<1>3. CASE EnterDeclined(p)  BY <1>3 DEF EnterDeclined, Transition
<1>4. CASE CloseDeclined(p)  BY <1>4 DEF CloseDeclined
<1>5. CASE SaveDeclineClosed(p)  BY <1>5 DEF SaveDeclineClosed
<1>6. CASE CompleteDeclined(p)  BY <1>6 DEF CompleteDeclined, Transition
<1> QED
  BY <1>1, <1>2, <1>3, <1>4, <1>5, <1>6 DEF DecisionStep

\* CycleExecution.
LEMMA ExecutionInside ==
  ASSUME NEW p \in Procs, DOMAIN pc = Procs,
         ExecutionStep(p)
  PROVE  Inside(p)
<1> USE DEF Inside, At, Critical, Outside, Goto, Continue, Raise, Jump, Persist
<1>1. CASE PrepareExecution(p)  BY <1>1 DEF PrepareExecution
<1>2. CASE AdvanceToExecute(p)  BY <1>2 DEF AdvanceToExecute, Advance
<1>3. CASE EnterExecuting(p)  BY <1>3 DEF EnterExecuting, Transition
<1>4. CASE ClaimExecution(p)  BY <1>4 DEF ClaimExecution
<1>5. CASE InvokeExecutor(p)  BY <1>5 DEF InvokeExecutor
<1>6. CASE WriteReport(p)  BY <1>6 DEF WriteReport
<1>7. CASE CollectExecution(p)  BY <1>7 DEF CollectExecution
<1>8. CASE ClaimBenchmark(p)  BY <1>8 DEF ClaimBenchmark
<1>9. CASE Measure(p)  BY <1>9 DEF Measure
<1>10. CASE WriteMeasurement(p)  BY <1>10 DEF WriteMeasurement
<1>11. CASE SaveMeasurement(p)  BY <1>11 DEF SaveMeasurement
<1>12. CASE AdvanceToReview(p)  BY <1>12 DEF AdvanceToReview, Advance
<1>13. CASE EnterReviewing(p)  BY <1>13 DEF EnterReviewing, Transition
<1> QED
  BY <1>1, <1>2, <1>3, <1>4, <1>5, <1>6, <1>7, <1>8, <1>9, <1>10, <1>11,
     <1>12, <1>13 DEF ExecutionStep

\* CycleReview.
LEMMA ReviewInside ==
  ASSUME NEW p \in Procs, DOMAIN pc = Procs,
         ReviewStep(p)
  PROVE  Inside(p)
<1> USE DEF Inside, At, Critical, Outside, Goto, Continue, Raise, Jump, Persist
<1>1. CASE ClaimReview(p)  BY <1>1 DEF ClaimReview
<1>2. CASE InvokeReviewer(p)  BY <1>2 DEF InvokeReviewer
<1>3. CASE WriteReview(p)  BY <1>3 DEF WriteReview
<1>4. CASE Resolve(p)  BY <1>4 DEF Resolve
<1>5. CASE AdvanceToCompound(p)  BY <1>5 DEF AdvanceToCompound, Advance
<1>6. CASE EnterCompounding(p)  BY <1>6 DEF EnterCompounding, Transition
<1> QED
  BY <1>1, <1>2, <1>3, <1>4, <1>5, <1>6 DEF ReviewStep

\* CycleCompound.
LEMMA CompoundInside ==
  ASSUME NEW p \in Procs, DOMAIN pc = Procs,
         CompoundStep(p)
  PROVE  Inside(p)
<1> USE DEF Inside, At, Critical, Outside, Goto, Continue, Raise, Jump, Persist
<1>1. CASE BeginCompound(p)  BY <1>1 DEF BeginCompound, Transition
<1>2. CASE DispatchCompound(p)  BY <1>2 DEF DispatchCompound
<1>3. CASE FindPromotion(p)  BY <1>3 DEF FindPromotion
<1>4. CASE CreatePromotion(p)  BY <1>4 DEF CreatePromotion
<1>5. CASE SavePromotion(p)  BY <1>5 DEF SavePromotion
<1>6. CASE CloseExperiment(p)  BY <1>6 DEF CloseExperiment
<1>7. CASE SaveClosed(p)  BY <1>7 DEF SaveClosed
<1>8. CASE RecordOutcome(p)  BY <1>8 DEF RecordOutcome
<1>9. CASE SaveOutcome(p)  BY <1>9 DEF SaveOutcome
<1>10. CASE BeginFeedback(p)  BY <1>10 DEF BeginFeedback
<1>11. CASE SendFeedback(p)  BY <1>11 DEF SendFeedback
<1>12. CASE SaveFeedback(p)  BY <1>12 DEF SaveFeedback
<1>13. CASE BeginRoadmap(p)  BY <1>13 DEF BeginRoadmap
<1>14. CASE SyncRoadmap(p)  BY <1>14 DEF SyncRoadmap
<1>15. CASE UndoRoadmap(p)  BY <1>15 DEF UndoRoadmap
<1>16. CASE WriteRoadmap(p)  BY <1>16 DEF WriteRoadmap
<1>17. CASE SaveRoadmap(p)  BY <1>17 DEF SaveRoadmap
<1>18. CASE CheckRoadmap(p)  BY <1>18 DEF CheckRoadmap
<1>19. CASE Terminalize(p)  BY <1>19 DEF Terminalize, Advance
<1>20. CASE BuildReceipt(p)  BY <1>20 DEF BuildReceipt
<1>21. CASE SaveReceipt(p)  BY <1>21 DEF SaveReceipt
<1>22. CASE FindReceipt(p)  BY <1>22 DEF FindReceipt
<1>23. CASE EmitReceipt(p)  BY <1>23 DEF EmitReceipt
<1>24. CASE AcceptReceipt(p)  BY <1>24 DEF AcceptReceipt
<1>25. CASE SaveSignature(p)  BY <1>25 DEF SaveSignature
<1>26. CASE Complete(p)  BY <1>26 DEF Complete, Transition
<1> QED
  BY <1>1, <1>2, <1>3, <1>4, <1>5, <1>6, <1>7, <1>8, <1>9, <1>10, <1>11,
     <1>12, <1>13, <1>14, <1>15, <1>16, <1>17, <1>18, <1>19, <1>20, <1>21,
     <1>22, <1>23, <1>24, <1>25, <1>26 DEF CompoundStep

-----------------------------------------------------------------------------
(* The lock. *)

Handler(p) ==
  \/ EnsureStageEvent(p) \/ SaveStageEvent(p) \/ Fail(p)
  \/ BeginAdvance(p) \/ AdvanceRun(p) \/ FinishAdvance(p)
  \/ ObservationStep(p) \/ ProposalStep(p) \/ DecisionStep(p)
  \/ ExecutionStep(p) \/ ReviewStep(p) \/ CompoundStep(p)

\* A step of a handler, of whichever module, is taken inside the operation.
LEMMA HandlerInside ==
  ASSUME NEW p \in Procs, DOMAIN pc = Procs, Handler(p)
  PROVE  Inside(p)
BY ServiceInside, ObservationInside, ProposalInside, DecisionInside,
   ExecutionInside, ReviewInside, CompoundInside DEF Handler

\* Every step of the program is a handler's, or it leaves the document and
\* everything else that lasts as it was.
LEMMA NextIsHandlerOrQuiet ==
  ASSUME Next
  PROVE  \/ \E p \in Procs : Handler(p)
         \/ UNCHANGED <<doc, world>>
<1>1. CASE ReclaimLock
  BY <1>1 DEF ReclaimLock
<1>2. ASSUME NEW p \in Procs, Command(p) PROVE UNCHANGED <<doc, world>>
  BY <1>2 DEF Command, RunCycle, RunDecision, RunResume
<1>3. ASSUME NEW p \in Procs, Crash(p) PROVE UNCHANGED <<doc, world>>
  BY <1>3 DEF Crash
<1>4. ASSUME NEW p \in Procs, Step(p) PROVE Handler(p) \/ UNCHANGED <<doc, world>>
  <2>1. CASE Precheck(p)
    BY <2>1 DEF Precheck
  <2>2. CASE Acquire(p)
    BY <2>2 DEF Acquire
  <2>3. CASE Release(p)
    BY <2>3 DEF Release
  <2>4. CASE ~(Precheck(p) \/ Acquire(p) \/ Release(p))
    BY <1>4, <2>4 DEF Step, ServiceStep, Handler
  <2> QED BY <2>1, <2>2, <2>3, <2>4
<1> QED BY <1>1, <1>2, <1>3, <1>4 DEF Next

\* The steps that are not a handler's: they take, give back, lose or break
\* the lock, or stay outside.
LEMMA LockStep ==
  ASSUME LockInv, NEW p \in Procs,
         Acquire(p) \/ Release(p) \/ Crash(p) \/ Precheck(p) \/ Command(p)
  PROVE  LockInv'
<1> USE ServiceAssumption
    DEF LockInv, MutualExclusion, Critical, Outside, At, Goto, Continue, Raise
<1>1. CASE Acquire(p)
  BY <1>1 DEF Acquire, LockGranted, Call
<1>2. CASE Release(p)
  BY <1>2 DEF Release
<1>3. CASE Crash(p)
  BY <1>3 DEF Crash
<1>4. CASE Precheck(p)
  BY <1>4 DEF Precheck
<1>5. CASE Command(p)
  BY <1>5 DEF Command, RunCycle, RunDecision, RunResume, Invoke
<1> QED BY <1>1, <1>2, <1>3, <1>4, <1>5

\* LockInv holds at the start, and every step keeps it.
LEMMA LockInvariant == Spec => []LockInv
<1>1. Init => LockInv
  BY DEF Init, ServiceInit, LockInv, MutualExclusion, Critical, Outside
<1>2. LockInv /\ [Next]_vars => LockInv'
  <2> SUFFICES ASSUME LockInv, [Next]_vars PROVE LockInv'
    OBVIOUS
  <2>1. CASE UNCHANGED vars
    BY <2>1 DEF vars, LockInv, MutualExclusion, Critical
  <2>2. CASE ReclaimLock
    BY <2>2, ServiceAssumption
    DEF ReclaimLock, LockInv, MutualExclusion, Critical
  <2>3. ASSUME NEW p \in Procs, Handler(p) PROVE LockInv'
    BY <2>3, HandlerInside DEF Inside, LockInv, MutualExclusion, Critical
  <2>4. ASSUME NEW p \in Procs, Step(p) PROVE LockInv'
    BY <2>3, <2>4, LockStep DEF Step, ServiceStep, Handler
  <2>5. ASSUME NEW p \in Procs, Command(p) \/ Crash(p) PROVE LockInv'
    BY <2>5, LockStep
  <2> QED BY <2>1, <2>2, <2>4, <2>5 DEF Next
<1> QED BY <1>1, <1>2, PTL DEF Spec

\* Two invocations are never inside operations at the same time: whatever
\* fails or dies, whoever is past AcquireCycleLock holds the lock.
THEOREM LockExcludes == Spec => []MutualExclusion
BY LockInvariant, PTL DEF LockInv

\* Documents, Intercore, backlog, files and calls change only by a step of
\* the invocation that holds the lock.
THEOREM HolderWrites == Spec => OnlyHolderWrites
<1>1. ASSUME LockInv, [Next]_vars
      PROVE  [doc' # doc \/ world' # world => lock \in Procs /\ Critical(lock)]_vars
  <2>1. CASE UNCHANGED vars
    BY <2>1
  <2>2. CASE UNCHANGED <<doc, world>>
    BY <2>2
  <2>3. ASSUME NEW p \in Procs, Handler(p) PROVE lock \in Procs /\ Critical(lock)
    BY <1>1, <2>3, HandlerInside DEF Inside, LockInv, MutualExclusion
  <2> QED BY <1>1, <2>1, <2>2, <2>3, NextIsHandlerOrQuiet
<1> QED BY <1>1, LockInvariant, PTL DEF Spec, OnlyHolderWrites

-----------------------------------------------------------------------------
(* What a step of a handler does. *)

\* The document Start makes.
LEMMA NewDoc ==
  ASSUME NEW mode \in Modes
  PROVE  LET m == [NoDoc EXCEPT !.stage = "new", !.mode = mode]
         IN m \in CycleDoc /\ m.stage = "new"
BY ServiceAssumption DEF NoDoc, CycleDoc, Stages, Judged, Measured, MaybeVerdict,
   RoadmapView, Marks, Absent

\* Start, which finds no document and leaves a new one or none.
LEMMA StartStep ==
  ASSUME NEW p \in Procs, TypeOK, Registers(p), Start(p), doc[Cyc(p)].stage = Absent
  PROVE  Data(p) /\ World(p) /\ Control(p)
<1>1. PICK mode \in Modes :
        Persist(p, [NoDoc EXCEPT !.stage = "new", !.mode = mode], "startLatest", "release")
  BY DEF Start
<1> DEFINE m == [NoDoc EXCEPT !.stage = "new", !.mode = mode]
<1>2. m \in CycleDoc /\ m.stage = "new"
  BY NewDoc
<1>3. Persist(p, m, "startLatest", "release")
  BY <1>1
<1> HIDE DEF m
<1>4. Cyc(p) \in Cycles /\ job[p].op \in Ops /\ pc[p] = "start" /\ UNCHANGED <<world, lock, job>>
  BY DEF Start, At, Registers
<1>5. Data(p)
  BY <1>2, <1>3, <1>4 DEF Data, TypeOK, Persist, Remember, Continue, Raise, Goto, Absent
<1>6. World(p)
  BY <1>4, QuietWorld
<1>7. Control(p)
  <2>1. Goes(p, "startLatest") \/ Goes(p, "release")
    BY <1>3, PersistGoes
  <2>2. PICK l \in {"startLatest", "release"} : Goes(p, l)
    BY <2>1
  <2>3. pc' = [pc EXCEPT ![p] = l] /\ pc'[p] = l /\ Cyc(p)' = Cyc(p)
    BY <1>4, <2>2 DEF Goes, Goto, TypeOK, Cyc
  <2>4. l \in Labels \ (Outside \cup {"start"})
    BY DEF Outside, Labels, ServiceLabels, ObservationLabels
  <2>5. Registers(p)'
    BY <1>4, <2>3 DEF Registers
  <2> QED BY <1>4, <2>2, <2>3, <2>4, <2>5 DEF Control, Goes, TypeOK
<1> QED BY <1>5, <1>6, <1>7

\* A step of a handler, of whichever module: it is taken inside the
\* operation, and changes what Data, World and Control say.
LEMMA HandlerStep ==
  ASSUME LockInv, CycleInv, NEW p \in Procs, Handler(p)
  PROVE  Critical(p) /\ Data(p) /\ World(p) /\ Control(p)
<1>1. Inside(p)
  BY HandlerInside DEF LockInv
<1>2. TypeOK /\ Registers(p) /\ Coherent(p) /\ Entered(p)
  BY DEF CycleInv, ControlOK
<1>3. CASE pc[p] = "start"
  <2>1. Start(p) /\ doc[Cyc(p)].stage = Absent
    BY <1>1, <1>2, <1>3 DEF Inside, Entered
  <2> QED BY <1>1, <1>2, <2>1, StartStep DEF Inside
<1>4. CASE pc[p] # "start"
  <2>1. Here(p)
    BY <1>1, <1>2, <1>4 DEF Here, Inside, Running, Registers, Critical, Outside
  <2>2. ~Start(p)
    BY <1>4 DEF Start, At
  <2>3. Data(p)
    BY <2>1, <2>2, ServiceData, ObservationData, ProposalData, DecisionData,
       ExecutionData, ReviewData, CompoundData DEF Handler, ObservationStep
  <2>4. World(p)
    BY <2>1, <2>2, ServiceWorld, ObservationWorld, ProposalWorld, DecisionWorld,
       ExecutionWorld, ReviewWorld, CompoundWorld DEF Handler, ObservationStep
  <2>5. Control(p)
    BY <2>1, <2>2, ServiceControl, ObservationControl, ProposalControl, DecisionControl,
       ExecutionControl, ReviewControl, CompoundControl DEF Handler, ObservationStep
  <2> QED BY <1>1, <2>3, <2>4, <2>5 DEF Inside
<1> QED BY <1>3, <1>4

\* Such a step keeps CycleInv.  The other invocations are outside their
\* operations, so it is enough that no document and no run disappears.
LEMMA HandlerKeeps ==
  ASSUME LockInv, CycleInv, NEW p \in Procs, Handler(p)
  PROVE  CycleInv'
<1>1. Critical(p) /\ Data(p) /\ World(p) /\ Control(p)
  BY HandlerStep
<1>2. TypeOK /\ ControlOK
  BY DEF CycleInv
<1>3. /\ pc'[p] \notin Outside \cup {"start"} /\ Cyc(p) \in Cycles /\ pc[p] \notin Outside
      /\ \A q \in Procs \ {p} : pc'[q] = pc[q] /\ job'[q] = job[q] /\ mem'[q] = mem[q]
      /\ \A q \in Procs : Cyc(q)' = Cyc(q)
  BY <1>1, <1>2 DEF Control, Data, TypeOK, Cyc, ControlOK, Registers, Critical, Outside
<1>4. TypeOK'
  <2>1. pc' \in [Procs -> Labels] /\ job' \in [Procs -> Jobs]
    BY <1>1, <1>2 DEF Control, TypeOK
  <2> QED BY <1>1, <1>2, <2>1 DEF TypeOK, Data, World, Control
<1>5. Registers(p)' /\ Coherent(p)' /\ Entered(p)'
  <2>1. Coherent(p)'
    BY <1>1, <1>3 DEF Data, Coherent, Running
  <2>2. Entered(p)'
    BY <1>3 DEF Entered, Outside
  <2> QED BY <1>1, <2>1, <2>2 DEF Control
<1>6. ASSUME NEW q \in Procs, q # p PROVE Registers(q)' /\ Coherent(q)' /\ Entered(q)'
  <2>1. pc'[q] \in Outside /\ ~Critical(q)
    BY <1>1, <1>3, <1>6 DEF LockInv, MutualExclusion, Critical
  <2>2. Registers(q) /\ Entered(q)
    BY <1>2 DEF ControlOK
  <2>3. Registers(q)'
    BY <1>3, <1>6, <2>1, <2>2 DEF Registers, Outside
  <2>4. Coherent(q)'
    BY <2>1 DEF Coherent, Running, Critical
  <2>5. \A c \in Cycles : doc[c].stage # Absent => doc'[c].stage # Absent
    BY <1>1, <1>3 DEF Data, Absent
  <2>6. Entered(q)'
    <3>1. pc[q] \in {"check", "acquire"} /\ job[q].op # "start" => doc'[Cyc(q)].stage # Absent
      BY <2>2, <2>5 DEF Entered, Registers
    <3>2. pc[q] \in {"check", "acquire"} /\ job[q].op = "start" =>
            doc'[Cyc(q)].stage = Absent /\ \A r \in Procs \ {q} : Cyc(r)' # Cyc(q)
      BY <1>1, <1>3, <1>6, <2>2 DEF Entered, Registers, Data
    <3> QED BY <1>3, <1>6, <2>1, <3>1, <3>2 DEF Entered, Outside
  <2> QED BY <2>3, <2>4, <2>6
<1> QED BY <1>4, <1>5, <1>6 DEF CycleInv, ControlOK

-----------------------------------------------------------------------------
(* The other steps: commands, the look before the lock, the lock, crashes. *)

\* A step of p that leaves documents and runs alone means nothing to another
\* invocation, unless it takes up the cycle that one is about to create.
LEMMA OthersKeep ==
  ASSUME CycleInv, NEW p \in Procs, UNCHANGED <<doc, kernel>>,
         NEW l, pc' = [pc EXCEPT ![p] = l],
         NEW j, job' = [job EXCEPT ![p] = j],
         NEW m, mem' = [mem EXCEPT ![p] = m],
         \A q \in Procs \ {p} :
           pc[q] # "idle" /\ doc[Cyc(q)].stage = Absent => j.cyc # Cyc(q)
  PROVE  \A q \in Procs \ {p} : Registers(q)' /\ Coherent(q)' /\ Entered(q)'
<1> SUFFICES ASSUME NEW q \in Procs, q # p
             PROVE  Registers(q)' /\ Coherent(q)' /\ Entered(q)'
  OBVIOUS
<1>1. TypeOK /\ Registers(q) /\ Coherent(q) /\ Entered(q)
  BY DEF CycleInv, ControlOK
<1>2. /\ pc'[q] = pc[q] /\ job'[q] = job[q] /\ mem'[q] = mem[q]
      /\ \A r \in Procs \ {p} : Cyc(r)' = Cyc(r)
      /\ Cyc(p)' = j.cyc
  BY <1>1 DEF TypeOK, Cyc
<1>3. Registers(q)'
  BY <1>1, <1>2 DEF Registers
<1>4. Coherent(q)'
  BY <1>1, <1>2 DEF Coherent, Running, Critical
<1>5. Entered(q)'
  BY <1>1, <1>2 DEF Entered
<1> QED BY <1>3, <1>4, <1>5

\* An invocation that is over has no cycle, and nothing depends on it.
LEMMA IdleKeeps ==
  ASSUME CycleInv, NEW p \in Procs, UNCHANGED <<doc, world>>,
         Goto(p, "idle"), job' = [job EXCEPT ![p] = NoJob],
         NEW m \in CycleDoc, mem' = [mem EXCEPT ![p] = m],
         faults' \in 0..MaxFaults, lock' \in Procs \cup {Free, Stale}
  PROVE  CycleInv'
<1>1. TypeOK /\ ControlOK
  BY DEF CycleInv
<1>2. NoJob \in Jobs /\ NoJob.cyc = NoCycle
  BY DEF NoJob, Jobs
<1>3. "idle" \in Labels
  BY DEF Labels, ServiceLabels
<1>4. TypeOK'
  BY <1>1, <1>2, <1>3 DEF TypeOK, Goto, world
<1>5. \A q \in Procs \ {p} : Registers(q)' /\ Coherent(q)' /\ Entered(q)'
  <2>1. \A q \in Procs : pc[q] # "idle" => Cyc(q) \in Cycles
    BY <1>1 DEF ControlOK, Registers
  <2>2. \A q \in Procs : pc[q] # "idle" => NoJob.cyc # Cyc(q)
    BY <1>2, <2>1, ServiceAssumption
  <2>3. pc' = [pc EXCEPT ![p] = "idle"] /\ UNCHANGED <<doc, kernel>>
    BY DEF Goto, world
  <2> QED BY <2>2, <2>3, OthersKeep
<1>6. pc'[p] = "idle"
  BY <1>1 DEF TypeOK, Goto
<1>7. Registers(p)' /\ Coherent(p)' /\ Entered(p)'
  BY <1>6 DEF Registers, Coherent, Running, Critical, Outside, Entered
<1> QED BY <1>4, <1>5, <1>7 DEF CycleInv, ControlOK

\* A cycle without a document, that no invocation works on, may be created;
\* one with a document may be worked on.
LEMMA InvokeKeeps ==
  ASSUME CycleInv, NEW p \in Procs, UNCHANGED <<doc, mem, world, lock>>,
         NEW op \in Ops, NEW c \in Cycles, NEW input \in {"none", "other"},
         NEW l \in {"check", "acquire"}, Invoke(p, op, c, input, l),
         \/ op # "start" /\ doc[c].stage # Absent
         \/ op = "start" /\ doc[c].stage = Absent /\ \A q \in Procs : Cyc(q) # c
  PROVE  CycleInv'
<1> DEFINE j == [NoJob EXCEPT !.op = op, !.cyc = c, !.got = input]
<1>1. TypeOK /\ ControlOK
  BY DEF CycleInv
<1>2. j \in Jobs /\ j.cyc = c /\ j.op = op
  BY DEF NoJob, Jobs, Ops
<1>3. /\ job' = [job EXCEPT ![p] = j] /\ pc' = [pc EXCEPT ![p] = l] /\ UNCHANGED faults
      /\ mem' = [mem EXCEPT ![p] = mem[p]]
  BY <1>1 DEF Invoke, Continue, Goto, TypeOK
<1> HIDE DEF j
<1>4. l \in Labels
  BY DEF Labels, ServiceLabels
<1>5. TypeOK'
  BY <1>1, <1>2, <1>3, <1>4 DEF TypeOK, world
<1>6. \A q \in Procs \ {p} : Registers(q)' /\ Coherent(q)' /\ Entered(q)'
  BY <1>2, <1>3, OthersKeep DEF world
<1>7. pc'[p] = l /\ job'[p] = j /\ Cyc(p)' = c /\ \A q \in Procs \ {p} : Cyc(q)' = Cyc(q)
  BY <1>1, <1>2, <1>3 DEF TypeOK, Cyc
<1>8. Registers(p)' /\ Coherent(p)' /\ Entered(p)'
  BY <1>2, <1>7 DEF Registers, Coherent, Running, Critical, Outside, Entered
<1> QED BY <1>5, <1>6, <1>8 DEF CycleInv, ControlOK

\* remontoire cycle, approve, decline and resume.
LEMMA CommandKeeps ==
  ASSUME CycleInv, NEW p \in Procs, Command(p)
  PROVE  CycleInv'
<1>1. PICK c \in Cycles : RunCycle(p, c) \/ RunDecision(p, c) \/ RunResume(p, c)
  BY DEF Command
<1>2. CASE RunCycle(p, c)
  BY <1>2, InvokeKeeps DEF RunCycle, Ops
<1>3. CASE RunDecision(p, c)
  BY <1>3, InvokeKeeps, DecisionsAssumption DEF RunDecision, Ops
<1>4. CASE RunResume(p, c)
  <2> DEFINE op == Route(doc[c])
             l == IF op \in {"execute", "review", "compound"} THEN "check" ELSE "acquire"
  <2>1. op # "none" /\ Invoke(p, op, c, "none", l) /\ UNCHANGED <<doc, mem, world, lock>>
    BY <1>4 DEF RunResume
  <2>2. op \in Ops /\ op # "start" /\ doc[c].stage # Absent
    BY <2>1 DEF Route, Ops, AwaitsSigning, Absent
  <2>3. l \in {"check", "acquire"}
    OBVIOUS
  <2> HIDE DEF op, l
  <2> QED BY <2>1, <2>2, <2>3, InvokeKeeps
<1> QED BY <1>1, <1>2, <1>3, <1>4

\* The stage looked at before the lock is asked for.
LEMMA PrecheckKeeps ==
  ASSUME CycleInv, NEW p \in Procs, Precheck(p)
  PROVE  CycleInv'
<1>1. TypeOK /\ ControlOK
  BY DEF CycleInv
<1>2. UNCHANGED <<doc, mem, world, lock>> /\ pc[p] = "check"
  BY DEF Precheck, At
<1>3. mem[p] \in CycleDoc /\ mem' = [mem EXCEPT ![p] = mem[p]]
  BY <1>1, <1>2 DEF TypeOK
<1>4. CASE Continue(p, "acquire") /\ UNCHANGED job
  <2>1. job' = [job EXCEPT ![p] = job[p]] /\ pc' = [pc EXCEPT ![p] = "acquire"]
    BY <1>1, <1>4 DEF TypeOK, Continue, Goto
  <2>2. "acquire" \in Labels
    BY DEF Labels, ServiceLabels
  <2>3. TypeOK'
    BY <1>1, <1>2, <1>4, <2>1, <2>2 DEF TypeOK, world, Continue
  <2>4. Registers(p) /\ Entered(p) /\ \A q \in Procs : Registers(q) /\ Entered(q)
    BY <1>1 DEF ControlOK
  <2>5. \A q \in Procs \ {p} :
           pc[q] # "idle" /\ doc[Cyc(q)].stage = Absent => job[p].cyc # Cyc(q)
    BY <1>2, <2>4 DEF Entered, Cyc
  <2>6. \A q \in Procs \ {p} : Registers(q)' /\ Coherent(q)' /\ Entered(q)'
    BY <1>2, <1>3, <2>1, <2>5, OthersKeep DEF world
  <2>7. pc'[p] = "acquire" /\ \A q \in Procs : Cyc(q)' = Cyc(q)
    BY <1>1, <1>4, <2>1 DEF TypeOK, Cyc
  <2>8. Registers(p)' /\ Coherent(p)' /\ Entered(p)'
    BY <1>2, <1>4, <2>4, <2>7
    DEF Registers, Coherent, Running, Critical, Outside, Entered
  <2> QED BY <2>3, <2>6, <2>8 DEF CycleInv, ControlOK
<1>5. CASE ~(Continue(p, "acquire") /\ UNCHANGED job)
  <2>1. Goto(p, "idle") /\ job' = [job EXCEPT ![p] = NoJob] /\ faults' \in 0..MaxFaults
    BY <1>1, <1>5, CallsGo DEF Precheck, Goes
  <2>2. lock' \in Procs \cup {Free, Stale}
    BY <1>1, <1>2 DEF TypeOK
  <2> QED BY <1>2, <1>3, <2>1, <2>2, IdleKeeps
<1> QED BY <1>4, <1>5

\* The lock is granted, with or without a document that could be read.
LEMMA AcquireKeeps ==
  ASSUME CycleInv, NEW p \in Procs, Acquire(p)
  PROVE  CycleInv'
<1>1. TypeOK /\ ControlOK /\ Registers(p) /\ Entered(p)
  BY DEF CycleInv, ControlOK
<1>2. pc[p] = "acquire" /\ UNCHANGED <<doc, world>>
  BY DEF Acquire, At
<1>3. Cyc(p) \in Cycles /\ job[p].op \in Ops
  BY <1>1, <1>2 DEF Registers
<1>4. doc[Cyc(p)] \in CycleDoc /\ mem[p] \in CycleDoc /\ job[p] \in Jobs
      /\ mem = [mem EXCEPT ![p] = mem[p]] /\ job = [job EXCEPT ![p] = job[p]]
  BY <1>1, <1>3 DEF TypeOK
<1>5. CASE /\ lock' = p /\ Call(p, Body[job[p].op], job[p].op)
           /\ Remember(p, doc[Cyc(p)]) /\ UNCHANGED faults
  <2> DEFINE l == Body[job[p].op]
             j == [job[p] EXCEPT !.ret = job[p].op]
  <2>1. /\ l \in {"start", "ensureRun", "event"} /\ (l = "start" <=> job[p].op = "start")
        /\ (l = "event" => job[p].op \in Conts)
    BY <1>3 DEF Body, Ops, Conts
  <2>2. l \in Labels /\ job[p].op \in Labels
    BY <1>3, <2>1 DEF Ops, Labels, ServiceLabels, ObservationLabels, ProposalLabels,
       DecisionLabels, ExecutionLabels, ReviewLabels, CompoundLabels
  <2>3. j \in Jobs /\ j.ret = job[p].op /\ j.cyc = job[p].cyc /\ j.op = job[p].op
    BY <1>4, <2>2, JobFields
  <2>4. /\ pc' = [pc EXCEPT ![p] = l] /\ job' = [job EXCEPT ![p] = j]
        /\ mem' = [mem EXCEPT ![p] = doc[Cyc(p)]]
    BY <1>5 DEF Call, Goto, Remember
  <2> HIDE DEF l, j
  <2>5. TypeOK'
    BY <1>1, <1>2, <1>4, <1>5, <2>2, <2>3, <2>4 DEF TypeOK, world
  <2>6. /\ pc'[p] = l /\ job'[p] = j /\ mem'[p] = doc[Cyc(p)]
        /\ \A q \in Procs : Cyc(q)' = Cyc(q)
    BY <1>1, <2>3, <2>4 DEF TypeOK, Cyc
  <2>7. \A q \in Procs \ {p} :
           pc[q] # "idle" /\ doc[Cyc(q)].stage = Absent => j.cyc # Cyc(q)
    BY <1>1, <1>2, <2>3 DEF Entered, Cyc
  <2>8. \A q \in Procs \ {p} : Registers(q)' /\ Coherent(q)' /\ Entered(q)'
    BY <1>2, <2>4, <2>7, OthersKeep DEF world
  <2>9. Registers(p)'
    BY <1>3, <2>1, <2>3, <2>6 DEF Registers
  <2>10. Coherent(p)'
    BY <1>1, <1>2, <2>1, <2>6 DEF Coherent, Running, Entered
  <2>11. Entered(p)'
    BY <1>1, <1>2, <2>1, <2>3, <2>6 DEF Entered
  <2> QED BY <2>5, <2>8, <2>9, <2>10, <2>11 DEF CycleInv, ControlOK
<1>6. CASE lock' = p /\ Raise(p, "release") /\ UNCHANGED <<job, mem>>
  <2>1. pc' = [pc EXCEPT ![p] = "release"] /\ faults' \in 0..MaxFaults
    BY <1>1, <1>6, CallsGo DEF Goes, Goto
  <2>2. "release" \in Labels
    BY DEF Labels, ServiceLabels
  <2>3. TypeOK'
    BY <1>1, <1>2, <1>6, <2>1, <2>2 DEF TypeOK, world
  <2>4. \A q \in Procs \ {p} :
           pc[q] # "idle" /\ doc[Cyc(q)].stage = Absent => job[p].cyc # Cyc(q)
    BY <1>1, <1>2 DEF Entered, Cyc
  <2>5. \A q \in Procs \ {p} : Registers(q)' /\ Coherent(q)' /\ Entered(q)'
    BY <1>2, <1>4, <1>6, <2>1, <2>4, OthersKeep DEF world
  <2>6. pc'[p] = "release" /\ job'[p] = job[p] /\ Cyc(p)' = Cyc(p)
    BY <1>1, <1>6, <2>1 DEF TypeOK, Cyc
  <2>7. Registers(p)' /\ Coherent(p)' /\ Entered(p)'
    BY <1>3, <2>6 DEF Registers, Coherent, Running, Entered
  <2> QED BY <2>3, <2>5, <2>7 DEF CycleInv, ControlOK
<1>7. CASE lock' \in {Free, Stale} /\ Raise(p, "idle")
           /\ job' = [job EXCEPT ![p] = NoJob] /\ UNCHANGED mem
  BY <1>1, <1>2, <1>4, <1>7, CallsGo, IdleKeeps DEF Goes
<1>8. CASE Continue(p, "idle") /\ job' = [job EXCEPT ![p] = NoJob] /\ UNCHANGED <<lock, mem>>
  <2>1. lock' \in Procs \cup {Free, Stale}
    BY <1>1, <1>8 DEF TypeOK
  <2> QED BY <1>1, <1>2, <1>4, <1>8, <2>1, CallsGo, IdleKeeps DEF Goes
<1> QED BY <1>5, <1>6, <1>7, <1>8 DEF Acquire

\* The operation ends, or the invocation dies.
LEMMA LeaveKeeps ==
  ASSUME CycleInv, NEW p \in Procs, Release(p) \/ Crash(p)
  PROVE  CycleInv'
<1>1. TypeOK
  BY DEF CycleInv
<1>2. NoDoc \in CycleDoc
  BY DEF NoDoc, CycleDoc, Stages, Judged, Measured, MaybeVerdict, RoadmapView, Marks, Absent
<1>3. /\ UNCHANGED <<doc, world>> /\ job' = [job EXCEPT ![p] = NoJob]
      /\ mem' = [mem EXCEPT ![p] = NoDoc]
      /\ Continue(p, "idle") \/ Raise(p, "idle")
      /\ lock' \in Procs \cup {Free, Stale}
  BY <1>1 DEF Release, Crash, Remember, TypeOK
<1> QED BY <1>1, <1>2, <1>3, CallsGo, IdleKeeps DEF Goes

\* The lock of an invocation that is gone is broken.
LEMMA ReclaimKeeps ==
  ASSUME CycleInv, ReclaimLock
  PROVE  CycleInv'
<1>1. /\ UNCHANGED <<doc, world, pc, job, mem, faults>> /\ lock' = Free
  BY DEF ReclaimLock
<1>2. TypeOK'
  BY <1>1 DEF CycleInv, TypeOK, world
<1>3. ControlOK'
  BY <1>1 DEF CycleInv, ControlOK, Registers, Coherent, Running, Critical, Entered, Cyc, world
<1> QED BY <1>2, <1>3 DEF CycleInv

-----------------------------------------------------------------------------
(* Types and stages. *)

\* CycleInv is inductive relative to the lock.
LEMMA CycleInvariance == Spec => []CycleInv
<1>1. Init => CycleInv
  <2> SUFFICES ASSUME Init PROVE CycleInv
    OBVIOUS
  <2>1. TypeOK
    <3>1. NoDoc \in CycleDoc
      BY DEF NoDoc, CycleDoc, Stages, Judged, Measured, MaybeVerdict, RoadmapView, Marks, Absent
    <3>2. KernelInit \in KernelType
      BY DEF KernelInit, KernelType, MaybeVerdict, Verdicts
    <3>3. BacklogInit \in BacklogType /\ CallsInit \in CallsType
      BY DEF BacklogInit, BacklogType, RoadmapView, CallsInit, CallsType
    <3>4. FilesInit \in FilesType
      BY <3>1 DEF FilesInit, FilesType, Judged, Measured, MaybeVerdict, RoadmapView
    <3>5. NoJob \in Jobs /\ "idle" \in Labels /\ 0 \in 0..MaxFaults
      BY ServiceAssumption DEF NoJob, Jobs, Labels, ServiceLabels
    <3> QED BY <3>1, <3>2, <3>3, <3>4, <3>5 DEF Init, ServiceInit, TypeOK
  <2>2. ControlOK
    BY DEF Init, ServiceInit, ControlOK, Registers, Coherent, Running, Critical, Outside, Entered
  <2> QED BY <2>1, <2>2 DEF CycleInv
<1>2. LockInv /\ CycleInv /\ [Next]_vars => CycleInv'
  <2> SUFFICES ASSUME LockInv, CycleInv, [Next]_vars PROVE CycleInv'
    OBVIOUS
  <2>1. CASE UNCHANGED vars
    BY <2>1 DEF vars, CycleInv, TypeOK, ControlOK, Registers, Coherent, Running, Critical,
       Entered, Cyc
  <2>2. CASE ReclaimLock
    BY <2>2, ReclaimKeeps
  <2>3. ASSUME NEW p \in Procs, Step(p) PROVE CycleInv'
    BY <2>3, HandlerKeeps, PrecheckKeeps, AcquireKeeps, LeaveKeeps
    DEF Step, ServiceStep, Handler
  <2>4. ASSUME NEW p \in Procs, Command(p) \/ Crash(p) PROVE CycleInv'
    BY <2>4, CommandKeeps, LeaveKeeps
  <2> QED BY <2>1, <2>2, <2>3, <2>4 DEF Next
<1> QED BY <1>1, <1>2, LockInvariant, PTL DEF Spec

\* Every variable keeps its type, whatever fails.
THEOREM TypeCorrect == Spec => []TypeOK
BY CycleInvariance, PTL DEF CycleInv

\* StageMachine extends Domain as the program does.
LEMMA SameDomain ==
  /\ Machine!Absent = Absent /\ Machine!Stages = Stages
  /\ \A s, t : Machine!ValidateTransition(s, t) <=> ValidateTransition(s, t)
<1>1. /\ Machine!Absent = Absent /\ Machine!Stages = Stages
      /\ Machine!ForwardEdges = ForwardEdges
  BY DEF Machine!Absent, Absent, Machine!Stages, Stages, Machine!ForwardEdges, ForwardEdges
<1>2. Machine!ActiveStages = ActiveStages
  BY <1>1 DEF Machine!ActiveStages, ActiveStages
<1> QED BY <1>1, <1>2 DEF Machine!ValidateTransition, ValidateTransition

\* The stages of the documents implement StageMachine: a cycle is created
\* once, and every change of its stage is an edge of ValidateTransition.
THEOREM StagesImplementMachine == Spec => StagesLegal
<1> DEFINE stages == [c \in Cycles |-> doc[c].stage]
<1>1. Init => Machine!Init
  BY SameDomain DEF Init, ServiceInit, NoDoc, Machine!Init
<1>2. LockInv /\ CycleInv /\ [Next]_vars => [Machine!Next]_stages
  <2> SUFFICES ASSUME LockInv, CycleInv, [Next]_vars PROVE [Machine!Next]_stages
    OBVIOUS
  <2>1. CASE UNCHANGED doc
    BY <2>1
  <2>2. ASSUME NEW p \in Procs, Handler(p) PROVE [Machine!Next]_stages
    <3>1. Data(p) /\ Cyc(p) \in Cycles
      BY <2>2, HandlerStep DEF CycleInv, ControlOK, Registers, Critical, Outside
    <3> DEFINE c == Cyc(p)
               next == doc'[c].stage
    <3>2. stages' = [stages EXCEPT ![c] = next]
      BY <3>1 DEF Data
    <3>3. CASE next = doc[c].stage
      BY <3>1, <3>2, <3>3
    <3>4. CASE doc[c].stage = Absent /\ next = "new"
      BY <3>1, <3>2, <3>4, SameDomain DEF Machine!Next, Machine!Create
    <3>5. CASE ValidateTransition(doc[c].stage, next) /\ next # Absent
      <4>1. next \in Stages
        BY <3>1, <3>5 DEF Data, CycleDoc
      <4> QED BY <3>1, <3>2, <3>5, <4>1, SameDomain DEF Machine!Next, Machine!Move
    <3> QED BY <3>1, <3>3, <3>4, <3>5 DEF Data
  <2>3. CASE UNCHANGED <<doc, world>>
    BY <2>1, <2>3
  <2> QED BY <2>1, <2>2, <2>3, NextIsHandlerOrQuiet DEF vars
<1> QED BY <1>1, <1>2, LockInvariant, CycleInvariance, PTL DEF Spec, StagesLegal, Machine!Spec

-----------------------------------------------------------------------------
(* The way through the handlers. *)

\* transition, or a look at the current stage's event, that goes on to k.
LEMMA EventFlow ==
  ASSUME NEW p \in Procs, Here(p), pc[p] \notin Shared, NEW k \in Labels,
         k \notin Entries \cup {"terminalize"}, k = "release" \/ <<pc[p], k>> \in Edges,
         \/ \E m, next : Transition(p, m, next, k)
         \/ Call(p, "event", k)
  PROVE  Flow(p)
<1>1. pc'[p] \in {"event", "release"} /\ (pc'[p] = "event" => job'[p].ret = k)
  <2>1. ASSUME NEW m, NEW next, Transition(p, m, next, k)
        PROVE  pc'[p] \in {"event", "release"} /\ (pc'[p] = "event" => job'[p].ret = k)
    <3>1. CASE ValidateTransition(m.stage, next)
      BY <2>1, <3>1 DEF Transition, Persist, Continue, Raise, Goto, Here, TypeOK, Jobs
    <3>2. CASE ~ValidateTransition(m.stage, next)
      BY <2>1, <3>2 DEF Transition, Continue, Goto, Here, TypeOK
    <3> QED BY <3>1, <3>2
  <2> QED BY <2>1 DEF Call, Goto, Here, TypeOK, Jobs
<1> QED BY <1>1 DEF Flow, Out, Heading, Shared, Through

\* transition that ends the operation.
LEMMA EndFlow ==
  ASSUME NEW p \in Procs, Here(p), pc[p] \notin Shared, NEW m, NEW next,
         Transition(p, m, next, "release")
  PROVE  Flow(p)
<1>1. "release" \in Labels \ (Entries \cup {"terminalize"})
  BY DEF Labels, ServiceLabels, Entries
<1> QED BY <1>1, EventFlow

\* advanceOnce for the key k.
LEMMA AdvanceFlow ==
  ASSUME NEW p \in Procs, Here(p), pc[p] \notin Shared, NEW k \in RunKeys \cup TerminalKeys,
         <<pc[p], Back[k]>> \in Edges, Advance(p, k, Back[k])
  PROVE  Flow(p)
<1>1. pc'[p] = "advance" /\ job'[p].ret = Back[k] /\ job'[p].adv = k
  BY DEF Advance, Continue, Goto, Here, TypeOK, Jobs
<1> QED BY <1>1 DEF Flow, Out, Heading, Shared, Through

\* Flow: the shared procedures.
LEMMA ServiceFlow ==
  ASSUME NEW p \in Procs, Here(p),
         \/ EnsureStageEvent(p) \/ SaveStageEvent(p) \/ Fail(p) \/ BeginAdvance(p)
         \/ AdvanceRun(p) \/ FinishAdvance(p)
  PROVE  Flow(p)
<1> USE DEF Flow, Out, Heading, Shared, Here, TypeOK, At, Goto, Continue, Raise, Jump
<1>1. CASE EnsureStageEvent(p)
  BY <1>1 DEF EnsureStageEvent, Registers, Inner, Conts
<1>2. CASE SaveStageEvent(p)
  BY <1>2 DEF SaveStageEvent, Persist, Registers
<1>3. CASE Fail(p)
  <2>1. CASE Transition(p, mem[p], "failed", "release")
    <3>1. pc[p] \notin Shared
      BY <1>3 DEF Fail
    <3> HIDE DEF Flow, Out, Heading
    <3> QED BY <2>1, <3>1, EndFlow
  <2> QED BY <1>3, <2>1 DEF Fail
<1>4. CASE BeginAdvance(p)
  <2>1. job'[p] = job[p] /\ pc[p] = "advance" /\ job[p].ret \in Conts
    BY <1>4 DEF BeginAdvance, Registers
  <2>2. pc'[p] \in {job[p].ret, "advanceRun", "fail", "release"}
    BY <1>4 DEF BeginAdvance, Persist, AdvanceError
  <2> QED BY <2>1, <2>2 DEF Inner, Conts
<1>5. CASE AdvanceRun(p)
  <2>1. job'[p] = job[p] /\ pc[p] = "advanceRun"
    BY <1>5 DEF AdvanceRun
  <2>2. pc'[p] \in {"advanceSave", "fail", "release"}
    BY <1>5 DEF AdvanceRun, AdvanceError
  <2> QED BY <2>1, <2>2 DEF Inner
<1>6. CASE FinishAdvance(p)
  BY <1>6 DEF FinishAdvance, Persist, AdvanceError, Registers
<1> QED BY <1>1, <1>2, <1>3, <1>4, <1>5, <1>6

\* Flow: CycleObservation.
LEMMA ObservationFlow ==
  ASSUME NEW p \in Procs, Here(p),
         \/ StartLatest(p) \/ EnsureCycleRun(p) \/ SaveCycleRun(p)
         \/ ContinueObservation(p) \/ EnterObserving(p) \/ CaptureObservation(p)
         \/ Observe(p) \/ WriteObservation(p) \/ ClaimRegistration(p)
         \/ SendRegistration(p) \/ SaveObservation(p) \/ ClaimJudgment(p)
         \/ JudgeFirst(p) \/ SaveFirstAttempt(p) \/ FilterJudgment(p) \/ JudgeAgain(p)
         \/ SaveSecondAttempt(p) \/ RejectSecondAttempt(p) \/ WriteJudgment(p)
         \/ SaveJudgment(p) \/ AdvanceToRank(p) \/ EnterRanked(p) \/ FinishRanked(p)
  PROVE  Flow(p)
<1> USE DEF Flow, Out, Heading, Shared, Here, TypeOK, At, Goto, Continue, Raise, Jump
<1>1. CASE StartLatest(p)
  BY <1>1 DEF StartLatest, Edges, ObservationEdges
<1>2. CASE EnsureCycleRun(p)
  BY <1>2 DEF EnsureCycleRun, Edges, ObservationEdges
<1>3. CASE SaveCycleRun(p)
  BY <1>3 DEF SaveCycleRun, Persist, Edges, ObservationEdges
<1>4. CASE ContinueObservation(p)
  <2>1. CASE Call(p, "event", "finishRanked")
    <3> HIDE DEF Flow, Out, Heading
    <3>1. <<pc[p], "finishRanked">> \in Edges /\ "finishRanked" \in Labels
      BY <1>4 DEF ContinueObservation, Edges, ObservationEdges, Labels, ObservationLabels
    <3>2. "finishRanked" \notin Entries \cup {"terminalize"} /\ pc[p] \notin Shared
      BY <1>4 DEF Entries, ContinueObservation
    <3> QED BY <2>1, <3>1, <3>2, EventFlow
  <2>2. CASE Continue(p, "observing") \/ Raise(p, "release") \/ Continue(p, "release")
    BY <1>4, <2>2 DEF ContinueObservation, Edges, ObservationEdges
  <2> QED BY <1>4, <2>1, <2>2 DEF ContinueObservation
<1>5. CASE EnterObserving(p)
  <2> HIDE DEF Flow, Out, Heading
  <2>1. pc[p] = "observing" /\ (Transition(p, mem[p], "observing", "capture") \/ Call(p, "event", "capture"))
    BY <1>5 DEF EnterObserving
  <2>2. <<"observing", "capture">> \in Edges /\ "capture" \in Labels
    BY DEF Edges, ObservationEdges, Labels, ObservationLabels
  <2>3. "capture" \notin Entries \cup {"terminalize"}
    BY DEF Entries
  <2> QED BY <2>1, <2>2, <2>3, EventFlow
<1>6. CASE CaptureObservation(p)
  BY <1>6 DEF CaptureObservation, Persist, Edges,
     ObservationEdges
<1>7. CASE Observe(p)
  BY <1>7 DEF Observe, Edges, ObservationEdges
<1>8. CASE WriteObservation(p)
  BY <1>8 DEF WriteObservation, Edges, ObservationEdges
<1>9. CASE ClaimRegistration(p)
  BY <1>9 DEF ClaimRegistration, Persist, Edges,
     ObservationEdges
<1>10. CASE SendRegistration(p)
  BY <1>10 DEF SendRegistration, Edges, ObservationEdges
<1>11. CASE SaveObservation(p)
  BY <1>11 DEF SaveObservation, Persist, Edges,
     ObservationEdges
<1>12. CASE ClaimJudgment(p)
  BY <1>12 DEF ClaimJudgment, Persist, Got, Jobs, Edges,
     ObservationEdges
<1>13. CASE JudgeFirst(p)
  BY <1>13 DEF JudgeFirst, InvokeJudge, Got, Jobs, Edges,
     ObservationEdges
<1>14. CASE SaveFirstAttempt(p)
  BY <1>14 DEF SaveFirstAttempt, Persist, Edges,
     ObservationEdges
<1>15. CASE FilterJudgment(p)
  BY <1>15 DEF FilterJudgment, Persist, Edges,
     ObservationEdges
<1>16. CASE JudgeAgain(p)
  BY <1>16 DEF JudgeAgain, InvokeJudge, Got, Jobs, Edges,
     ObservationEdges
<1>17. CASE SaveSecondAttempt(p)
  BY <1>17 DEF SaveSecondAttempt, Persist, Edges,
     ObservationEdges
<1>18. CASE RejectSecondAttempt(p)
  BY <1>18 DEF RejectSecondAttempt, Edges,
     ObservationEdges
<1>19. CASE WriteJudgment(p)
  BY <1>19 DEF WriteJudgment, Edges, ObservationEdges
<1>20. CASE SaveJudgment(p)
  BY <1>20 DEF SaveJudgment, Persist, Edges, ObservationEdges
<1>21. CASE AdvanceToRank(p)
  <2> HIDE DEF Flow, Out, Heading
  <2>1. pc[p] = "rankAdvance" /\ Advance(p, "run:rank", Back["run:rank"])
    BY <1>21 DEF AdvanceToRank, RunKeys, Back
  <2>2. <<"rankAdvance", Back["run:rank"]>> \in Edges
    BY DEF Edges, ObservationEdges, RunKeys, Back
  <2>3. "run:rank" \in RunKeys \cup TerminalKeys
    BY DEF RunKeys
  <2> QED BY <2>1, <2>2, <2>3, AdvanceFlow
<1>22. CASE EnterRanked(p)
  <2> HIDE DEF Flow, Out, Heading
  <2>1. pc[p] = "rankEnter" /\ (Transition(p, mem[p], "ranked", "finishRanked"))
    BY <1>22 DEF EnterRanked
  <2>2. <<"rankEnter", "finishRanked">> \in Edges /\ "finishRanked" \in Labels
    BY DEF Edges, ObservationEdges, Labels, ObservationLabels
  <2>3. "finishRanked" \notin Entries \cup {"terminalize"}
    BY DEF Entries
  <2> QED BY <2>1, <2>2, <2>3, EventFlow
<1>23. CASE FinishRanked(p)
  BY <1>23 DEF FinishRanked, Edges, ObservationEdges
<1> QED BY <1>1, <1>2, <1>3, <1>4, <1>5, <1>6, <1>7, <1>8, <1>9, <1>10, <1>11, <1>12, <1>13,
     <1>14, <1>15, <1>16, <1>17, <1>18, <1>19, <1>20, <1>21, <1>22, <1>23

\* Flow: CycleProposal.
LEMMA ProposalFlow ==
  ASSUME NEW p \in Procs, Here(p),
         \/ ResumeProposal(p) \/ LoadSnapshot(p) \/ ListBacklog(p)
         \/ CreateExperiment(p) \/ AdvanceToPropose(p) \/ EnterProposed(p)
         \/ EnterAwaitingApproval(p) \/ WriteSnapshot(p) \/ SaveSnapshot(p)
         \/ ClaimSnapshot(p) \/ SendSnapshot(p) \/ SaveRegistered(p) \/ EnterNoOp(p)
         \/ CompleteNoOp(p)
  PROVE  Flow(p)
<1> USE DEF Flow, Out, Heading, Shared, Here, TypeOK, At, Goto, Continue, Raise, Jump
<1>1. CASE ResumeProposal(p)
  BY <1>1 DEF ResumeProposal, Edges, ProposalEdges
<1>2. CASE LoadSnapshot(p)
  BY <1>2 DEF LoadSnapshot, Persist, Edges, ProposalEdges
<1>3. CASE ListBacklog(p)
  BY <1>3 DEF ListBacklog, Edges, ProposalEdges
<1>4. CASE CreateExperiment(p)
  BY <1>4 DEF CreateExperiment, Edges, ProposalEdges
<1>5. CASE AdvanceToPropose(p)
  <2> HIDE DEF Flow, Out, Heading
  <2>1. pc[p] = "proposeAdvance" /\ Advance(p, "run:propose", Back["run:propose"])
    BY <1>5 DEF AdvanceToPropose, RunKeys, Back
  <2>2. <<"proposeAdvance", Back["run:propose"]>> \in Edges
    BY DEF Edges, ProposalEdges, RunKeys, Back
  <2>3. "run:propose" \in RunKeys \cup TerminalKeys
    BY DEF RunKeys
  <2> QED BY <2>1, <2>2, <2>3, AdvanceFlow
<1>6. CASE EnterProposed(p)
  <2> HIDE DEF Flow, Out, Heading
  <2>1. pc[p] = "proposeEnter" /\ (Transition(p, mem[p], "proposed", "awaitEnter"))
    BY <1>6 DEF EnterProposed
  <2>2. <<"proposeEnter", "awaitEnter">> \in Edges /\ "awaitEnter" \in Labels
    BY DEF Edges, ProposalEdges, Labels, ProposalLabels
  <2>3. "awaitEnter" \notin Entries \cup {"terminalize"}
    BY DEF Entries
  <2> QED BY <2>1, <2>2, <2>3, EventFlow
<1>7. CASE EnterAwaitingApproval(p)
  <2>1. pc[p] \notin Shared /\ Transition(p, mem[p], "awaiting_approval", "release")
    BY <1>7 DEF EnterAwaitingApproval
  <2> HIDE DEF Flow, Out, Heading
  <2> QED BY <2>1, EndFlow
<1>8. CASE WriteSnapshot(p)
  BY <1>8 DEF WriteSnapshot, Edges, ProposalEdges
<1>9. CASE SaveSnapshot(p)
  BY <1>9 DEF SaveSnapshot, Persist, Edges, ProposalEdges
<1>10. CASE ClaimSnapshot(p)
  BY <1>10 DEF ClaimSnapshot, Persist, Edges, ProposalEdges
<1>11. CASE SendSnapshot(p)
  BY <1>11 DEF SendSnapshot, Edges, ProposalEdges
<1>12. CASE SaveRegistered(p)
  BY <1>12 DEF SaveRegistered, Persist, Edges, ProposalEdges
<1>13. CASE EnterNoOp(p)
  <2> HIDE DEF Flow, Out, Heading
  <2>1. pc[p] = "noop" /\ Transition(p, mem[p], "no_op", "noopComplete")
    BY <1>13 DEF EnterNoOp
  <2>2. <<"noop", "noopComplete">> \in Edges /\ "noopComplete" \in Labels
    BY DEF Edges, ProposalEdges, Labels, ProposalLabels
  <2>3. "noopComplete" \notin Entries \cup {"terminalize"}
    BY DEF Entries
  <2> QED BY <2>1, <2>2, <2>3, EventFlow
<1>14. CASE CompleteNoOp(p)
  <2>1. pc[p] \notin Shared /\ Transition(p, mem[p], "completed", "release")
    BY <1>14 DEF CompleteNoOp
  <2> HIDE DEF Flow, Out, Heading
  <2> QED BY <2>1, EndFlow
<1> QED BY <1>1, <1>2, <1>3, <1>4, <1>5, <1>6, <1>7, <1>8, <1>9, <1>10, <1>11, <1>12, <1>13,
     <1>14

\* Flow: CycleDecision.
LEMMA DecisionFlow ==
  ASSUME NEW p \in Procs, Here(p),
         \/ Approve(p) \/ Decline(p) \/ EnterDeclined(p) \/ CloseDeclined(p)
         \/ SaveDeclineClosed(p) \/ CompleteDeclined(p)
  PROVE  Flow(p)
<1> USE DEF Flow, Out, Heading, Shared, Here, TypeOK, At, Goto, Continue, Raise, Jump
<1>1. CASE Approve(p)
  <2>1. CASE Transition(p, [mem[p] EXCEPT !.approved = TRUE], "approved", "release")
    <3>1. pc[p] \notin Shared
      BY <1>1 DEF Approve
    <3> HIDE DEF Flow, Out, Heading
    <3> QED BY <2>1, <3>1, EndFlow
  <2> QED BY <1>1, <2>1 DEF Approve
<1>2. CASE Decline(p)
  BY <1>2 DEF Decline, Persist, Edges, DecisionEdges
<1>3. CASE EnterDeclined(p)
  <2>1. CASE Transition(p, mem[p], "declined", "declineClose")
    BY <1>3, <2>1, EventFlow DEF EnterDeclined, Edges, DecisionEdges, Entries, Labels,
       DecisionLabels
  <2> QED BY <1>3, <2>1 DEF EnterDeclined, Edges, DecisionEdges
<1>4. CASE CloseDeclined(p)
  BY <1>4 DEF CloseDeclined, Edges, DecisionEdges
<1>5. CASE SaveDeclineClosed(p)
  BY <1>5 DEF SaveDeclineClosed, Persist, Edges,
     DecisionEdges
<1>6. CASE CompleteDeclined(p)
  <2>1. pc[p] \notin Shared /\ Transition(p, mem[p], "completed", "release")
    BY <1>6 DEF CompleteDeclined
  <2> HIDE DEF Flow, Out, Heading
  <2> QED BY <2>1, EndFlow
<1> QED BY <1>1, <1>2, <1>3, <1>4, <1>5, <1>6

\* Flow: CycleExecution.
LEMMA ExecutionFlow ==
  ASSUME NEW p \in Procs, Here(p),
         \/ PrepareExecution(p) \/ AdvanceToExecute(p) \/ EnterExecuting(p)
         \/ ClaimExecution(p) \/ InvokeExecutor(p) \/ WriteReport(p)
         \/ CollectExecution(p) \/ ClaimBenchmark(p) \/ Measure(p)
         \/ WriteMeasurement(p) \/ SaveMeasurement(p) \/ AdvanceToReview(p)
         \/ EnterReviewing(p)
  PROVE  Flow(p)
<1> USE DEF Flow, Out, Heading, Shared, Here, TypeOK, At, Goto, Continue, Raise, Jump
<1>1. CASE PrepareExecution(p)
  BY <1>1 DEF PrepareExecution, Persist, Edges,
     ExecutionEdges
<1>2. CASE AdvanceToExecute(p)
  <2>1. CASE Advance(p, "run:execute", "executeEnter")
    <3> HIDE DEF Flow, Out, Heading
    <3>1. pc[p] = "executeAdvance" /\ Advance(p, "run:execute", Back["run:execute"])
      BY <1>2, <2>1 DEF AdvanceToExecute, RunKeys, Back
    <3>2. <<"executeAdvance", Back["run:execute"]>> \in Edges
      BY DEF Edges, ExecutionEdges, RunKeys, Back
    <3>3. "run:execute" \in RunKeys \cup TerminalKeys
      BY DEF RunKeys
    <3> QED BY <3>1, <3>2, <3>3, AdvanceFlow
  <2> QED BY <1>2, <2>1 DEF AdvanceToExecute, Edges, ExecutionEdges
<1>3. CASE EnterExecuting(p)
  <2>1. CASE Transition(p, mem[p], "executing", "executeAttempt")
    BY <1>3, <2>1, EventFlow, ZenonT(40)
       DEF EnterExecuting, Edges, ExecutionEdges, Entries, Labels,
       ExecutionLabels
  <2> QED BY <1>3, <2>1 DEF EnterExecuting, Edges, ExecutionEdges
<1>4. CASE ClaimExecution(p)
  BY <1>4 DEF ClaimExecution, Persist, Got, Jobs, Edges,
     ExecutionEdges
<1>5. CASE InvokeExecutor(p)
  BY <1>5 DEF InvokeExecutor, Got, Jobs, Edges, ExecutionEdges
<1>6. CASE WriteReport(p)
  BY <1>6 DEF WriteReport, Edges, ExecutionEdges
<1>7. CASE CollectExecution(p)
  BY <1>7 DEF CollectExecution, Persist, Edges,
     ExecutionEdges
<1>8. CASE ClaimBenchmark(p)
  BY <1>8 DEF ClaimBenchmark, Persist, Edges, ExecutionEdges
<1>9. CASE Measure(p)
  BY <1>9 DEF Measure, Edges, ExecutionEdges
<1>10. CASE WriteMeasurement(p)
  BY <1>10 DEF WriteMeasurement, Edges, ExecutionEdges
<1>11. CASE SaveMeasurement(p)
  BY <1>11 DEF SaveMeasurement, Persist, Edges,
     ExecutionEdges
<1>12. CASE AdvanceToReview(p)
  <2> HIDE DEF Flow, Out, Heading
  <2>1. pc[p] = "reviewAdvance" /\ Advance(p, "run:review", Back["run:review"])
    BY <1>12 DEF AdvanceToReview, RunKeys, Back
  <2>2. <<"reviewAdvance", Back["run:review"]>> \in Edges
    BY DEF Edges, ExecutionEdges, RunKeys, Back
  <2>3. "run:review" \in RunKeys \cup TerminalKeys
    BY DEF RunKeys
  <2> QED BY <2>1, <2>2, <2>3, AdvanceFlow
<1>13. CASE EnterReviewing(p)
  <2>1. pc[p] \notin Shared /\ Transition(p, mem[p], "reviewing", "release")
    BY <1>13 DEF EnterReviewing
  <2> HIDE DEF Flow, Out, Heading
  <2> QED BY <2>1, EndFlow
<1> QED BY <1>1, <1>2, <1>3, <1>4, <1>5, <1>6, <1>7, <1>8, <1>9, <1>10, <1>11, <1>12, <1>13

\* Flow: CycleReview.
LEMMA ReviewFlow ==
  ASSUME NEW p \in Procs, Here(p),
         \/ ClaimReview(p) \/ InvokeReviewer(p) \/ WriteReview(p) \/ Resolve(p)
         \/ AdvanceToCompound(p) \/ EnterCompounding(p)
  PROVE  Flow(p)
<1> USE DEF Flow, Out, Heading, Shared, Here, TypeOK, At, Goto, Continue, Raise, Jump
<1>1. CASE ClaimReview(p)
  BY <1>1 DEF ClaimReview, Persist, Got, Jobs, Edges, ReviewEdges
<1>2. CASE InvokeReviewer(p)
  BY <1>2 DEF InvokeReviewer, Got, Jobs, Edges, ReviewEdges
<1>3. CASE WriteReview(p)
  BY <1>3 DEF WriteReview, Edges, ReviewEdges
<1>4. CASE Resolve(p)
  BY <1>4 DEF Resolve, Persist, Edges, ReviewEdges
<1>5. CASE AdvanceToCompound(p)
  <2>1. "run:compound" \in RunKeys /\ Advance(p, "run:compound", Back["run:compound"])
    BY <1>5 DEF AdvanceToCompound, RunKeys, Back
  <2> QED BY <1>5, <2>1, AdvanceFlow DEF AdvanceToCompound, Edges, ReviewEdges, RunKeys, Back
<1>6. CASE EnterCompounding(p)
  <2>1. pc[p] \notin Shared /\ Transition(p, mem[p], "compounding", "release")
    BY <1>6 DEF EnterCompounding
  <2> HIDE DEF Flow, Out, Heading
  <2> QED BY <2>1, EndFlow
<1> QED BY <1>1, <1>2, <1>3, <1>4, <1>5, <1>6

\* Flow: CycleCompound.
LEMMA CompoundFlow ==
  ASSUME NEW p \in Procs, Here(p),
         \/ BeginCompound(p) \/ DispatchCompound(p) \/ FindPromotion(p)
         \/ CreatePromotion(p) \/ SavePromotion(p) \/ CloseExperiment(p)
         \/ SaveClosed(p) \/ RecordOutcome(p) \/ SaveOutcome(p) \/ BeginFeedback(p)
         \/ SendFeedback(p) \/ SaveFeedback(p) \/ BeginRoadmap(p) \/ SyncRoadmap(p)
         \/ UndoRoadmap(p) \/ WriteRoadmap(p) \/ SaveRoadmap(p) \/ CheckRoadmap(p)
         \/ Terminalize(p) \/ BuildReceipt(p) \/ SaveReceipt(p) \/ FindReceipt(p)
         \/ EmitReceipt(p) \/ AcceptReceipt(p) \/ SaveSignature(p) \/ Complete(p)
  PROVE  Flow(p)
<1> USE DEF Flow, Out, Heading, Shared, Here, TypeOK, At, Goto, Continue, Raise, Jump
<1>1. CASE BeginCompound(p)
  <2>1. CASE Transition(p, mem[p], "completed", "compoundStage")
    <3> HIDE DEF Flow, Out, Heading
    <3>1. <<pc[p], "compoundStage">> \in Edges /\ "compoundStage" \in Labels
      BY <1>1 DEF BeginCompound, Edges, CompoundEdges, Labels, CompoundLabels
    <3>2. "compoundStage" \notin Entries \cup {"terminalize"} /\ pc[p] \notin Shared
      BY <1>1 DEF Entries, BeginCompound
    <3> QED BY <2>1, <3>1, <3>2, EventFlow
  <2> QED BY <1>1, <2>1 DEF BeginCompound, Edges, CompoundEdges
<1>2. CASE DispatchCompound(p)
  BY <1>2 DEF DispatchCompound, Edges, CompoundEdges
<1>3. CASE FindPromotion(p)
  BY <1>3 DEF FindPromotion, Edges, CompoundEdges
<1>4. CASE CreatePromotion(p)
  BY <1>4 DEF CreatePromotion, Edges, CompoundEdges
<1>5. CASE SavePromotion(p)
  BY <1>5 DEF SavePromotion, Persist, Edges, CompoundEdges
<1>6. CASE CloseExperiment(p)
  BY <1>6 DEF CloseExperiment, Edges, CompoundEdges
<1>7. CASE SaveClosed(p)
  BY <1>7 DEF SaveClosed, Persist, Edges, CompoundEdges
<1>8. CASE RecordOutcome(p)
  BY <1>8 DEF RecordOutcome, Edges, CompoundEdges
<1>9. CASE SaveOutcome(p)
  BY <1>9 DEF SaveOutcome, Persist, Edges, CompoundEdges
<1>10. CASE BeginFeedback(p)
  <2>1. Goes(p, "roadmap") \/ Goes(p, "feedbackSend") \/ Goes(p, "release")
    BY <1>10, CallsGo, PersistGoes DEF BeginFeedback
  <2>2. pc[p] = "feedback"
    BY <1>10 DEF BeginFeedback
  <2> QED BY <2>1, <2>2 DEF Goes, Edges, CompoundEdges
<1>11. CASE SendFeedback(p)
  BY <1>11 DEF SendFeedback, Edges, CompoundEdges
<1>12. CASE SaveFeedback(p)
  BY <1>12 DEF SaveFeedback, Persist, Edges, CompoundEdges
<1>13. CASE BeginRoadmap(p)
  BY <1>13 DEF BeginRoadmap, Persist, Edges, CompoundEdges
<1>14. CASE SyncRoadmap(p)
  BY <1>14 DEF SyncRoadmap, Edges, CompoundEdges
<1>15. CASE UndoRoadmap(p)
  BY <1>15 DEF UndoRoadmap, Persist, Edges, CompoundEdges
<1>16. CASE WriteRoadmap(p)
  BY <1>16 DEF WriteRoadmap, Edges, CompoundEdges
<1>17. CASE SaveRoadmap(p)
  BY <1>17 DEF SaveRoadmap, Persist, Edges, CompoundEdges
<1>18. CASE CheckRoadmap(p)
  BY <1>18 DEF CheckRoadmap, Edges, CompoundEdges
<1>19. CASE Terminalize(p)
  <2>1. CASE kernel[Cyc(p)].phase \in Phases \ {"compound"}
             /\ Advance(p, TerminalKey[NextPhase[kernel[Cyc(p)].phase]], "terminalize")
    <3> DEFINE k == TerminalKey[NextPhase[kernel[Cyc(p)].phase]]
    <3>1. NextPhase[kernel[Cyc(p)].phase] \in Phases \ {"observe"}
      BY <2>1 DEF Phases, NextPhase
    <3>2. k \in TerminalKeys
      BY <3>1, TerminalKeyTarget
    <3>3. Back[k] = "terminalize" /\ k \in RunKeys \cup TerminalKeys
      BY <3>2 DEF Back, RunKeys, TerminalKeys
    <3> HIDE DEF k
    <3>4. Advance(p, k, Back[k])
      BY <2>1, <3>3 DEF k
    <3>5. pc[p] = "terminalize" /\ pc[p] \notin Shared /\ <<pc[p], Back[k]>> \in Edges
      BY <1>19, <3>3 DEF Terminalize, Edges, CompoundEdges
    <3> HIDE DEF Flow, Out, Heading
    <3> QED BY <3>3, <3>4, <3>5, AdvanceFlow
  <2>2. pc'[p] \in {"receipt", "release"} \/ (kernel[Cyc(p)].phase \in Phases \ {"compound"}
             /\ Advance(p, TerminalKey[NextPhase[kernel[Cyc(p)].phase]], "terminalize"))
    BY <1>19 DEF Terminalize, Persist
  <2> QED BY <1>19, <2>1, <2>2 DEF Terminalize, Edges, CompoundEdges
<1>20. CASE BuildReceipt(p)
  BY <1>20 DEF BuildReceipt, Edges, CompoundEdges
<1>21. CASE SaveReceipt(p)
  BY <1>21 DEF SaveReceipt, Persist, Edges, CompoundEdges
<1>22. CASE FindReceipt(p)
  BY <1>22 DEF FindReceipt, Edges, CompoundEdges
<1>23. CASE EmitReceipt(p)
  BY <1>23 DEF EmitReceipt, Edges, CompoundEdges
<1>24. CASE AcceptReceipt(p)
  BY <1>24 DEF AcceptReceipt, Edges, CompoundEdges
<1>25. CASE SaveSignature(p)
  BY <1>25 DEF SaveSignature, Persist, Edges, CompoundEdges
<1>26. CASE Complete(p)
  <2>1. CASE Transition(p, mem[p], "completed", "release")
    <3>1. pc[p] \notin Shared
      BY <1>26 DEF Complete
    <3> HIDE DEF Flow, Out, Heading
    <3> QED BY <2>1, <3>1, EndFlow
  <2> QED BY <1>26, <2>1 DEF Complete
<1> QED BY <1>1, <1>2, <1>3, <1>4, <1>5, <1>6, <1>7, <1>8, <1>9, <1>10, <1>11, <1>12, <1>13,
     <1>14, <1>15, <1>16, <1>17, <1>18, <1>19, <1>20, <1>21, <1>22, <1>23, <1>24, <1>25,
     <1>26
-----------------------------------------------------------------------------
(* Which action a place belongs to. *)

ServiceActions(p) ==
  /\ pc[p] = "event" => EnsureStageEvent(p)
  /\ pc[p] = "eventSave" => SaveStageEvent(p)
  /\ pc[p] = "fail" => Fail(p)
  /\ pc[p] = "advance" => BeginAdvance(p)
  /\ pc[p] = "advanceRun" => AdvanceRun(p)
  /\ pc[p] = "advanceSave" => FinishAdvance(p)

ObservationActions(p) ==
  /\ pc[p] = "startLatest" => StartLatest(p)
  /\ pc[p] = "ensureRun" => EnsureCycleRun(p)
  /\ pc[p] = "ensureRunSave" => SaveCycleRun(p)
  /\ pc[p] = "continue" => ContinueObservation(p)
  /\ pc[p] = "observing" => EnterObserving(p)
  /\ pc[p] = "capture" => CaptureObservation(p)
  /\ pc[p] = "observe" => Observe(p)
  /\ pc[p] = "observeWrite" => WriteObservation(p)
  /\ pc[p] = "register" => ClaimRegistration(p)
  /\ pc[p] = "registerSend" => SendRegistration(p)
  /\ pc[p] = "registerDone" => SaveObservation(p)
  /\ pc[p] = "judge" => ClaimJudgment(p)
  /\ pc[p] = "judgeFirst" => JudgeFirst(p)
  /\ pc[p] = "judgeFirstSave" => SaveFirstAttempt(p)
  /\ pc[p] = "judgmentFilter" => FilterJudgment(p)
  /\ pc[p] = "judgeAgain" => JudgeAgain(p)
  /\ pc[p] = "judgeAgainSave" => SaveSecondAttempt(p)
  /\ pc[p] = "judgmentReject" => RejectSecondAttempt(p)
  /\ pc[p] = "judgmentWrite" => WriteJudgment(p)
  /\ pc[p] = "judged" => SaveJudgment(p)
  /\ pc[p] = "rankAdvance" => AdvanceToRank(p)
  /\ pc[p] = "rankEnter" => EnterRanked(p)
  /\ pc[p] = "finishRanked" => FinishRanked(p)

ProposalActions(p) ==
  /\ pc[p] = "propose" => ResumeProposal(p)
  /\ pc[p] = "proposal" => LoadSnapshot(p)
  /\ pc[p] = "proposalList" => ListBacklog(p)
  /\ pc[p] = "proposalCreate" => CreateExperiment(p)
  /\ pc[p] = "proposeAdvance" => AdvanceToPropose(p)
  /\ pc[p] = "proposeEnter" => EnterProposed(p)
  /\ pc[p] = "awaitEnter" => EnterAwaitingApproval(p)
  /\ pc[p] = "snapshotWrite" => WriteSnapshot(p)
  /\ pc[p] = "snapshotSave" => SaveSnapshot(p)
  /\ pc[p] = "snapshotRegister" => ClaimSnapshot(p)
  /\ pc[p] = "snapshotSend" => SendSnapshot(p)
  /\ pc[p] = "snapshotDone" => SaveRegistered(p)
  /\ pc[p] = "noop" => EnterNoOp(p)
  /\ pc[p] = "noopComplete" => CompleteNoOp(p)

DecisionActions(p) ==
  /\ pc[p] = "approve" => Approve(p)
  /\ pc[p] = "decline" => Decline(p)
  /\ pc[p] = "declineStage" => EnterDeclined(p)
  /\ pc[p] = "declineClose" => CloseDeclined(p)
  /\ pc[p] = "declineSave" => SaveDeclineClosed(p)
  /\ pc[p] = "declineDone" => CompleteDeclined(p)

ExecutionActions(p) ==
  /\ pc[p] = "execute" => PrepareExecution(p)
  /\ pc[p] = "executeAdvance" => AdvanceToExecute(p)
  /\ pc[p] = "executeEnter" => EnterExecuting(p)
  /\ pc[p] = "executeAttempt" => ClaimExecution(p)
  /\ pc[p] = "executor" => InvokeExecutor(p)
  /\ pc[p] = "report" => WriteReport(p)
  /\ pc[p] = "collect" => CollectExecution(p)
  /\ pc[p] = "benchmark" => ClaimBenchmark(p)
  /\ pc[p] = "measure" => Measure(p)
  /\ pc[p] = "measureWrite" => WriteMeasurement(p)
  /\ pc[p] = "measured" => SaveMeasurement(p)
  /\ pc[p] = "reviewAdvance" => AdvanceToReview(p)
  /\ pc[p] = "reviewEnter" => EnterReviewing(p)

ReviewActions(p) ==
  /\ pc[p] = "review" => ClaimReview(p)
  /\ pc[p] = "reviewer" => InvokeReviewer(p)
  /\ pc[p] = "reviewWrite" => WriteReview(p)
  /\ pc[p] = "resolve" => Resolve(p)
  /\ pc[p] = "compoundAdvance" => AdvanceToCompound(p)
  /\ pc[p] = "compoundEnter" => EnterCompounding(p)

CompoundActions(p) ==
  /\ pc[p] = "compound" => BeginCompound(p)
  /\ pc[p] = "compoundStage" => DispatchCompound(p)
  /\ pc[p] = "promote" => FindPromotion(p)
  /\ pc[p] = "promoteCreate" => CreatePromotion(p)
  /\ pc[p] = "promoteSave" => SavePromotion(p)
  /\ pc[p] = "close" => CloseExperiment(p)
  /\ pc[p] = "closeSave" => SaveClosed(p)
  /\ pc[p] = "outcome" => RecordOutcome(p)
  /\ pc[p] = "outcomeSave" => SaveOutcome(p)
  /\ pc[p] = "feedback" => BeginFeedback(p)
  /\ pc[p] = "feedbackSend" => SendFeedback(p)
  /\ pc[p] = "feedbackSave" => SaveFeedback(p)
  /\ pc[p] = "roadmap" => BeginRoadmap(p)
  /\ pc[p] = "roadmapSync" => SyncRoadmap(p)
  /\ pc[p] = "roadmapUndo" => UndoRoadmap(p)
  /\ pc[p] = "roadmapWrite" => WriteRoadmap(p)
  /\ pc[p] = "roadmapSave" => SaveRoadmap(p)
  /\ pc[p] = "roadmapCheck" => CheckRoadmap(p)
  /\ pc[p] = "terminalize" => Terminalize(p)
  /\ pc[p] = "receipt" => BuildReceipt(p)
  /\ pc[p] = "receiptSave" => SaveReceipt(p)
  /\ pc[p] = "emit" => FindReceipt(p)
  /\ pc[p] = "emitSend" => EmitReceipt(p)
  /\ pc[p] = "accept" => AcceptReceipt(p)
  /\ pc[p] = "acceptSave" => SaveSignature(p)
  /\ pc[p] = "complete" => Complete(p)

\* The places of the shared procedures.
LEMMA ServicePlace ==
  ASSUME NEW p,
         \/ EnsureStageEvent(p) \/ SaveStageEvent(p) \/ Fail(p)
         \/ BeginAdvance(p) \/ AdvanceRun(p) \/ FinishAdvance(p)
  PROVE  pc[p] \in Shared \cup {"fail"} /\ ServiceActions(p)
<1>1. EnsureStageEvent(p) => pc[p] = "event"
  BY DEF EnsureStageEvent, At
<1>2. SaveStageEvent(p) => pc[p] = "eventSave"
  BY DEF SaveStageEvent, At
<1>3. Fail(p) => pc[p] = "fail"
  BY DEF Fail, At
<1>4. BeginAdvance(p) => pc[p] = "advance"
  BY DEF BeginAdvance, At
<1>5. AdvanceRun(p) => pc[p] = "advanceRun"
  BY DEF AdvanceRun, At
<1>6. FinishAdvance(p) => pc[p] = "advanceSave"
  BY DEF FinishAdvance, At
<1> QED
  BY <1>1, <1>2, <1>3, <1>4, <1>5, <1>6
  DEF Shared, ServiceActions

\* The places of CycleObservation.
LEMMA ObservationPlace ==
  ASSUME NEW p, ObservationStep(p)
  PROVE  pc[p] \in ObservationLabels /\ ObservationActions(p)
<1>1. StartLatest(p) => pc[p] = "startLatest"
  BY DEF StartLatest, At
<1>2. EnsureCycleRun(p) => pc[p] = "ensureRun"
  BY DEF EnsureCycleRun, At
<1>3. SaveCycleRun(p) => pc[p] = "ensureRunSave"
  BY DEF SaveCycleRun, At
<1>4. ContinueObservation(p) => pc[p] = "continue"
  BY DEF ContinueObservation, At
<1>5. EnterObserving(p) => pc[p] = "observing"
  BY DEF EnterObserving, At
<1>6. CaptureObservation(p) => pc[p] = "capture"
  BY DEF CaptureObservation, At
<1>7. Observe(p) => pc[p] = "observe"
  BY DEF Observe, At
<1>8. WriteObservation(p) => pc[p] = "observeWrite"
  BY DEF WriteObservation, At
<1>9. ClaimRegistration(p) => pc[p] = "register"
  BY DEF ClaimRegistration, At
<1>10. SendRegistration(p) => pc[p] = "registerSend"
  BY DEF SendRegistration, At
<1>11. SaveObservation(p) => pc[p] = "registerDone"
  BY DEF SaveObservation, At
<1>12. ClaimJudgment(p) => pc[p] = "judge"
  BY DEF ClaimJudgment, At
<1>13. JudgeFirst(p) => pc[p] = "judgeFirst"
  BY DEF JudgeFirst, InvokeJudge, At
<1>14. SaveFirstAttempt(p) => pc[p] = "judgeFirstSave"
  BY DEF SaveFirstAttempt, At
<1>15. FilterJudgment(p) => pc[p] = "judgmentFilter"
  BY DEF FilterJudgment, At
<1>16. JudgeAgain(p) => pc[p] = "judgeAgain"
  BY DEF JudgeAgain, InvokeJudge, At
<1>17. SaveSecondAttempt(p) => pc[p] = "judgeAgainSave"
  BY DEF SaveSecondAttempt, At
<1>18. RejectSecondAttempt(p) => pc[p] = "judgmentReject"
  BY DEF RejectSecondAttempt, At
<1>19. WriteJudgment(p) => pc[p] = "judgmentWrite"
  BY DEF WriteJudgment, At
<1>20. SaveJudgment(p) => pc[p] = "judged"
  BY DEF SaveJudgment, At
<1>21. AdvanceToRank(p) => pc[p] = "rankAdvance"
  BY DEF AdvanceToRank, At
<1>22. EnterRanked(p) => pc[p] = "rankEnter"
  BY DEF EnterRanked, At
<1>23. FinishRanked(p) => pc[p] = "finishRanked"
  BY DEF FinishRanked, At
<1>24. Start(p) => pc[p] = "start"
  BY DEF Start, At
<1> QED
  BY <1>1, <1>2, <1>3, <1>4, <1>5, <1>6, <1>7, <1>8, <1>9, <1>10, <1>11, <1>12, <1>13,
     <1>14, <1>15, <1>16, <1>17, <1>18, <1>19, <1>20, <1>21, <1>22, <1>23, <1>24
  DEF ObservationStep, ObservationLabels, ObservationActions

\* The places of CycleProposal.
LEMMA ProposalPlace ==
  ASSUME NEW p, ProposalStep(p)
  PROVE  pc[p] \in ProposalLabels /\ ProposalActions(p)
<1>1. ResumeProposal(p) => pc[p] = "propose"
  BY DEF ResumeProposal, At
<1>2. LoadSnapshot(p) => pc[p] = "proposal"
  BY DEF LoadSnapshot, At
<1>3. ListBacklog(p) => pc[p] = "proposalList"
  BY DEF ListBacklog, At
<1>4. CreateExperiment(p) => pc[p] = "proposalCreate"
  BY DEF CreateExperiment, At
<1>5. AdvanceToPropose(p) => pc[p] = "proposeAdvance"
  BY DEF AdvanceToPropose, At
<1>6. EnterProposed(p) => pc[p] = "proposeEnter"
  BY DEF EnterProposed, At
<1>7. EnterAwaitingApproval(p) => pc[p] = "awaitEnter"
  BY DEF EnterAwaitingApproval, At
<1>8. WriteSnapshot(p) => pc[p] = "snapshotWrite"
  BY DEF WriteSnapshot, At
<1>9. SaveSnapshot(p) => pc[p] = "snapshotSave"
  BY DEF SaveSnapshot, At
<1>10. ClaimSnapshot(p) => pc[p] = "snapshotRegister"
  BY DEF ClaimSnapshot, At
<1>11. SendSnapshot(p) => pc[p] = "snapshotSend"
  BY DEF SendSnapshot, At
<1>12. SaveRegistered(p) => pc[p] = "snapshotDone"
  BY DEF SaveRegistered, At
<1>13. EnterNoOp(p) => pc[p] = "noop"
  BY DEF EnterNoOp, At
<1>14. CompleteNoOp(p) => pc[p] = "noopComplete"
  BY DEF CompleteNoOp, At
<1> QED
  BY <1>1, <1>2, <1>3, <1>4, <1>5, <1>6, <1>7, <1>8, <1>9, <1>10, <1>11, <1>12, <1>13, <1>14
  DEF ProposalStep, ProposalLabels, ProposalActions

\* The places of CycleDecision.
LEMMA DecisionPlace ==
  ASSUME NEW p, DecisionStep(p)
  PROVE  pc[p] \in DecisionLabels /\ DecisionActions(p)
<1>1. Approve(p) => pc[p] = "approve"
  BY DEF Approve, At
<1>2. Decline(p) => pc[p] = "decline"
  BY DEF Decline, At
<1>3. EnterDeclined(p) => pc[p] = "declineStage"
  BY DEF EnterDeclined, At
<1>4. CloseDeclined(p) => pc[p] = "declineClose"
  BY DEF CloseDeclined, At
<1>5. SaveDeclineClosed(p) => pc[p] = "declineSave"
  BY DEF SaveDeclineClosed, At
<1>6. CompleteDeclined(p) => pc[p] = "declineDone"
  BY DEF CompleteDeclined, At
<1> QED
  BY <1>1, <1>2, <1>3, <1>4, <1>5, <1>6
  DEF DecisionStep, DecisionLabels, DecisionActions

\* The places of CycleExecution.
LEMMA ExecutionPlace ==
  ASSUME NEW p, ExecutionStep(p)
  PROVE  pc[p] \in ExecutionLabels /\ ExecutionActions(p)
<1>1. PrepareExecution(p) => pc[p] = "execute"
  BY DEF PrepareExecution, At
<1>2. AdvanceToExecute(p) => pc[p] = "executeAdvance"
  BY DEF AdvanceToExecute, At
<1>3. EnterExecuting(p) => pc[p] = "executeEnter"
  BY DEF EnterExecuting, At
<1>4. ClaimExecution(p) => pc[p] = "executeAttempt"
  BY DEF ClaimExecution, At
<1>5. InvokeExecutor(p) => pc[p] = "executor"
  BY DEF InvokeExecutor, At
<1>6. WriteReport(p) => pc[p] = "report"
  BY DEF WriteReport, At
<1>7. CollectExecution(p) => pc[p] = "collect"
  BY DEF CollectExecution, At
<1>8. ClaimBenchmark(p) => pc[p] = "benchmark"
  BY DEF ClaimBenchmark, At
<1>9. Measure(p) => pc[p] = "measure"
  BY DEF Measure, At
<1>10. WriteMeasurement(p) => pc[p] = "measureWrite"
  BY DEF WriteMeasurement, At
<1>11. SaveMeasurement(p) => pc[p] = "measured"
  BY DEF SaveMeasurement, At
<1>12. AdvanceToReview(p) => pc[p] = "reviewAdvance"
  BY DEF AdvanceToReview, At
<1>13. EnterReviewing(p) => pc[p] = "reviewEnter"
  BY DEF EnterReviewing, At
<1> QED
  BY <1>1, <1>2, <1>3, <1>4, <1>5, <1>6, <1>7, <1>8, <1>9, <1>10, <1>11, <1>12, <1>13
  DEF ExecutionStep, ExecutionLabels, ExecutionActions

\* The places of CycleReview.
LEMMA ReviewPlace ==
  ASSUME NEW p, ReviewStep(p)
  PROVE  pc[p] \in ReviewLabels /\ ReviewActions(p)
<1>1. ClaimReview(p) => pc[p] = "review"
  BY DEF ClaimReview, At
<1>2. InvokeReviewer(p) => pc[p] = "reviewer"
  BY DEF InvokeReviewer, At
<1>3. WriteReview(p) => pc[p] = "reviewWrite"
  BY DEF WriteReview, At
<1>4. Resolve(p) => pc[p] = "resolve"
  BY DEF Resolve, At
<1>5. AdvanceToCompound(p) => pc[p] = "compoundAdvance"
  BY DEF AdvanceToCompound, At
<1>6. EnterCompounding(p) => pc[p] = "compoundEnter"
  BY DEF EnterCompounding, At
<1> QED
  BY <1>1, <1>2, <1>3, <1>4, <1>5, <1>6
  DEF ReviewStep, ReviewLabels, ReviewActions

\* The places of CycleCompound.
LEMMA CompoundPlace ==
  ASSUME NEW p, CompoundStep(p)
  PROVE  pc[p] \in CompoundLabels /\ CompoundActions(p)
<1>1. BeginCompound(p) => pc[p] = "compound"
  BY DEF BeginCompound, At
<1>2. DispatchCompound(p) => pc[p] = "compoundStage"
  BY DEF DispatchCompound, At
<1>3. FindPromotion(p) => pc[p] = "promote"
  BY DEF FindPromotion, At
<1>4. CreatePromotion(p) => pc[p] = "promoteCreate"
  BY DEF CreatePromotion, At
<1>5. SavePromotion(p) => pc[p] = "promoteSave"
  BY DEF SavePromotion, At
<1>6. CloseExperiment(p) => pc[p] = "close"
  BY DEF CloseExperiment, At
<1>7. SaveClosed(p) => pc[p] = "closeSave"
  BY DEF SaveClosed, At
<1>8. RecordOutcome(p) => pc[p] = "outcome"
  BY DEF RecordOutcome, At
<1>9. SaveOutcome(p) => pc[p] = "outcomeSave"
  BY DEF SaveOutcome, At
<1>10. BeginFeedback(p) => pc[p] = "feedback"
  BY DEF BeginFeedback, At
<1>11. SendFeedback(p) => pc[p] = "feedbackSend"
  BY DEF SendFeedback, At
<1>12. SaveFeedback(p) => pc[p] = "feedbackSave"
  BY DEF SaveFeedback, At
<1>13. BeginRoadmap(p) => pc[p] = "roadmap"
  BY DEF BeginRoadmap, At
<1>14. SyncRoadmap(p) => pc[p] = "roadmapSync"
  BY DEF SyncRoadmap, At
<1>15. UndoRoadmap(p) => pc[p] = "roadmapUndo"
  BY DEF UndoRoadmap, At
<1>16. WriteRoadmap(p) => pc[p] = "roadmapWrite"
  BY DEF WriteRoadmap, At
<1>17. SaveRoadmap(p) => pc[p] = "roadmapSave"
  BY DEF SaveRoadmap, At
<1>18. CheckRoadmap(p) => pc[p] = "roadmapCheck"
  BY DEF CheckRoadmap, At
<1>19. Terminalize(p) => pc[p] = "terminalize"
  BY DEF Terminalize, At
<1>20. BuildReceipt(p) => pc[p] = "receipt"
  BY DEF BuildReceipt, At
<1>21. SaveReceipt(p) => pc[p] = "receiptSave"
  BY DEF SaveReceipt, At
<1>22. FindReceipt(p) => pc[p] = "emit"
  BY DEF FindReceipt, At
<1>23. EmitReceipt(p) => pc[p] = "emitSend"
  BY DEF EmitReceipt, At
<1>24. AcceptReceipt(p) => pc[p] = "accept"
  BY DEF AcceptReceipt, At
<1>25. SaveSignature(p) => pc[p] = "acceptSave"
  BY DEF SaveSignature, At
<1>26. Complete(p) => pc[p] = "complete"
  BY DEF Complete, At
<1> QED
  BY <1>1, <1>2, <1>3, <1>4, <1>5, <1>6, <1>7, <1>8, <1>9, <1>10, <1>11, <1>12, <1>13,
     <1>14, <1>15, <1>16, <1>17, <1>18, <1>19, <1>20, <1>21, <1>22, <1>23, <1>24, <1>25,
     <1>26
  DEF CompoundStep, CompoundLabels, CompoundActions

\* A step of a handler is the action of the place it is taken at.
LEMMA HandlerActions ==
  ASSUME NEW p, Handler(p)
  PROVE  /\ ServiceActions(p) /\ ObservationActions(p) /\ ProposalActions(p)
         /\ DecisionActions(p) /\ ExecutionActions(p) /\ ReviewActions(p)
         /\ CompoundActions(p)
<1>1. CASE \/ EnsureStageEvent(p) \/ SaveStageEvent(p) \/ Fail(p)
          \/ BeginAdvance(p) \/ AdvanceRun(p) \/ FinishAdvance(p)
  <2>1. pc[p] \in Shared \cup {"fail"} /\ ServiceActions(p)
    BY <1>1, ServicePlace
  <2>2. ObservationActions(p)
    BY <2>1 DEF ObservationActions, Shared
  <2>3. ProposalActions(p)
    BY <2>1 DEF ProposalActions, Shared
  <2>4. DecisionActions(p)
    BY <2>1 DEF DecisionActions, Shared
  <2>5. ExecutionActions(p)
    BY <2>1 DEF ExecutionActions, Shared
  <2>6. ReviewActions(p)
    BY <2>1 DEF ReviewActions, Shared
  <2>7. CompoundActions(p)
    BY <2>1 DEF CompoundActions, Shared
  <2> QED BY <2>1, <2>2, <2>3, <2>4, <2>5, <2>6, <2>7
<1>2. CASE ObservationStep(p)
  <2>1. pc[p] \in ObservationLabels /\ ObservationActions(p)
    BY <1>2, ObservationPlace
  <2>2. ServiceActions(p)
    BY <2>1 DEF ServiceActions, ObservationLabels
  <2>3. ProposalActions(p)
    BY <2>1 DEF ProposalActions, ObservationLabels
  <2>4. DecisionActions(p)
    BY <2>1 DEF DecisionActions, ObservationLabels
  <2>5. ExecutionActions(p)
    BY <2>1 DEF ExecutionActions, ObservationLabels
  <2>6. ReviewActions(p)
    BY <2>1 DEF ReviewActions, ObservationLabels
  <2>7. CompoundActions(p)
    BY <2>1 DEF CompoundActions, ObservationLabels
  <2> QED BY <2>1, <2>2, <2>3, <2>4, <2>5, <2>6, <2>7
<1>3. CASE ProposalStep(p)
  <2>1. pc[p] \in ProposalLabels /\ ProposalActions(p)
    BY <1>3, ProposalPlace
  <2>2. ServiceActions(p)
    BY <2>1 DEF ServiceActions, ProposalLabels
  <2>3. ObservationActions(p)
    BY <2>1 DEF ObservationActions, ProposalLabels
  <2>4. DecisionActions(p)
    BY <2>1 DEF DecisionActions, ProposalLabels
  <2>5. ExecutionActions(p)
    BY <2>1 DEF ExecutionActions, ProposalLabels
  <2>6. ReviewActions(p)
    BY <2>1 DEF ReviewActions, ProposalLabels
  <2>7. CompoundActions(p)
    BY <2>1 DEF CompoundActions, ProposalLabels
  <2> QED BY <2>1, <2>2, <2>3, <2>4, <2>5, <2>6, <2>7
<1>4. CASE DecisionStep(p)
  <2>1. pc[p] \in DecisionLabels /\ DecisionActions(p)
    BY <1>4, DecisionPlace
  <2>2. ServiceActions(p)
    BY <2>1 DEF ServiceActions, DecisionLabels
  <2>3. ObservationActions(p)
    BY <2>1 DEF ObservationActions, DecisionLabels
  <2>4. ProposalActions(p)
    BY <2>1 DEF ProposalActions, DecisionLabels
  <2>5. ExecutionActions(p)
    BY <2>1 DEF ExecutionActions, DecisionLabels
  <2>6. ReviewActions(p)
    BY <2>1 DEF ReviewActions, DecisionLabels
  <2>7. CompoundActions(p)
    BY <2>1 DEF CompoundActions, DecisionLabels
  <2> QED BY <2>1, <2>2, <2>3, <2>4, <2>5, <2>6, <2>7
<1>5. CASE ExecutionStep(p)
  <2>1. pc[p] \in ExecutionLabels /\ ExecutionActions(p)
    BY <1>5, ExecutionPlace
  <2>2. ServiceActions(p)
    BY <2>1 DEF ServiceActions, ExecutionLabels
  <2>3. ObservationActions(p)
    BY <2>1 DEF ObservationActions, ExecutionLabels
  <2>4. ProposalActions(p)
    BY <2>1 DEF ProposalActions, ExecutionLabels
  <2>5. DecisionActions(p)
    BY <2>1 DEF DecisionActions, ExecutionLabels
  <2>6. ReviewActions(p)
    BY <2>1 DEF ReviewActions, ExecutionLabels
  <2>7. CompoundActions(p)
    BY <2>1 DEF CompoundActions, ExecutionLabels
  <2> QED BY <2>1, <2>2, <2>3, <2>4, <2>5, <2>6, <2>7
<1>6. CASE ReviewStep(p)
  <2>1. pc[p] \in ReviewLabels /\ ReviewActions(p)
    BY <1>6, ReviewPlace
  <2>2. ServiceActions(p)
    BY <2>1 DEF ServiceActions, ReviewLabels
  <2>3. ObservationActions(p)
    BY <2>1 DEF ObservationActions, ReviewLabels
  <2>4. ProposalActions(p)
    BY <2>1 DEF ProposalActions, ReviewLabels
  <2>5. DecisionActions(p)
    BY <2>1 DEF DecisionActions, ReviewLabels
  <2>6. ExecutionActions(p)
    BY <2>1 DEF ExecutionActions, ReviewLabels
  <2>7. CompoundActions(p)
    BY <2>1 DEF CompoundActions, ReviewLabels
  <2> QED BY <2>1, <2>2, <2>3, <2>4, <2>5, <2>6, <2>7
<1>7. CASE CompoundStep(p)
  <2>1. pc[p] \in CompoundLabels /\ CompoundActions(p)
    BY <1>7, CompoundPlace
  <2>2. ServiceActions(p)
    BY <2>1 DEF ServiceActions, CompoundLabels
  <2>3. ObservationActions(p)
    BY <2>1 DEF ObservationActions, CompoundLabels
  <2>4. ProposalActions(p)
    BY <2>1 DEF ProposalActions, CompoundLabels
  <2>5. DecisionActions(p)
    BY <2>1 DEF DecisionActions, CompoundLabels
  <2>6. ExecutionActions(p)
    BY <2>1 DEF ExecutionActions, CompoundLabels
  <2>7. ReviewActions(p)
    BY <2>1 DEF ReviewActions, CompoundLabels
  <2> QED BY <2>1, <2>2, <2>3, <2>4, <2>5, <2>6, <2>7
<1> QED BY <1>1, <1>2, <1>3, <1>4, <1>5, <1>6, <1>7 DEF Handler

-----------------------------------------------------------------------------
(* The three kinds of steps. *)

\* p takes a step inside its operation: the action of its place, along the
\* way through the handlers, while nobody else is inside an operation.
Works(p) ==
  /\ Here(p) /\ Flow(p) /\ Data(p) /\ Saves(p) /\ World(p) /\ Control(p)
  /\ ServiceActions(p) /\ ObservationActions(p) /\ ProposalActions(p) /\ DecisionActions(p)
  /\ ExecutionActions(p) /\ ReviewActions(p) /\ CompoundActions(p)
  /\ Running(p)' <=> pc'[p] # "release"
  /\ \A q \in Procs : Cyc(q)' = Cyc(q) /\ job'[q].op = job[q].op
  /\ \A q \in Procs \ {p} : ~Running(q) /\ ~Running(q)'

\* p, which starts a cycle, writes its first document.
NewDocs == {[NoDoc EXCEPT !.stage = "new", !.mode = mode] : mode \in Modes}
Starts(p) ==
  /\ Cyc(p) \in Cycles /\ doc[Cyc(p)].stage = Absent /\ UNCHANGED <<world, job>>
  /\ mem'[p] \in NewDocs /\ doc'[Cyc(p)] \in {doc[Cyc(p)], mem'[p]}
  /\ \A c \in Cycles \ {Cyc(p)} : doc'[c] = doc[c]
  /\ \/ pc'[p] = "startLatest" /\ doc'[Cyc(p)] = mem'[p]
     \/ pc'[p] = "release"
  /\ \A q \in Procs \ {p} : ~Running(q) /\ ~Running(q)'

\* Nothing that lasts changes.  Whoever is inside an operation after the step
\* stayed where it was, or has just got the lock and read the document.
Enters(q) ==
  /\ Cyc(q) \in Cycles /\ job[q].op \in Ops \ {"start"} /\ pc'[q] = Body[job[q].op]
  /\ job'[q].ret = job[q].op /\ job'[q].op = job[q].op /\ Cyc(q)' = Cyc(q)
  /\ mem'[q] = doc[Cyc(q)] /\ doc[Cyc(q)].stage # Absent
Stays(q) == pc'[q] = pc[q] /\ job'[q] = job[q] /\ mem'[q] = mem[q]
Quiet ==
  /\ UNCHANGED <<doc, world>>
  /\ \A q \in Procs : Running(q)' => \/ Running(q) /\ Stays(q)
                                     \/ Enters(q)

\* p goes somewhere inside its operation.
LEMMA HandlerWorks ==
  ASSUME LockInv, CycleInv, NEW p \in Procs, Handler(p), pc[p] # "start"
  PROVE  Works(p)
<1>1. Critical(p) /\ Data(p) /\ World(p) /\ Control(p)
  BY HandlerStep
<1>2. TypeOK /\ Registers(p) /\ Coherent(p)
  BY DEF CycleInv, ControlOK
<1>3. Here(p)
  <2>1. Inside(p)
    BY HandlerInside DEF LockInv
  <2> QED BY <1>2, <2>1 DEF Here, Inside, Running, Registers, Critical, Outside
<1>4. ~Start(p)
  BY DEF Start, At
<1>5. Flow(p)
  <2>1. ObservationStep(p) => Flow(p)
    BY <1>3, <1>4, ObservationFlow DEF ObservationStep
  <2>2. ProposalStep(p) \/ DecisionStep(p) \/ ReviewStep(p) => Flow(p)
    BY <1>3, ProposalFlow, DecisionFlow, ReviewFlow DEF ProposalStep, DecisionStep, ReviewStep
  <2>3. ExecutionStep(p) => Flow(p)
    BY <1>3, ExecutionFlow DEF ExecutionStep
  <2>4. CompoundStep(p) => Flow(p)
    BY <1>3, CompoundFlow DEF CompoundStep
  <2> QED BY <1>3, <2>1, <2>2, <2>3, <2>4, ServiceFlow DEF Handler
<1>6. Saves(p)
  BY <1>1 DEF Data
<1>7. /\ pc'[p] \notin Outside \cup {"start"}
      /\ \A q \in Procs \ {p} : pc'[q] = pc[q] /\ job'[q] = job[q]
      /\ \A q \in Procs : Cyc(q)' = Cyc(q) /\ job'[q].op = job[q].op
  BY <1>1, <1>2 DEF Control, TypeOK, Cyc
<1>8. Running(p)' <=> pc'[p] # "release"
  BY <1>7 DEF Running, Critical
<1>9. \A q \in Procs \ {p} : ~Running(q) /\ ~Running(q)'
  BY <1>1, <1>7 DEF LockInv, MutualExclusion, Running, Critical
<1> QED BY <1>1, <1>3, <1>5, <1>6, <1>7, <1>8, <1>9, HandlerActions DEF Works

\* p starts a cycle.
LEMMA HandlerStarts ==
  ASSUME LockInv, CycleInv, NEW p \in Procs, Handler(p), pc[p] = "start"
  PROVE  Starts(p)
<1>1. TypeOK /\ Registers(p) /\ Entered(p) /\ Inside(p)
  BY HandlerInside DEF CycleInv, ControlOK, LockInv
<1>2. Start(p) /\ Cyc(p) \in Cycles /\ doc[Cyc(p)].stage = Absent
  BY <1>1 DEF Inside, Entered, Registers
<1>3. PICK m \in NewDocs : Persist(p, m, "startLatest", "release")
  BY <1>2 DEF Start, NewDocs
<1>4. UNCHANGED <<world, lock, job>>
  BY <1>2 DEF Start
<1>5. /\ mem'[p] = m /\ doc' \in {doc, [doc EXCEPT ![Cyc(p)] = m]}
      /\ \/ pc'[p] = "startLatest" /\ doc' = [doc EXCEPT ![Cyc(p)] = m]
         \/ pc'[p] = "release"
  BY <1>1, <1>3 DEF Persist, Remember, Continue, Raise, Goto, TypeOK
<1>6. doc'[Cyc(p)] \in {doc[Cyc(p)], m} /\ \A c \in Cycles \ {Cyc(p)} : doc'[c] = doc[c]
  BY <1>1, <1>2, <1>5 DEF TypeOK
<1>7. pc'[p] = "startLatest" => doc'[Cyc(p)] = m
  BY <1>1, <1>2, <1>5 DEF TypeOK
<1>8. \A q \in Procs \ {p} : ~Running(q) /\ ~Running(q)'
  BY <1>1 DEF Inside, LockInv, MutualExclusion, Running, Critical
<1> QED BY <1>2, <1>3, <1>4, <1>5, <1>6, <1>7, <1>8 DEF Starts

\* The other steps leave everything that lasts alone.
LEMMA OthersQuiet ==
  ASSUME CycleInv, [Next]_vars, ~\E p \in Procs : Handler(p)
  PROVE  Quiet
<1>1. TypeOK
  BY DEF CycleInv
<1>2. CASE UNCHANGED vars
  <2>1. UNCHANGED <<doc, world, pc, job, mem>>
    BY <1>2 DEF vars, world
  <2> QED BY <2>1 DEF Quiet, Stays, Running, Critical
<1>3. CASE ReclaimLock
  BY <1>3 DEF ReclaimLock, Quiet, Stays, Running, Critical
<1>4. ASSUME NEW p \in Procs, NEW l, pc' = [pc EXCEPT ![p] = l], l \in Outside \cup {"start", "release"},
             NEW j, job' = [job EXCEPT ![p] = j], NEW m, mem' = [mem EXCEPT ![p] = m],
             UNCHANGED <<doc, world>>
      PROVE  Quiet
  <2>1. ~Running(p)'
    BY <1>1, <1>4 DEF TypeOK, Running, Critical
  <2>2. \A q \in Procs \ {p} : pc'[q] = pc[q] /\ job'[q] = job[q] /\ mem'[q] = mem[q]
    BY <1>1, <1>4 DEF TypeOK
  <2> QED BY <1>4, <2>1, <2>2 DEF Quiet, Stays, Running, Critical
<1>5. ASSUME NEW p \in Procs, Command(p) PROVE Quiet
  <2>1. \E op, c, input : \E l \in {"check", "acquire"} : Invoke(p, op, c, input, l)
    <3>1. PICK c \in Cycles : RunCycle(p, c) \/ RunDecision(p, c) \/ RunResume(p, c)
      BY <1>5 DEF Command
    <3>2. CASE RunCycle(p, c)
      BY <3>2 DEF RunCycle
    <3>3. CASE RunDecision(p, c)
      BY <3>3 DEF RunDecision
    <3>4. CASE RunResume(p, c)
      <4>1. PICK l : Invoke(p, Route(doc[c]), c, "none", l) /\ l \in {"check", "acquire"}
        BY <3>4 DEF RunResume
      <4> QED BY <4>1
    <3> QED BY <3>1, <3>2, <3>3, <3>4
  <2>2. UNCHANGED <<doc, mem, world>>
    BY <1>5 DEF Command, RunCycle, RunDecision, RunResume
  <2>3. mem' = [mem EXCEPT ![p] = mem[p]]
    BY <1>1, <2>2 DEF TypeOK
  <2> QED BY <1>4, <2>1, <2>2, <2>3 DEF Invoke, Continue, Goto, Outside
<1>6. ASSUME NEW p \in Procs, Crash(p) \/ Release(p) PROVE Quiet
  BY <1>4, <1>6 DEF Crash, Release, Raise, Continue, Goto, Remember, Outside
<1>7. ASSUME NEW p \in Procs, Precheck(p) PROVE Quiet
  <2>1. mem' = [mem EXCEPT ![p] = mem[p]] /\ UNCHANGED <<doc, world>>
    BY <1>1, <1>7 DEF Precheck, TypeOK
  <2>2. job' = [job EXCEPT ![p] = job[p]] \/ job' = [job EXCEPT ![p] = NoJob]
    BY <1>1, <1>7 DEF Precheck, TypeOK
  <2>3. pc' = [pc EXCEPT ![p] = "acquire"] \/ pc' = [pc EXCEPT ![p] = "idle"]
    BY <1>7 DEF Precheck, Continue, Raise, Goto
  <2> QED BY <1>4, <2>1, <2>2, <2>3 DEF Outside
<1>8. ASSUME NEW p \in Procs, Acquire(p) PROVE Quiet
  <2>1. UNCHANGED <<doc, world>> /\ pc[p] = "acquire"
    BY <1>8 DEF Acquire, At
  <2>2. CASE /\ pc' = [pc EXCEPT ![p] = "release"] \/ pc' = [pc EXCEPT ![p] = "idle"]
             /\ mem' = mem
             /\ job' = job \/ job' = [job EXCEPT ![p] = NoJob]
    <3>1. mem' = [mem EXCEPT ![p] = mem[p]]
      BY <1>1, <2>2 DEF TypeOK
    <3>2. job' = [job EXCEPT ![p] = job[p]] \/ job' = [job EXCEPT ![p] = NoJob]
      BY <1>1, <2>2 DEF TypeOK
    <3> QED BY <1>4, <2>1, <2>2, <3>1, <3>2 DEF Outside
  <2>3. CASE Call(p, Body[job[p].op], job[p].op) /\ Remember(p, doc[Cyc(p)])
    <3>1. Registers(p) /\ Entered(p)
      BY DEF CycleInv, ControlOK
    <3>2. job[p].op \in Ops
      BY <2>1, <3>1 DEF Registers
    <3>3. /\ pc'[p] = Body[job[p].op] /\ mem'[p] = doc[Cyc(p)]
          /\ job'[p].ret = job[p].op /\ job'[p].op = job[p].op /\ Cyc(p)' = Cyc(p)
      BY <1>1, <2>3 DEF Call, Goto, Remember, TypeOK, Jobs, Cyc
    <3>4. Running(p)' => Enters(p)
      <4>1. CASE job[p].op = "start"
        BY <3>3, <4>1 DEF Running, Critical, Body
      <4>2. CASE job[p].op # "start"
        BY <2>1, <3>1, <3>2, <3>3, <4>2 DEF Enters, Entered, Registers
      <4> QED BY <4>1, <4>2
    <3>5. \A q \in Procs \ {p} : pc'[q] = pc[q] /\ job'[q] = job[q] /\ mem'[q] = mem[q]
      BY <1>1, <2>3 DEF Call, Goto, Remember, TypeOK
    <3> QED BY <2>1, <3>4, <3>5 DEF Quiet, Stays, Running, Critical
  <2> QED BY <1>8, <2>2, <2>3 DEF Acquire, Raise, Continue, Goto
<1> QED BY <1>2, <1>3, <1>5, <1>6, <1>7, <1>8 DEF Next, Step, ServiceStep, Handler

\* Every step is of one of the three kinds.
LEMMA StepKinds ==
  ASSUME LockInv, CycleInv, [Next]_vars
  PROVE  \/ \E p \in Procs : Works(p)
         \/ \E p \in Procs : Starts(p)
         \/ Quiet
BY HandlerWorks, HandlerStarts, OthersQuiet

-----------------------------------------------------------------------------
(* Where a handler comes from. *)

\* A place that no shared procedure returns to is reached along an edge.
LEMMA Came ==
  ASSUME NEW p \in Procs, Works(p), pc'[p] \notin Shared \cup Conts \cup {"fail", "release"}
  PROVE  pc[p] \notin Shared /\ <<pc[p], pc'[p]>> \in Edges
<1>1. Flow(p) /\ Here(p)
  BY DEF Works
<1>2. pc[p] \in Shared => job[p].ret \in Conts
  BY <1>1 DEF Here, Registers, Shared
<1> QED BY <1>1, <1>2 DEF Flow, Out, Heading

\* A heading is kept inside a shared procedure, or taken up along an edge.
LEMMA Headed ==
  ASSUME NEW p \in Procs, Works(p), Heading(p)' \notin {"fail", "release"}
  PROVE  \/ pc[p] \in Shared /\ Heading(p)' = Heading(p)
         \/ pc[p] \notin Shared /\ <<pc[p], Heading(p)'>> \in Edges
BY DEF Works, Flow, Out, Heading, Shared

\* The places from which each place is reached that no procedure returns to.
LEMMA Sources ==
  ASSUME NEW p \in Procs, Works(p)
  PROVE  /\ pc'[p] = "ensureRun" => pc[p] = "startLatest"
         /\ pc'[p] = "continue" => pc[p] \in {"ensureRun", "ensureRunSave"}
         /\ pc'[p] = "ensureRunSave" => pc[p] = "ensureRun"
         /\ pc'[p] = "observing" => pc[p] = "continue"
         /\ pc'[p] = "observe" => pc[p] = "capture"
         /\ pc'[p] = "register" => pc[p] \in {"capture", "observeWrite"}
         /\ pc'[p] = "observeWrite" => pc[p] = "observe"
         /\ pc'[p] = "registerSend" => pc[p] = "register"
         /\ pc'[p] = "registerDone" => pc[p] \in {"register", "registerSend"}
         /\ pc'[p] = "judge" => pc[p] = "registerDone"
         /\ pc'[p] = "judgeFirst" => pc[p] = "judge"
         /\ pc'[p] = "judgmentFilter" => pc[p] \in {"judge", "judgeFirstSave"}
         /\ pc'[p] = "judgeFirstSave" => pc[p] = "judgeFirst"
         /\ pc'[p] = "judgeAgain" => pc[p] = "judgmentFilter"
         /\ pc'[p] = "judgmentWrite" => pc[p] \in {"judgmentFilter", "judgeAgainSave"}
         /\ pc'[p] = "judgeAgainSave" => pc[p] = "judgeAgain"
         /\ pc'[p] = "judgmentReject" => pc[p] = "judgeAgainSave"
         /\ pc'[p] = "judged" => pc[p] = "judgmentWrite"
         /\ pc'[p] = "rankAdvance" => pc[p] = "judged"
         /\ pc'[p] = "proposal" => pc[p] \in {"finishRanked", "propose"}
         /\ pc'[p] = "noop" => pc[p] \in {"finishRanked", "snapshotRegister", "snapshotDone"}
         /\ pc'[p] = "proposalList" => pc[p] = "proposal"
         /\ pc'[p] = "snapshotRegister" => pc[p] \in {"proposal", "snapshotSave"}
         /\ pc'[p] = "proposalCreate" => pc[p] = "proposalList"
         /\ pc'[p] = "proposeAdvance" => pc[p] \in {"proposalList", "proposalCreate"}
         /\ pc'[p] = "snapshotWrite" => pc[p] = "proposalList"
         /\ pc'[p] = "snapshotSave" => pc[p] = "snapshotWrite"
         /\ pc'[p] = "snapshotSend" => pc[p] = "snapshotRegister"
         /\ pc'[p] = "snapshotDone" => pc[p] = "snapshotSend"
         /\ pc'[p] = "declineStage" => pc[p] = "decline"
         /\ pc'[p] = "declineSave" => pc[p] = "declineClose"
         /\ pc'[p] = "declineDone" => pc[p] \in {"declineClose", "declineSave"}
         /\ pc'[p] = "executeAdvance" => pc[p] = "execute"
         /\ pc'[p] = "executor" => pc[p] = "executeAttempt"
         /\ pc'[p] = "collect" => pc[p] \in {"executeAttempt", "report"}
         /\ pc'[p] = "benchmark" => pc[p] \in {"executeAttempt", "collect"}
         /\ pc'[p] = "report" => pc[p] = "executor"
         /\ pc'[p] = "measure" => pc[p] = "benchmark"
         /\ pc'[p] = "measured" => pc[p] \in {"benchmark", "measureWrite"}
         /\ pc'[p] = "measureWrite" => pc[p] = "measure"
         /\ pc'[p] = "reviewAdvance" => pc[p] = "measured"
         /\ pc'[p] = "reviewer" => pc[p] = "review"
         /\ pc'[p] = "resolve" => pc[p] \in {"review", "reviewWrite"}
         /\ pc'[p] = "reviewWrite" => pc[p] = "reviewer"
         /\ pc'[p] = "compoundAdvance" => pc[p] = "resolve"
         /\ pc'[p] = "promote" => pc[p] = "compoundStage"
         /\ pc'[p] = "promoteCreate" => pc[p] = "promote"
         /\ pc'[p] = "promoteSave" => pc[p] \in {"promote", "promoteCreate"}
         /\ pc'[p] = "close" => pc[p] \in {"promote", "promoteSave"}
         /\ pc'[p] = "closeSave" => pc[p] = "close"
         /\ pc'[p] = "outcome" => pc[p] \in {"close", "closeSave"}
         /\ pc'[p] = "outcomeSave" => pc[p] = "outcome"
         /\ pc'[p] = "feedback" => pc[p] \in {"outcome", "outcomeSave", "feedbackSave"}
         /\ pc'[p] = "feedbackSend" => pc[p] = "feedback"
         /\ pc'[p] = "roadmap" => pc[p] = "feedback"
         /\ pc'[p] = "feedbackSave" => pc[p] = "feedbackSend"
         /\ pc'[p] = "roadmapSync" => pc[p] = "roadmap"
         /\ pc'[p] = "roadmapCheck" => pc[p] \in {"roadmap", "roadmapSave"}
         /\ pc'[p] = "roadmapWrite" => pc[p] = "roadmapSync"
         /\ pc'[p] = "roadmapUndo" => pc[p] = "roadmapSync"
         /\ pc'[p] = "roadmapSave" => pc[p] = "roadmapWrite"
         /\ pc'[p] = "receipt" => pc[p] = "terminalize"
         /\ pc'[p] = "receiptSave" => pc[p] = "receipt"
         /\ pc'[p] = "emit" => pc[p] \in {"receipt", "receiptSave"}
         /\ pc'[p] = "accept" => pc[p] \in {"receipt", "emit", "emitSend"}
         /\ pc'[p] = "complete" => pc[p] \in {"receipt", "acceptSave"}
         /\ pc'[p] = "emitSend" => pc[p] = "emit"
         /\ pc'[p] = "acceptSave" => pc[p] = "accept"
<1>1. pc'[p] \notin Shared \cup Conts \cup {"fail", "release"} => <<pc[p], pc'[p]>> \in Edges
  BY Came
<1> QED BY <1>1 DEF Edges, ObservationEdges, ProposalEdges, DecisionEdges, ExecutionEdges,
     ReviewEdges, CompoundEdges, Shared, Conts

\* The places inside the shared procedures, and how they are entered.
LEMMA Inwards ==
  ASSUME NEW p \in Procs, Works(p), pc'[p] \in Shared
  PROVE  /\ pc'[p] = "eventSave" => pc[p] = "event" /\ job'[p] = job[p]
         /\ pc'[p] = "advanceRun" => pc[p] = "advance" /\ job'[p] = job[p]
         /\ pc'[p] = "advanceSave" => pc[p] = "advanceRun" /\ job'[p] = job[p]
         /\ pc'[p] \in {"event", "advance"} => Through(p)' /\ pc[p] \notin Shared
<1>1. Flow(p) /\ Here(p)
  BY DEF Works
<1>2. pc[p] \in Shared => job[p].ret \in Conts
  BY <1>1 DEF Here, Registers, Shared
<1>3. job[p].ret \in Conts => job[p].ret \notin Shared
  BY DEF Conts, Shared
<1> QED BY <1>1, <1>2, <1>3 DEF Flow, Inner, Shared, Through

\* The places a shared procedure may return to: p is in it, or comes so.
Bound(p, l) == pc[p] \in Shared /\ Heading(p) = l
LEMMA Returns ==
  ASSUME NEW p \in Procs, Works(p)
  PROVE  /\ \A l \in {"propose", "approve", "decline", "execute", "review", "compound"} :
              Heading(p)' = l => Bound(p, l)
         /\ Heading(p)' = "finishRanked" =>
              Bound(p, "finishRanked") \/ pc[p] \in {"continue", "rankEnter"}
         /\ Heading(p)' = "capture" => Bound(p, "capture") \/ pc[p] = "observing"
         /\ Heading(p)' = "rankEnter" => Bound(p, "rankEnter") \/ pc[p] = "rankAdvance"
         /\ Heading(p)' = "awaitEnter" =>
              Bound(p, "awaitEnter") \/ pc[p] \in {"proposalList", "proposeEnter"}
         /\ Heading(p)' = "proposeEnter" => Bound(p, "proposeEnter") \/ pc[p] = "proposeAdvance"
         /\ Heading(p)' = "noopComplete" => Bound(p, "noopComplete") \/ pc[p] = "noop"
         /\ Heading(p)' = "declineClose" => Bound(p, "declineClose") \/ pc[p] = "declineStage"
         /\ Heading(p)' = "executeEnter" => Bound(p, "executeEnter") \/ pc[p] = "executeAdvance"
         /\ Heading(p)' = "executeAttempt" =>
              Bound(p, "executeAttempt") \/ pc[p] \in {"executeAdvance", "executeEnter"}
         /\ Heading(p)' = "reviewEnter" => Bound(p, "reviewEnter") \/ pc[p] = "reviewAdvance"
         /\ Heading(p)' = "compoundEnter" =>
              Bound(p, "compoundEnter") \/ pc[p] = "compoundAdvance"
         /\ Heading(p)' = "compoundStage" => Bound(p, "compoundStage") \/ pc[p] = "compound"
         /\ Heading(p)' = "terminalize" =>
              \/ Bound(p, "terminalize")
              \/ pc[p] \in {"compoundStage", "roadmapCheck", "terminalize"}
<1>1. Heading(p)' \notin {"fail", "release"} =>
        Bound(p, Heading(p)') \/ <<pc[p], Heading(p)'>> \in Edges
  BY Headed DEF Bound
<1> QED BY <1>1 DEF Edges, ObservationEdges, ProposalEdges, DecisionEdges, ExecutionEdges,
     ReviewEdges, CompoundEdges
=============================================================================
