------------------------- MODULE ConsequenceProofs --------------------------
(***************************************************************************)
(* That the run follows the cycle, that a verdict has its consequences     *)
(* before it is signed, and that nothing changes what is signed: the last  *)
(* invariants of CycleClaims are inductive next to those of SafetyProofs,  *)
(* for every set of cycles and of invocations and every number of faults;  *)
(* the one on what is signed as long as no check before the lock is outrun,*)
(* which it is not when invocations follow one another.                    *)
(***************************************************************************)
EXTENDS SafetyProofs

-----------------------------------------------------------------------------
(* The run of a cycle and its stage. *)

Grounds == Footing /\ ReportInv /\ PhaseInv

\* What holds of the run of the cycle p works on.
LEMMA PhaseGround ==
  ASSUME NEW p \in Procs, Works(p), Grounds
  PROVE  LET c == Cyc(p)
             m == mem[p]
         IN /\ Here(p) /\ m \in CycleDoc /\ doc[c] \in CycleDoc /\ Cyc(p)' = c /\ c \in Cycles
            /\ kernel \in [Cycles -> KernelType] /\ Registers(p) /\ pc[p] \in Labels
            /\ m.stage = doc[c].stage /\ doc'[c] \in {doc[c], mem'[p]}
            /\ Edits(pc[p], m, mem'[p]) /\ KernelEdits(pc[p], kernel[c], kernel'[c])
            /\ Advanced(m, kernel[c]) /\ Advanced(doc[c], kernel[c]) /\ PhasePlaces(p)
            /\ kernel[c].phase \in PhasesOf(doc[c].stage)
            /\ Evidence(m, backlog[c], files[c], calls[c]) /\ EvidencePlaces(p)
            /\ OpPlaces(p) /\ Chosen(job[p].op, doc[c])
            /\ ServiceActions(p) /\ ObservationActions(p) /\ ProposalActions(p)
            /\ ExecutionActions(p) /\ ReviewActions(p) /\ CompoundActions(p)
<1>1. /\ Advanced(mem[p], kernel[Cyc(p)]) /\ PhasePlaces(p)
      /\ Advanced(doc[Cyc(p)], kernel[Cyc(p)]) /\ kernel[Cyc(p)].phase \in PhasesOf(doc[Cyc(p)].stage)
  BY WorkTypes DEF Grounds, PhaseInv, RunTracksStage
<1>2. Footing /\ pc[p] \in Labels /\ kernel \in [Cycles -> KernelType] /\ Registers(p)
  BY WorkTypes DEF Grounds, TypeOK, Works, Here
<1> QED BY <1>1, <1>2, WorkTypes, FootingGround DEF Works, World

\* The order of the phases, and the phases that follow one.
LEMMA PhaseOrder ==
  /\ \A k \in RunKeys \cup TerminalKeys :
       /\ Target[k] \in Phases \ {"observe"}
       /\ NextPhase[PreviousPhase[Target[k]]] = Target[k]
       /\ PreviousPhase[Target[k]] # "compound"
  /\ \A ph \in Phases : ph \in Since[ph] /\ Since[ph] \subseteq Phases
  /\ \A ph \in Phases, x \in Phases : x \in Since[ph] => NextPhase[x] \in Since[ph]
  /\ Absent \notin Phases
<1>1. \A k \in RunKeys \cup TerminalKeys : Target[k] \in Phases \ {"observe"}
  BY DEF Target, RunKeys, TerminalKeys, Phases
<1>2. \A ph \in Phases \ {"observe"} :
        NextPhase[PreviousPhase[ph]] = ph /\ PreviousPhase[ph] # "compound"
  BY DEF Phases, NextPhase, PreviousPhase
<1>3. \A ph \in Phases : ph \in Since[ph] /\ Since[ph] \subseteq Phases
  BY DEF Phases, Since
<1>4. \A ph \in Phases, x \in Phases : x \in Since[ph] => NextPhase[x] \in Since[ph]
  BY DEF Phases, Since, NextPhase
<1> QED BY <1>1, <1>2, <1>3, <1>4 DEF Phases, Absent

\* A step leaves the phase, creates the run, or advances it by one.
LEMMA PhaseStep ==
  ASSUME NEW p \in Procs, Works(p), Grounds
  PROVE  LET before == kernel[Cyc(p)].phase
             after == kernel'[Cyc(p)].phase
             k == job[p].adv
         IN \/ after = before
            \/ pc[p] = "ensureRun" /\ before = Absent /\ after = "observe"
            \/ /\ pc[p] = "advanceRun" /\ k \in RunKeys \cup TerminalKeys
               /\ before = PreviousPhase[Target[k]] /\ after = Target[k]
<1> DEFINE c == Cyc(p)
           before == kernel[c].phase
           after == kernel'[c].phase
           k == job[p].adv
<1>1. /\ Here(p) /\ KernelEdits(pc[p], kernel[c], kernel'[c]) /\ PhasePlaces(p)
      /\ kernel \in [Cycles -> KernelType] /\ c \in Cycles /\ Registers(p)
      /\ ServiceActions(p) /\ ObservationActions(p)
  BY PhaseGround
<1>2. after = before \/ pc[p] \in {"ensureRun", "advanceRun"}
  BY <1>1 DEF KernelEdits
<1>3. ASSUME pc[p] = "ensureRun", after # before PROVE before = Absent /\ after = "observe"
  <2>1. \/ kernel' = kernel
        \/ kernel' = [kernel EXCEPT ![c].phase = IF @ = Absent THEN "observe" ELSE @]
    BY <1>1, <1>3 DEF ObservationActions, EnsureCycleRun
  <2> QED BY <1>1, <1>3, <2>1 DEF KernelType
<1>4. ASSUME pc[p] = "advanceRun", after # before
      PROVE  /\ k \in RunKeys \cup TerminalKeys
             /\ before = PreviousPhase[Target[k]] /\ after = Target[k]
  <2>1. \/ kernel' = kernel
        \/ kernel' = [kernel EXCEPT ![c].phase = NextPhase[@]]
    BY <1>1, <1>4 DEF ServiceActions, AdvanceRun
  <2>2. after = NextPhase[before]
    BY <1>1, <1>4, <2>1 DEF KernelType
  <2>3. k \in RunKeys \cup TerminalKeys /\ before = PreviousPhase[Target[k]]
    BY <1>1, <1>4 DEF Registers, PhasePlaces, At
  <2> QED BY <2>2, <2>3, PhaseOrder
<1> QED BY <1>2, <1>3, <1>4

\* A run that has reached a phase stays beyond it.
LEMMA PhaseReached ==
  ASSUME NEW p \in Procs, Works(p), Grounds, NEW ph \in Phases,
         kernel[Cyc(p)].phase \in Since[ph]
  PROVE  kernel'[Cyc(p)].phase \in Since[ph]
<1>1. kernel[Cyc(p)].phase \in Phases
  BY PhaseOrder
<1> QED BY <1>1, PhaseStep, PhaseOrder

\* The completed advances of a document were made.
LEMMA AdvancedDocs ==
  ASSUME NEW p \in Procs, Works(p), Grounds, NEW d \in {doc[Cyc(p)], mem'[p]}
  PROVE  Advanced(d, kernel'[Cyc(p)])
<1> DEFINE c == Cyc(p)
           m == mem[p]
           n == mem'[p]
           k == job[p].adv
<1>1. /\ Here(p) /\ m \in CycleDoc /\ Edits(pc[p], m, n) /\ PhasePlaces(p) /\ Registers(p)
      /\ Advanced(m, kernel[c]) /\ Advanced(doc[c], kernel[c]) /\ ServiceActions(p)
  BY PhaseGround
<1>2. SUFFICES ASSUME NEW x \in RunKeys \cup TerminalKeys, d.key[x] = "completed"
               PROVE  kernel'[c].phase \in Since[Target[x]]
  BY DEF Advanced
<1>3. Target[x] \in Phases /\ x \in Keys
  BY PhaseOrder DEF Keys
<1>4. CASE d = doc[c] \/ m.key[x] = "completed"
  BY <1>1, <1>2, <1>3, <1>4, PhaseReached DEF Advanced
<1>5. CASE d = n /\ m.key[x] # "completed"
  <2>1. pc[p] \in {"advance", "advanceSave"}
    <3>1. \A l : <<l, x>> \in KeyWriters => l \in {"advance", "advanceSave"}
      BY DEF KeyWriters, RunKeys, TerminalKeys
    <3> QED BY <1>1, <1>2, <1>3, <1>5, <3>1 DEF Edits
  <2>2. k \in Keys /\ k \in RunKeys \cup TerminalKeys
    BY <1>1, <2>1 DEF Registers, Keys
  <2>3. CASE pc[p] = "advance"
    <3>1. BeginAdvance(p)
      BY <1>1, <2>3 DEF ServiceActions
    <3>2. \/ n = m \/ n = SetKey(m, k, "started")
          \/ n = SetKey(m, k, "completed") /\ kernel[c].phase = Target[k]
      BY <1>1, <3>1, Jumped, Persisted DEF BeginAdvance
    <3>3. k = x /\ kernel[c].phase = Target[k]
      BY <1>1, <1>2, <1>3, <1>5, <2>2, <3>2, KeySet
    <3> QED BY <1>3, <3>3, PhaseOrder, PhaseReached
  <2>4. CASE pc[p] = "advanceSave"
    <3>1. n = SetKey(m, k, "completed")
      BY <1>1, <2>4, Persisted DEF ServiceActions, FinishAdvance
    <3>2. k = x
      BY <1>1, <1>2, <1>3, <1>5, <2>2, <3>1, KeySet
    <3>3. kernel[c].phase \in Since[Target[k]]
      BY <1>1, <2>4 DEF PhasePlaces, At
    <3> QED BY <1>3, <3>2, <3>3, PhaseReached
  <2> QED BY <2>1, <2>3, <2>4
<1> QED BY <1>4, <1>5

\* The phases of each stage.
LEMMA PhaseTable ==
  /\ PhasesOf("ranked") = {"rank", "propose"}
  /\ \A s \in {"proposed", "awaiting_approval", "declined"} : PhasesOf(s) = {"propose"}
  /\ PhasesOf("approved") = {"propose", "execute"}
  /\ PhasesOf("executing") = {"execute", "review"}
  /\ PhasesOf("reviewing") = {"review", "compound"}
  /\ PhasesOf("compounding") = {"compound"}
  /\ \A s \in {"new", "observing"} : PhasesOf(s) = {Absent, "observe", "rank"}
  /\ \A s \in {"no_op", "completed", "failed", Absent} : PhasesOf(s) = Phases \cup {Absent}
<1>1. /\ PhasesOf("ranked") = {"rank", "propose"}
      /\ \A s \in {"proposed", "awaiting_approval", "declined"} : PhasesOf(s) = {"propose"}
  BY DEF PhasesOf
<1>2. /\ PhasesOf("approved") = {"propose", "execute"}
      /\ PhasesOf("executing") = {"execute", "review"}
      /\ PhasesOf("reviewing") = {"review", "compound"}
      /\ PhasesOf("compounding") = {"compound"}
  BY DEF PhasesOf
<1>3. \A s \in {"new", "observing"} : PhasesOf(s) = {Absent, "observe", "rank"}
  BY DEF PhasesOf
<1>4. \A s \in {"no_op", "completed", "failed", Absent} : PhasesOf(s) = Phases \cup {Absent}
  BY DEF PhasesOf, Absent
<1> QED BY <1>1, <1>2, <1>3, <1>4

\* The stage in which the run is advanced to the phase of k.
LEMMA AdvanceStage ==
  ASSUME NEW p \in Procs, Works(p), Grounds, pc[p] = "advanceRun"
  PROVE  LET stage == mem[p].stage
             k == job[p].adv
         IN \/ k = "run:rank" /\ stage = "observing"
            \/ k = "run:propose" /\ stage = "ranked"
            \/ k = "run:execute" /\ stage \in {"approved", "executing"}
            \/ /\ k = "run:review"
               /\ stage \in {"executing", "reviewing", "compounding", "completed", "failed"}
            \/ /\ k = "run:compound"
               /\ stage \in {"reviewing", "compounding", "completed", "failed"}
            \/ k \in TerminalKeys /\ stage \in {"compounding", "completed", "failed"}
<1> DEFINE k == job[p].adv
           stage == mem[p].stage
<1>1. /\ PhasePlaces(p) /\ Registers(p) /\ EvidencePlaces(p)
      /\ Evidence(mem[p], backlog[Cyc(p)], files[Cyc(p)], calls[Cyc(p)])
  BY PhaseGround
<1>2. k \in RunKeys \cup TerminalKeys /\ job[p].ret = Back[k]
  BY <1>1 DEF Registers, PhasePlaces, Advancing
<1>3. Heading(p) = Back[k]
  BY <1>2 DEF Heading, Shared
<1>4. CASE k = "run:rank"
  BY <1>1, <1>3, <1>4 DEF Back, RunKeys, PhasePlaces, Toward
<1>5. CASE k = "run:propose"
  BY <1>1, <1>3, <1>5 DEF Back, RunKeys, PhasePlaces, Toward
<1>6. CASE k = "run:execute"
  BY <1>1, <1>3, <1>6 DEF Back, RunKeys, PhasePlaces, Toward
<1>7. CASE k = "run:review"
  BY <1>1, <1>3, <1>7 DEF Back, RunKeys, PhasePlaces, Toward
<1>8. CASE k = "run:compound"
  BY <1>1, <1>3, <1>8 DEF Back, RunKeys, EvidencePlaces, Toward, Evidence
<1>9. CASE k \in TerminalKeys
  <2>1. Back[k] = "terminalize"
    BY <1>9 DEF Back, TerminalKeys, RunKeys
  <2> QED BY <1>1, <1>3, <1>9, <2>1 DEF PhasePlaces, Toward
<1> QED BY <1>2, <1>4, <1>5, <1>6, <1>7, <1>8, <1>9 DEF RunKeys

\* A step keeps the run in a phase of the stage.
LEMMA TracksKept ==
  ASSUME NEW p \in Procs, Works(p), Grounds
  PROVE  kernel'[Cyc(p)].phase \in PhasesOf(doc'[Cyc(p)].stage)
<1> DEFINE c == Cyc(p)
           before == kernel[c].phase
           after == kernel'[c].phase
           s == mem[p].stage
           t == mem'[p].stage
           k == job[p].adv
<1>1. /\ PhasePlaces(p) /\ before \in PhasesOf(s) /\ s = doc[c].stage
      /\ doc'[c] \in {doc[c], mem'[p]} /\ s \in Stages
  BY PhaseGround, WorkTypes
<1>2. CASE t = s /\ after = before
  BY <1>1, <1>2
<1>3. CASE t = s /\ pc[p] = "ensureRun" /\ before = Absent /\ after = "observe"
  <2>1. \A x \in Stages : Absent \in PhasesOf(x) => "observe" \in PhasesOf(x)
    <3> TAKE x \in Stages
    <3> QED BY PhaseTable DEF Stages, Phases, Absent
  <2> QED BY <1>1, <1>3, <2>1
<1>4. CASE /\ t = s /\ pc[p] = "advanceRun" /\ k \in RunKeys \cup TerminalKeys
           /\ before = PreviousPhase[Target[k]] /\ after = Target[k]
  <2>1. ASSUME k = "run:rank", s = "observing" PROVE after \in PhasesOf(s)
    <3>1. after = "rank"
      BY <1>4, <2>1 DEF Target, RunKeys
    <3> QED BY <2>1, <3>1, PhaseTable
  <2>2. ASSUME k = "run:propose", s = "ranked" PROVE after \in PhasesOf(s)
    <3>1. after = "propose"
      BY <1>4, <2>2 DEF Target, RunKeys
    <3> QED BY <2>2, <3>1, PhaseTable
  <2>3. ASSUME k = "run:execute", s \in {"approved", "executing"} PROVE after \in PhasesOf(s)
    <3>1. after = "execute"
      BY <1>4, <2>3 DEF Target, RunKeys
    <3> QED BY <2>3, <3>1, PhaseTable
  <2>4. ASSUME k = "run:review",
               s \in {"executing", "reviewing", "compounding", "completed", "failed"}
        PROVE  after \in PhasesOf(s)
    <3>1. after = "review" /\ before = "execute"
      BY <1>4, <2>4 DEF Target, RunKeys, PreviousPhase, Phases
    <3>2. s # "compounding"
      BY <1>1, <3>1, PhaseTable
    <3> QED BY <2>4, <3>1, <3>2, PhaseTable DEF Phases
  <2>5. ASSUME k = "run:compound", s \in {"reviewing", "compounding", "completed", "failed"}
        PROVE  after \in PhasesOf(s)
    <3>1. after = "compound"
      BY <1>4, <2>5 DEF Target, RunKeys
    <3> QED BY <2>5, <3>1, PhaseTable DEF Phases
  <2>6. ASSUME k \in TerminalKeys, s \in {"compounding", "completed", "failed"}
        PROVE  after \in PhasesOf(s)
    <3>1. before # "compound" /\ after \in Phases
      BY <1>4, PhaseOrder
    <3>2. s # "compounding"
      BY <1>1, <3>1, PhaseTable
    <3> QED BY <2>6, <3>1, <3>2, PhaseTable
  <2>7. after \in PhasesOf(s)
    BY <1>4, <2>1, <2>2, <2>3, <2>4, <2>5, <2>6, AdvanceStage
  <2> QED BY <1>1, <1>4, <2>7
<1>5. CASE t # s
  <2>1. <<pc[p], t>> \in StageWriters /\ ValidateTransition(s, t)
    BY <1>5, StageStep
  <2>2. pc[p] \notin {"ensureRun", "advanceRun"}
    BY <2>1 DEF StageWriters
  <2>3. after = before
    BY <2>2, PhaseStep
  <2>4. before \in Phases \cup {Absent}
    BY <1>1, PhaseTable DEF Stages, Phases, Absent
  <2>5. before \in PhasesOf(t)
    <3>1. CASE t \in {"no_op", "completed", "failed"}
      BY <2>4, <3>1, PhaseTable
    <3>2. CASE t = "observing"
      BY <1>1, <2>1, <3>2, PhaseTable DEF ValidateTransition, ForwardEdges
    <3>3. CASE t = "ranked"
      <4>1. s = "observing" /\ before \in Since["rank"]
        BY <1>1, <2>1, <3>3 DEF ValidateTransition, ForwardEdges, StageWriters, PhasePlaces, At
      <4> QED BY <1>1, <3>3, <4>1, PhaseTable DEF Since, Phases, Absent
    <3>4. CASE t = "proposed"
      <4>1. s = "ranked" /\ before \in Since["propose"]
        BY <1>1, <2>1, <3>4 DEF ValidateTransition, ForwardEdges, StageWriters, PhasePlaces, At
      <4> QED BY <1>1, <3>4, <4>1, PhaseTable DEF Since, Phases
    <3>5. CASE t \in {"awaiting_approval", "approved", "declined"}
      BY <1>1, <2>1, <3>5, PhaseTable DEF ValidateTransition, ForwardEdges
    <3>6. CASE t = "executing"
      <4>1. s = "approved" /\ before \in Since["execute"]
        BY <1>1, <2>1, <3>6 DEF ValidateTransition, ForwardEdges, StageWriters, PhasePlaces, At
      <4> QED BY <1>1, <3>6, <4>1, PhaseTable DEF Since, Phases
    <3>7. CASE t = "reviewing"
      <4>1. s = "executing" /\ before \in Since["review"]
        BY <1>1, <2>1, <3>7 DEF ValidateTransition, ForwardEdges, StageWriters, PhasePlaces, At
      <4> QED BY <1>1, <3>7, <4>1, PhaseTable DEF Since, Phases
    <3>8. CASE t = "compounding"
      <4>1. s = "reviewing" /\ before \in Since["compound"]
        BY <1>1, <2>1, <3>8 DEF ValidateTransition, ForwardEdges, StageWriters, PhasePlaces, At
      <4> QED BY <1>1, <3>8, <4>1, PhaseTable DEF Since, Phases
    <3>9. t \in {"observing", "ranked", "no_op", "proposed", "awaiting_approval", "approved",
                 "declined", "executing", "reviewing", "compounding", "completed", "failed"}
      BY <2>1 DEF StageWriters
    <3> QED BY <3>1, <3>2, <3>3, <3>4, <3>5, <3>6, <3>7, <3>8, <3>9
  <2> QED BY <1>1, <2>3, <2>5
<1>6. t # s => pc[p] \notin {"ensureRun", "advanceRun"}
  BY StageStep DEF StageWriters
<1> QED BY <1>2, <1>3, <1>4, <1>5, <1>6, PhaseStep

\* Who heads for one of the places S after a step did so before inside a
\* shared procedure, with the same stage, or takes an edge to it.
LEMMA Heads ==
  ASSUME NEW p \in Procs, Works(p), NEW S, Toward(p, S)', S \cap {"fail", "release"} = {}
  PROVE  \/ /\ pc[p] \in Shared /\ Heading(p)' = Heading(p) /\ Toward(p, S)
            /\ mem'[p].stage = mem[p].stage
         \/ pc[p] \notin Shared /\ <<pc[p], Heading(p)'>> \in Edges /\ Heading(p)' \in S
            /\ Heading(p) = pc[p]
<1>1. Heading(p)' \in S /\ Heading(p)' \notin {"fail", "release"}
  BY DEF Toward
<1>2. CASE pc[p] \in Shared
  <2>1. Heading(p)' = Heading(p)
    BY <1>1, <1>2, Headed
  <2> QED BY <1>1, <1>2, <2>1, StageStep DEF Toward
<1>3. CASE pc[p] \notin Shared
  BY <1>1, <1>3, Headed DEF Heading
<1> QED BY <1>2, <1>3

\* From the capture to the ranking the stage is observing.
LEMMA ObservingPlaces ==
  ASSUME NEW p \in Procs, Works(p), Grounds, Running(p)',
         Toward(p, {"capture", "observe", "observeWrite", "register", "registerSend",
                    "registerDone", "judge", "judgeFirst", "judgeAgain", "judgeFirstSave",
                    "judgeAgainSave", "judgmentFilter", "judgmentWrite", "judged",
                    "rankAdvance", "rankEnter"})'
  PROVE  mem'[p].stage = "observing"
<1> DEFINE m == mem[p]
           S == {"capture", "observe", "observeWrite", "register", "registerSend",
                 "registerDone", "judge", "judgeFirst", "judgeAgain", "judgeFirstSave",
                 "judgeAgainSave", "judgmentFilter", "judgmentWrite", "judged",
                 "rankAdvance", "rankEnter"}
<1>1. /\ Here(p) /\ m \in CycleDoc /\ PhasePlaces(p) /\ ObservationActions(p) /\ ReportPlaces(p)
      /\ pc'[p] # "release"
  BY PhaseGround, WorkTypes DEF Works, Grounds, ReportInv
<1>2. CASE Toward(p, S) /\ mem'[p].stage = m.stage
  BY <1>1, <1>2 DEF PhasePlaces
<1>3. CASE pc[p] \notin Shared /\ <<pc[p], Heading(p)'>> \in Edges /\ Heading(p)' \in S
  <2>1. pc[p] \in (S \ {"rankEnter"}) \cup {"observing"}
    BY <1>3 DEF Edges, ObservationEdges, ProposalEdges, DecisionEdges, ExecutionEdges, ReviewEdges,
       CompoundEdges
  <2>2. CASE pc[p] = "observing"
    <3>1. EnterObserving(p) /\ m.stage \in {"new", "observing"}
      BY <1>1, <2>2 DEF ObservationActions, ReportPlaces, At
    <3>2. CASE m.stage = "new"
      <4>1. Transition(p, m, "observing", "capture")
        BY <3>1, <3>2 DEF EnterObserving
      <4>2. mem'[p] = [m EXCEPT !.stage = "observing"]
        BY <1>1, <4>1, Transited
      <4> QED BY <1>1, <4>2 DEF CycleDoc
    <3>3. CASE m.stage = "observing"
      BY <3>1, <3>3 DEF EnterObserving
    <3> QED BY <3>1, <3>2, <3>3
  <2>3. CASE pc[p] \in S \ {"rankEnter"}
    <3>1. mem'[p].stage = m.stage
      BY <2>3, StageStep DEF StageWriters
    <3>2. Toward(p, S)
      BY <1>3, <2>3 DEF Toward, Heading
    <3> QED BY <1>2, <3>1, <3>2
  <2> QED BY <2>1, <2>2, <2>3
<1> QED BY <1>2, <1>3, Heads

\* A bead is created, and the run advanced for it, in stage ranked.
LEMMA RankedPlaces ==
  ASSUME NEW p \in Procs, Works(p), Grounds, Running(p)',
         Toward(p, {"proposalCreate", "proposeAdvance", "proposeEnter"})'
  PROVE  mem'[p].stage = "ranked"
<1> DEFINE m == mem[p]
           S == {"proposalCreate", "proposeAdvance", "proposeEnter"}
<1>1. Here(p) /\ m \in CycleDoc /\ PhasePlaces(p) /\ ProposalActions(p)
  BY PhaseGround
<1>2. CASE Toward(p, S) /\ mem'[p].stage = m.stage
  BY <1>1, <1>2 DEF PhasePlaces
<1>3. CASE pc[p] \notin Shared /\ <<pc[p], Heading(p)'>> \in Edges /\ Heading(p)' \in S
  <2>1. pc[p] \in {"proposalList", "proposalCreate", "proposeAdvance"}
    BY <1>3 DEF Edges, ObservationEdges, ProposalEdges, DecisionEdges, ExecutionEdges, ReviewEdges,
       CompoundEdges
  <2>2. mem'[p].stage = m.stage
    BY <2>1, StageStep DEF StageWriters
  <2>3. CASE pc[p] = "proposalList"
    <3>1. pc'[p] \in {"proposeAdvance", "awaitEnter", "snapshotWrite", "proposalCreate", "release"}
      BY <1>1, <2>3, Went DEF ProposalActions, ListBacklog
    <3>2. pc'[p] \in {"proposeAdvance", "proposalCreate"}
      BY <1>3, <3>1 DEF Heading, Shared
    <3>3. m.stage = "ranked"
      BY <1>1, <2>3, <3>2, Went DEF ProposalActions, ListBacklog
    <3> QED BY <2>2, <3>3
  <2>4. CASE pc[p] # "proposalList"
    BY <1>2, <1>3, <2>1, <2>2, <2>4 DEF Toward, Heading
  <2> QED BY <2>3, <2>4
<1> QED BY <1>2, <1>3, Heads

\* The executing stage is entered from approved, and not left before review.
LEMMA ExecutingPlaces ==
  ASSUME NEW p \in Procs, Works(p), Grounds, Running(p)'
  PROVE  LET stage == mem'[p].stage
         IN /\ Toward(p, {"executeEnter"})' => stage \in {"approved", "executing"}
            /\ Toward(p, {"executeAttempt", "executor", "report", "collect", "benchmark", "measure",
                          "measureWrite", "measured", "reviewAdvance", "reviewEnter"})' =>
                 stage \in {"executing", "reviewing", "compounding", "completed", "failed"}
<1> DEFINE m == mem[p]
           n == mem'[p]
           S == {"executeAttempt", "executor", "report", "collect", "benchmark", "measure",
                 "measureWrite", "measured", "reviewAdvance", "reviewEnter"}
           T == {"executing", "reviewing", "compounding", "completed", "failed"}
<1>1. /\ Here(p) /\ m \in CycleDoc /\ PhasePlaces(p) /\ ExecutionActions(p) /\ OpPlaces(p)
      /\ Chosen(job[p].op, doc[Cyc(p)]) /\ m.stage = doc[Cyc(p)].stage
  BY PhaseGround
<1>2. ASSUME Toward(p, {"executeEnter"})' PROVE n.stage \in {"approved", "executing"}
  <2>1. CASE Toward(p, {"executeEnter"}) /\ n.stage = m.stage
    BY <1>1, <2>1 DEF PhasePlaces
  <2>2. CASE pc[p] \notin Shared /\ <<pc[p], Heading(p)'>> \in Edges
             /\ Heading(p)' \in {"executeEnter"}
    <3>1. pc[p] = "executeAdvance"
      BY <2>2 DEF Edges, ObservationEdges, ProposalEdges, DecisionEdges, ExecutionEdges,
         ReviewEdges, CompoundEdges
    <3>2. AdvanceToExecute(p)
      BY <1>1, <3>1 DEF ExecutionActions
    <3>3. m.stage \in {"approved", "executing"}
      BY <1>1, <2>2, <3>2, Went DEF AdvanceToExecute, Heading, Shared
    <3> QED BY <3>2, <3>3 DEF AdvanceToExecute
  <2> QED BY <1>2, <2>1, <2>2, Heads
<1>3. ASSUME Toward(p, S)' PROVE n.stage \in T
  <2>1. CASE Toward(p, S) /\ n.stage = m.stage
    BY <1>1, <2>1 DEF PhasePlaces
  <2>2. CASE pc[p] \notin Shared /\ <<pc[p], Heading(p)'>> \in Edges /\ Heading(p)' \in S
    <3>1. pc[p] \in (S \ {"reviewEnter"}) \cup {"executeAdvance", "executeEnter"}
      BY <2>2 DEF Edges, ObservationEdges, ProposalEdges, DecisionEdges, ExecutionEdges,
         ReviewEdges, CompoundEdges
    <3>2. CASE pc[p] = "executeAdvance"
      <4>1. AdvanceToExecute(p) /\ m.stage \in T \cup {"approved"}
        BY <1>1, <3>2 DEF ExecutionActions, OpPlaces, Toward, Heading, Shared, Chosen
      <4>2. CASE m.stage \in {"approved", "executing"}
        <5>1. Advance(p, "run:execute", "executeEnter")
          BY <4>1, <4>2 DEF AdvanceToExecute
        <5>2. Heading(p)' = "executeEnter"
          BY <1>1, <5>1, Went DEF Advance, Heading, Shared, Here, TypeOK, Jobs
        <5> QED BY <2>2, <5>2
      <4>3. CASE m.stage \notin {"approved", "executing"}
        BY <4>1, <4>3 DEF AdvanceToExecute
      <4> QED BY <4>2, <4>3
    <3>3. CASE pc[p] = "executeEnter"
      <4>1. EnterExecuting(p) /\ m.stage \in {"approved", "executing"}
        BY <1>1, <3>3 DEF ExecutionActions, PhasePlaces, Toward, Heading, Shared
      <4>2. CASE m.stage = "approved"
        <5>1. Transition(p, m, "executing", "executeAttempt")
          BY <4>1, <4>2 DEF EnterExecuting
        <5>2. pc'[p] # "release"
          BY DEF Works
        <5>3. n = [m EXCEPT !.stage = "executing"]
          BY <1>1, <5>1, <5>2, Transited
        <5> QED BY <1>1, <5>3 DEF CycleDoc
      <4>3. CASE m.stage = "executing"
        BY <1>1, <4>1, <4>3, Jumped DEF EnterExecuting
      <4> QED BY <4>1, <4>2, <4>3
    <3>4. CASE pc[p] \in S \ {"reviewEnter"}
      <4>1. n.stage = m.stage
        BY <3>4, StageStep DEF StageWriters
      <4>2. Toward(p, S)
        BY <2>2, <3>4 DEF Toward, Heading
      <4> QED BY <2>1, <4>1, <4>2
    <3> QED BY <3>1, <3>2, <3>3, <3>4
  <2> QED BY <1>3, <2>1, <2>2, Heads
<1> QED BY <1>2, <1>3

\* Who terminalizes or signs is in a stage that ends the cycle, and signs
\* only a run that has ended.
LEMMA SigningPlaces ==
  ASSUME NEW p \in Procs, Works(p), Grounds, Running(p)'
  PROVE  LET stage == mem'[p].stage
         IN /\ Toward(p, {"compoundStage"})' => stage # "no_op"
            /\ Toward(p, {"terminalize"} \cup Signing)' =>
                 stage \in {"compounding", "completed", "failed"}
            /\ pc'[p] \in Signing => kernel'[Cyc(p)].phase = "compound"
<1> DEFINE m == mem[p]
           n == mem'[p]
           c == Cyc(p)
           S == {"terminalize"} \cup Signing
           T == {"compounding", "completed", "failed"}
<1>1. /\ Here(p) /\ m \in CycleDoc /\ PhasePlaces(p) /\ CompoundActions(p) /\ OpPlaces(p)
      /\ Chosen(job[p].op, doc[c]) /\ m.stage = doc[c].stage /\ EvidencePlaces(p)
      /\ pc'[p] # "release" /\ kernel \in [Cycles -> KernelType] /\ c \in Cycles
  BY PhaseGround DEF Works
<1>2. ASSUME Toward(p, {"compoundStage"})' PROVE n.stage # "no_op"
  <2>1. CASE Toward(p, {"compoundStage"}) /\ n.stage = m.stage
    BY <1>1, <2>1 DEF PhasePlaces
  <2>2. CASE pc[p] \notin Shared /\ <<pc[p], Heading(p)'>> \in Edges
             /\ Heading(p)' \in {"compoundStage"}
    <3>1. pc[p] = "compound"
      BY <2>2 DEF Edges, ObservationEdges, ProposalEdges, DecisionEdges, ExecutionEdges,
         ReviewEdges, CompoundEdges
    <3>2. BeginCompound(p)
      BY <1>1, <3>1 DEF CompoundActions
    <3>3. CASE m.stage = "no_op"
      <4>1. Transition(p, m, "completed", "compoundStage")
        BY <3>2, <3>3 DEF BeginCompound
      <4>2. n = [m EXCEPT !.stage = "completed"]
        BY <1>1, <4>1, Transited
      <4> QED BY <1>1, <4>2 DEF CycleDoc
    <3>4. CASE m.stage # "no_op"
      BY <1>1, <3>2, <3>4, Jumped DEF BeginCompound
    <3> QED BY <3>3, <3>4
  <2> QED BY <1>2, <2>1, <2>2, Heads
<1>3. ASSUME Toward(p, S)' PROVE n.stage \in T
  <2>1. CASE Toward(p, S) /\ n.stage = m.stage
    BY <1>1, <2>1 DEF PhasePlaces
  <2>2. CASE pc[p] \notin Shared /\ <<pc[p], Heading(p)'>> \in Edges /\ Heading(p)' \in S
    <3>1. pc[p] \in (S \ {"complete"}) \cup {"compoundStage", "roadmapCheck"}
      BY <2>2 DEF Edges, ObservationEdges, ProposalEdges, DecisionEdges, ExecutionEdges,
         ReviewEdges, CompoundEdges, Signing
    <3>2. n.stage = m.stage
      BY <3>1, StageStep DEF StageWriters, Signing
    <3>3. CASE pc[p] = "compoundStage"
      BY <1>1, <3>2, <3>3 DEF OpPlaces, PhasePlaces, Toward, Heading, Shared, Chosen
    <3>4. CASE pc[p] = "roadmapCheck"
      BY <1>1, <3>2, <3>4 DEF EvidencePlaces, Consequent
    <3>5. CASE pc[p] \in S
      BY <1>1, <2>1, <2>2, <3>2, <3>5 DEF Toward, Heading
    <3> QED BY <3>1, <3>3, <3>4, <3>5
  <2>3. S \cap {"fail", "release"} = {}
    BY DEF Signing
  <2> QED BY <1>3, <2>1, <2>2, <2>3, Heads
<1>4. ASSUME pc'[p] \in Signing PROVE kernel'[c].phase = "compound"
  <2>1. pc[p] \in Signing \cup {"terminalize"}
    BY <1>4, Sources DEF Signing
  <2>2. kernel'[c].phase = kernel[c].phase
    BY <2>1, PhaseStep DEF Signing
  <2>3. CASE pc[p] = "terminalize"
    <3>1. Terminalize(p) /\ pc'[p] \notin {"advance", "release"}
      BY <1>1, <1>4, <2>3 DEF CompoundActions, Signing
    <3>2. kernel[c].phase = "compound"
      BY <1>1, <3>1, Jumped, Went DEF Terminalize, Advance
    <3> QED BY <2>2, <3>2
  <2> QED BY <1>1, <2>1, <2>2, <2>3 DEF PhasePlaces
<1> QED BY <1>2, <1>3, <1>4

\* An advance that returns has brought the run to its phase.
LEMMA EntryReached ==
  ASSUME NEW p \in Procs, Works(p), Grounds, pc'[p] \in Entries
  PROVE  \E k \in RunKeys \cup TerminalKeys :
           Back[k] = pc'[p] /\ kernel'[Cyc(p)].phase \in Since[Target[k]]
<1> DEFINE c == Cyc(p)
           k == job[p].adv
           m == mem[p]
<1>1. /\ Here(p) /\ PhasePlaces(p) /\ Registers(p) /\ ServiceActions(p) /\ ObservationActions(p)
      /\ ProposalActions(p) /\ ExecutionActions(p) /\ ReviewActions(p) /\ Advanced(m, kernel[c])
  BY PhaseGround
<1>2. Flow(p) /\ pc'[p] \notin {"fail", "release"} \cup Shared
  BY DEF Works, Entries, Shared
<1>3. CASE pc[p] \in Shared
  <2>1. job[p].ret = pc'[p]
    BY <1>2, <1>3 DEF Flow, Inner, Shared
  <2>2. pc[p] \in Advancing
    BY <1>1, <1>3, <2>1 DEF PhasePlaces, Shared, Advancing
  <2>3. k \in RunKeys \cup TerminalKeys /\ Back[k] = pc'[p]
    BY <1>1, <2>1, <2>2 DEF Registers, PhasePlaces, Advancing
  <2>4. Target[k] \in Phases
    BY <2>3, PhaseOrder
  <2>5. kernel[c].phase \in Since[Target[k]] \/ pc[p] = "advanceRun"
    <3>1. CASE pc[p] = "advance"
      <4>1. BeginAdvance(p)
        BY <1>1, <3>1 DEF ServiceActions
      <4>2. m.key[k] = "completed" \/ kernel[c].phase = Target[k]
        BY <1>1, <1>2, <4>1, Jumped, Persisted, Went DEF BeginAdvance, AdvanceError, Shared
      <4> QED BY <1>1, <2>3, <2>4, <4>2, PhaseOrder DEF Advanced
    <3>2. CASE pc[p] = "advanceSave"
      BY <1>1, <3>2 DEF PhasePlaces, At
    <3> QED BY <2>2, <3>1, <3>2 DEF Advancing
  <2>6. pc[p] # "advanceRun"
    <3> SUFFICES ASSUME pc[p] = "advanceRun" PROVE FALSE
      OBVIOUS
    <3>1. AdvanceRun(p)
      BY <1>1 DEF ServiceActions
    <3> QED BY <1>1, <1>2, <3>1, Went DEF AdvanceRun, AdvanceError, Shared
  <2> QED BY <2>3, <2>4, <2>5, <2>6, PhaseReached
<1>4. CASE pc[p] \notin Shared
  <2>1. <<pc[p], pc'[p]>> \in Edges
    BY <1>2, <1>4 DEF Flow, Out, Heading
  <2>2. pc[p] \in {"rankAdvance", "proposeAdvance", "executeAdvance", "reviewAdvance",
                   "compoundAdvance"}
    BY <2>1 DEF Entries, Edges, ObservationEdges, ProposalEdges, DecisionEdges,
       ExecutionEdges, ReviewEdges, CompoundEdges
  <2>3. pc'[p] \in {"advance", "executeAttempt"}
    BY <1>1, <2>2, Went DEF ObservationActions, AdvanceToRank, ProposalActions, AdvanceToPropose,
       ExecutionActions, AdvanceToExecute, AdvanceToReview, ReviewActions, AdvanceToCompound, Advance
  <2> QED BY <2>3 DEF Entries
<1> QED BY <1>3, <1>4

\* Each entry is the return of one advance.
LEMMA EntryPhases ==
  ASSUME NEW p \in Procs, Works(p), Grounds
  PROVE  LET phase == kernel'[Cyc(p)].phase
         IN /\ pc'[p] = "rankEnter" => phase \in Since["rank"]
            /\ pc'[p] = "proposeEnter" => phase \in Since["propose"]
            /\ pc'[p] = "executeEnter" => phase \in Since["execute"]
            /\ pc'[p] = "reviewEnter" => phase \in Since["review"]
            /\ pc'[p] = "compoundEnter" => phase \in Since["compound"]
<1>1. \A k \in RunKeys \cup TerminalKeys :
        /\ Back[k] = "rankEnter" => Target[k] = "rank"
        /\ Back[k] = "proposeEnter" => Target[k] = "propose"
        /\ Back[k] = "executeEnter" => Target[k] = "execute"
        /\ Back[k] = "reviewEnter" => Target[k] = "review"
        /\ Back[k] = "compoundEnter" => Target[k] = "compound"
  BY DEF Back, Target, RunKeys, TerminalKeys
<1> QED BY <1>1, EntryReached DEF Entries

\* Inside advanceOnce the registers fit its way back, and the phase its place.
LEMMA AdvancePlaces ==
  ASSUME NEW p \in Procs, Works(p), Grounds
  PROVE  LET adv == job'[p].adv
             ret == job'[p].ret
             phase == kernel'[Cyc(p)].phase
         IN /\ pc'[p] \in Advancing => ret = Back[adv]
            /\ pc'[p] \in {"event", "eventSave"} => ret \notin Entries \cup {"terminalize"}
            /\ pc'[p] = "advanceRun" => phase = PreviousPhase[Target[adv]]
            /\ pc'[p] = "advanceSave" => phase \in Since[Target[adv]]
<1> DEFINE c == Cyc(p)
           k == job[p].adv
<1>1. /\ Here(p) /\ PhasePlaces(p) /\ Registers(p) /\ ServiceActions(p)
      /\ kernel \in [Cycles -> KernelType] /\ c \in Cycles
  BY PhaseGround
<1>2. pc'[p] \in Advancing => job'[p].ret = Back[job'[p].adv]
  BY <1>1, Inwards DEF Through, Heading, Shared, Advancing, PhasePlaces
<1>3. pc'[p] \in {"event", "eventSave"} => job'[p].ret \notin Entries \cup {"terminalize"}
  BY <1>1, Inwards DEF Through, Heading, Shared, PhasePlaces
<1>4. ASSUME pc'[p] = "advanceRun" PROVE kernel'[c].phase = PreviousPhase[Target[job'[p].adv]]
  <2>1. pc[p] = "advance" /\ job'[p] = job[p] /\ BeginAdvance(p)
    BY <1>1, <1>4, Inwards DEF Shared, ServiceActions
  <2>2. k \in RunKeys \cup TerminalKeys /\ job[p].ret \notin Shared
    BY <1>1, <2>1 DEF Registers, Conts, Shared
  <2>3. kernel[c].phase = PreviousPhase[Target[k]]
    BY <1>1, <1>4, <2>1, <2>2, Jumped, Persisted, Went DEF BeginAdvance, AdvanceError, Shared
  <2>4. kernel' = kernel
    BY <2>1 DEF BeginAdvance, world
  <2> QED BY <2>1, <2>3, <2>4
<1>5. ASSUME pc'[p] = "advanceSave" PROVE kernel'[c].phase \in Since[Target[job'[p].adv]]
  <2>1. pc[p] = "advanceRun" /\ job'[p] = job[p] /\ AdvanceRun(p)
    BY <1>1, <1>5, Inwards DEF Shared, ServiceActions
  <2>2. k \in RunKeys \cup TerminalKeys /\ kernel[c].phase = PreviousPhase[Target[k]]
    BY <1>1, <2>1 DEF Registers, PhasePlaces, At
  <2>3. kernel' = [kernel EXCEPT ![c].phase = NextPhase[@]]
    BY <1>1, <1>5, <2>1, Went DEF AdvanceRun, AdvanceError
  <2>4. kernel'[c].phase = Target[k]
    BY <1>1, <2>2, <2>3, PhaseOrder DEF KernelType
  <2> QED BY <2>1, <2>2, <2>4, PhaseOrder
<1> QED BY <1>2, <1>3, <1>4, <1>5

\* A step keeps what a place says of the run.
LEMMA PhasePlacesKept ==
  ASSUME NEW p \in Procs, Works(p), Grounds, Running(p)'
  PROVE  PhasePlaces(p)'
<1>1. Cyc(p)' = Cyc(p)
  BY PhaseGround
<1> QED BY <1>1, ObservingPlaces, RankedPlaces, ExecutingPlaces, SigningPlaces, EntryPhases,
     AdvancePlaces DEF PhasePlaces, At

\* The places at the start of an operation know nothing of the run.
LEMMA PhaseEntry ==
  ASSUME NEW q \in Procs,
         \/ pc'[q] \in {"startLatest", "ensureRun"}
         \/ /\ pc'[q] = "event" /\ job'[q].ret = job'[q].op
            /\ job'[q].op \in Ops \ {"start", "observe"}
  PROVE  PhasePlaces(q)'
<1>1. Heading(q)' \in {"startLatest", "ensureRun", "propose", "approve", "decline", "execute",
                       "review", "compound"}
  BY DEF Heading, Shared, Ops
<1>2. /\ pc'[q] \in {"startLatest", "ensureRun", "event"}
      /\ pc'[q] = "event" => job'[q].ret \notin Entries \cup {"terminalize"}
  BY DEF Ops, Entries
<1> QED BY <1>1, <1>2 DEF PhasePlaces, Toward, At, Advancing, Signing

\* A cycle without a trace has no run.
LEMMA PhaseStart ==
  ASSUME NEW d \in NewDocs \cup {NoDoc}
  PROVE  Advanced(d, KernelInit) /\ KernelInit.phase \in PhasesOf(d.stage)
<1>1. d.key = [k \in Keys |-> "none"] /\ d.stage \in {"new", Absent}
  <2>1. CASE d \in NewDocs
    <3>1. PICK mode \in Modes : d = [NoDoc EXCEPT !.stage = "new", !.mode = mode]
      BY <2>1 DEF NewDocs
    <3> QED BY <3>1 DEF NoDoc
  <2>2. CASE d = NoDoc
    BY <2>2 DEF NoDoc
  <2> QED BY <2>1, <2>2
<1>2. \A k \in RunKeys \cup TerminalKeys : d.key[k] = "none"
  BY <1>1 DEF Keys
<1>3. KernelInit.phase = Absent
  BY DEF KernelInit
<1> QED BY <1>1, <1>2, <1>3, PhaseTable DEF Advanced

\* PhaseInv is inductive.
LEMMA PhaseKept ==
  ASSUME LockInv, CycleInv, Unborn, Grounds, [Next]_vars
  PROVE  PhaseInv'
<1> DEFINE Docs == \A c \in Cycles :
             /\ Advanced(doc'[c], kernel'[c])
             /\ kernel'[c].phase \in PhasesOf(doc'[c].stage)
           Copies == \A q \in Procs : Running(q)' =>
             Advanced(mem'[q], kernel'[Cyc(q)']) /\ PhasePlaces(q)'
<1>1. ASSUME NEW p \in Procs, Works(p) PROVE Docs /\ Copies
  <2>1. \A c \in Cycles \ {Cyc(p)} : doc'[c] = doc[c] /\ kernel'[c] = kernel[c]
    BY <1>1 DEF Works, Data, World
  <2>2. \A d \in {doc[Cyc(p)], mem'[p]} : Advanced(d, kernel'[Cyc(p)])
    BY <1>1, AdvancedDocs
  <2>3. doc'[Cyc(p)] \in {doc[Cyc(p)], mem'[p]} /\ Cyc(p)' = Cyc(p)
    BY <1>1, PhaseGround
  <2>4. Docs
    BY <1>1, <2>1, <2>2, <2>3, TracksKept DEF Grounds, PhaseInv, RunTracksStage
  <2>5. Copies
    BY <1>1, <2>2, <2>3, PhasePlacesKept DEF Works
  <2> QED BY <2>4, <2>5
<1>2. ASSUME NEW p \in Procs, Starts(p) PROVE Docs /\ Copies
  <2>1. /\ Cyc(p) \in Cycles /\ Cyc(p)' = Cyc(p) /\ kernel' = kernel
        /\ doc[Cyc(p)] = NoDoc /\ kernel[Cyc(p)] = KernelInit
    BY <1>2 DEF Starts, Unborn, world, Cyc
  <2>2. doc'[Cyc(p)] \in NewDocs \cup {NoDoc} /\ mem'[p] \in NewDocs
    BY <1>2, <2>1 DEF Starts
  <2>3. Docs
    BY <1>2, <2>1, <2>2, PhaseStart DEF Starts, Grounds, PhaseInv, RunTracksStage
  <2>4. Running(p)' => pc'[p] \in {"startLatest", "ensureRun"}
    BY <1>2 DEF Starts, Running
  <2>5. Copies
    BY <1>2, <2>1, <2>2, <2>4, PhaseStart, PhaseEntry DEF Starts
  <2> QED BY <2>3, <2>5
<1>3. ASSUME Quiet PROVE Docs /\ Copies
  <2>1. UNCHANGED <<doc, kernel>>
    BY <1>3 DEF Quiet, world
  <2>2. Docs
    BY <2>1 DEF Grounds, PhaseInv, RunTracksStage
  <2>3. ASSUME NEW q \in Procs, Running(q)'
        PROVE  Advanced(mem'[q], kernel'[Cyc(q)']) /\ PhasePlaces(q)'
    <3>1. CASE Running(q) /\ Stays(q)
      <4>1. Advanced(mem[q], kernel[Cyc(q)]) /\ PhasePlaces(q)
        BY <3>1 DEF Grounds, PhaseInv
      <4>2. /\ Cyc(q)' = Cyc(q) /\ mem'[q] = mem[q] /\ Heading(q)' = Heading(q)
            /\ pc'[q] = pc[q] /\ job'[q] = job[q]
        BY <3>1 DEF Stays, Cyc, Heading
      <4>3. PhasePlaces(q)'
        BY <2>1, <4>1, <4>2 DEF PhasePlaces, Toward, At
      <4> QED BY <2>1, <4>1, <4>2, <4>3
    <3>2. CASE Enters(q)
      <4>1. /\ Cyc(q) \in Cycles /\ Cyc(q)' = Cyc(q) /\ mem'[q] = doc[Cyc(q)]
            /\ job'[q].ret = job'[q].op
            /\ \/ pc'[q] = "ensureRun"
               \/ pc'[q] = "event" /\ job'[q].op \in Ops \ {"start", "observe"}
        BY <3>2 DEF Enters, Body, Ops
      <4>2. PhasePlaces(q)'
        BY <4>1, PhaseEntry
      <4> QED BY <2>1, <2>2, <4>1, <4>2
    <3> QED BY <1>3, <2>3, <3>1, <3>2 DEF Quiet
  <2>4. Copies
    BY <2>3
  <2> QED BY <2>2, <2>4
<1>4. Docs /\ Copies
  <2> HIDE DEF Docs, Copies
  <2> QED BY <1>1, <1>2, <1>3, StepKinds DEF Grounds
<1> QED BY <1>4 DEF PhaseInv, RunTracksStage

\* Every reachable state has PhaseInv.
LEMMA PhaseInvariance == Spec => []PhaseInv
<1>1. Init => PhaseInv
  <2> SUFFICES ASSUME Init PROVE PhaseInv
    OBVIOUS
  <2>1. \A c \in Cycles : doc[c] = NoDoc /\ kernel[c] = KernelInit
    BY DEF Init, ServiceInit
  <2>2. \A p \in Procs : ~Running(p)
    BY DEF Init, ServiceInit, Running, Critical, Outside
  <2> QED BY <2>1, <2>2, PhaseStart DEF PhaseInv, RunTracksStage
<1>2. LockInv /\ CycleInv /\ Unborn /\ (ClaimInv /\ Agreement /\ AuthorityInv /\ EvidenceInv)
        /\ ReportInv /\ PhaseInv /\ [Next]_vars => PhaseInv'
  BY PhaseKept DEF Grounds, Footing
<1> QED BY <1>1, <1>2, LockInvariant, CycleInvariance, UnbornInvariance, ClaimInvariance,
     AgreementInvariance, FootingInvariance, ReportInvariance, PTL DEF Spec

\* The run and the cycle never part: advanceOnce and transition are two
\* calls, each may fail or be cut off, and a retry finds the phase it left.
THEOREM RunTracks == Spec => []RunTracksStage
<1>1. PhaseInv => RunTracksStage
  BY DEF PhaseInv
<1> QED BY <1>1, PhaseInvariance, PTL

-----------------------------------------------------------------------------
(* The consequences of a verdict. *)

\* What holds of the cycle p works on, of its verdict and of what followed.
LEMMA ConsequenceGround ==
  ASSUME NEW p \in Procs, Works(p), Grounds, ConsequenceInv
  PROVE  LET c == Cyc(p)
             m == mem[p]
         IN /\ Here(p) /\ m \in CycleDoc /\ mem'[p] \in CycleDoc /\ Cyc(p)' = c /\ c \in Cycles
            /\ kernel \in [Cycles -> KernelType] /\ backlog \in [Cycles -> BacklogType]
            /\ files \in [Cycles -> FilesType]
            /\ Edits(pc[p], m, mem'[p]) /\ KernelEdits(pc[p], kernel[c], kernel'[c])
            /\ BacklogEdits(pc[p], backlog[c], backlog'[c])
            /\ FilesEdits(pc[p], files[c], files'[c])
            /\ Evidence(m, backlog[c], files[c], calls[c]) /\ EvidencePlaces(p)
            /\ Consequences(m, kernel[c], backlog[c], files[c]) /\ ConsequencePlaces(p)
            /\ CompoundActions(p)
<1>1. /\ Consequences(mem[p], kernel[Cyc(p)], backlog[Cyc(p)], files[Cyc(p)])
      /\ ConsequencePlaces(p)
  BY WorkTypes DEF ConsequenceInv
<1>2. Footing /\ backlog \in [Cycles -> BacklogType] /\ files \in [Cycles -> FilesType]
  BY WorkTypes DEF Grounds, TypeOK
<1> QED BY <1>1, <1>2, WorkTypes, FootingGround, PhaseGround

\* The keys that consequences speak of, and where they are written.
LEMMA ConsequenceKeys ==
  /\ {"backlog:promotion", "backlog:close", "outcome:state"} \subseteq Lasting
  /\ {"backlog:promotion", "backlog:close", "outcome:state", "roadmap:sync", "receipt:attempt"}
       \subseteq Keys \ LooseKeys
  /\ \A l : /\ <<l, "backlog:promotion">> \in KeyWriters => l = "promoteSave"
            /\ <<l, "backlog:close">> \in KeyWriters => l = "closeSave"
            /\ <<l, "outcome:state">> \in KeyWriters => l = "outcomeSave"
            /\ <<l, "roadmap:sync">> \in KeyWriters => l \in {"roadmap", "roadmapUndo", "roadmapSave"}
<1>1. \A l : /\ <<l, "backlog:promotion">> \in KeyWriters => l = "promoteSave"
             /\ <<l, "backlog:close">> \in KeyWriters => l = "closeSave"
             /\ <<l, "outcome:state">> \in KeyWriters => l = "outcomeSave"
  BY DEF KeyWriters, RunKeys, TerminalKeys
<1>2. \A l : <<l, "roadmap:sync">> \in KeyWriters => l \in {"roadmap", "roadmapUndo", "roadmapSave"}
  BY DEF KeyWriters, RunKeys, TerminalKeys
<1> QED BY <1>1, <1>2 DEF Lasting, Keys, LooseKeys

\* What a step leaves of the completed consequences of the copy.
LEMMA CompletedKept ==
  ASSUME NEW p \in Procs, Works(p), Grounds, ConsequenceInv
  PROVE  LET m == mem[p]
             n == mem'[p]
         IN /\ \A x \in {"backlog:promotion", "backlog:close", "outcome:state"} :
                 m.key[x] = "completed" => n.key[x] = "completed"
            /\ m.key["roadmap:sync"] = "completed" =>
                 n.key["roadmap:sync"] = "completed" /\ n.roadmap = m.roadmap
            /\ \A x \in Discoveries : m.feedback[x] = "completed" => n.feedback[x] = "completed"
            /\ m.final # "none" => n.final = m.final
            /\ pc[p] # "promoteSave" => n.key["backlog:promotion"] = m.key["backlog:promotion"]
            /\ pc[p] # "closeSave" => n.key["backlog:close"] = m.key["backlog:close"]
            /\ pc[p] # "outcomeSave" => n.key["outcome:state"] = m.key["outcome:state"]
            /\ pc[p] \notin {"roadmap", "roadmapUndo", "roadmapSave"} =>
                 n.key["roadmap:sync"] = m.key["roadmap:sync"]
<1> DEFINE m == mem[p]
           n == mem'[p]
<1>1. /\ Edits(pc[p], m, n) /\ ConsequencePlaces(p) /\ CompoundActions(p) /\ Here(p)
  BY ConsequenceGround
<1>2. /\ pc[p] # "promoteSave" => n.key["backlog:promotion"] = m.key["backlog:promotion"]
      /\ pc[p] # "closeSave" => n.key["backlog:close"] = m.key["backlog:close"]
      /\ pc[p] # "outcomeSave" => n.key["outcome:state"] = m.key["outcome:state"]
      /\ pc[p] \notin {"roadmap", "roadmapUndo", "roadmapSave"} =>
           n.key["roadmap:sync"] = m.key["roadmap:sync"]
  BY <1>1, ConsequenceKeys DEF Edits
<1>3. ASSUME m.key["roadmap:sync"] = "completed"
      PROVE  n.key["roadmap:sync"] = "completed" /\ n.roadmap = m.roadmap
  <2>1. pc[p] \notin {"roadmapUndo", "roadmapSave"}
    BY <1>1, <1>3 DEF ConsequencePlaces
  <2>2. pc[p] = "roadmap" => n = m
    BY <1>1, <1>3, Jumped DEF CompoundActions, BeginRoadmap, RoadmapSynced
  <2> QED BY <1>1, <1>2, <1>3, <2>1, <2>2 DEF Edits
<1>4. \A x \in {"backlog:promotion", "backlog:close", "outcome:state"} :
        m.key[x] = "completed" => n.key[x] = "completed"
  BY <1>1, ConsequenceKeys DEF Edits
<1> QED BY <1>1, <1>2, <1>3, <1>4 DEF Edits

\* What is done stays done.
LEMMA DoneKept ==
  ASSUME NEW p \in Procs, Works(p), Grounds, ConsequenceInv, Done(mem[p])
  PROVE  mem[p].final # "none" => Done(mem'[p])
BY CompletedKept DEF Done

\* The promotion is in the backlog when the document says so.
LEMMA PromotionDone ==
  ASSUME NEW p \in Procs, Works(p), Grounds, ConsequenceInv, NEW d \in {mem[p], mem'[p]},
         d.key["backlog:promotion"] = "completed"
  PROVE  backlog'[Cyc(p)].promotions > 0
<1> DEFINE c == Cyc(p)
<1>1. /\ BacklogEdits(pc[p], backlog[c], backlog'[c]) /\ backlog \in [Cycles -> BacklogType]
      /\ c \in Cycles /\ ConsequencePlaces(p)
      /\ Consequences(mem[p], kernel[c], backlog[c], files[c])
  BY ConsequenceGround
<1>2. backlog[c].promotions > 0
  <2>1. CASE mem[p].key["backlog:promotion"] = "completed"
    BY <1>1, <2>1 DEF Consequences
  <2>2. CASE mem[p].key["backlog:promotion"] # "completed"
    <3>1. pc[p] = "promoteSave"
      BY <2>2, CompletedKept
    <3> QED BY <1>1, <3>1 DEF ConsequencePlaces, At, PromotionExists
  <2> QED BY <2>1, <2>2
<1> QED BY <1>1, <1>2 DEF BacklogEdits, BacklogType

\* The experiment is closed when the document says so.
LEMMA CloseDone ==
  ASSUME NEW p \in Procs, Works(p), Grounds, ConsequenceInv, NEW d \in {mem[p], mem'[p]},
         d.key["backlog:close"] = "completed"
  PROVE  backlog'[Cyc(p)].closed
<1> DEFINE c == Cyc(p)
<1>1. /\ BacklogEdits(pc[p], backlog[c], backlog'[c]) /\ ConsequencePlaces(p)
      /\ Consequences(mem[p], kernel[c], backlog[c], files[c])
  BY ConsequenceGround
<1>2. backlog[c].closed
  <2>1. CASE mem[p].key["backlog:close"] = "completed"
    BY <1>1, <2>1 DEF Consequences
  <2>2. CASE mem[p].key["backlog:close"] # "completed"
    <3>1. pc[p] = "closeSave"
      BY <2>2, CompletedKept
    <3> QED BY <1>1, <3>1 DEF ConsequencePlaces, At
  <2> QED BY <2>1, <2>2
<1> QED BY <1>1, <1>2 DEF BacklogEdits

\* The outcome is the verdict when the document says so.
LEMMA OutcomeDone ==
  ASSUME NEW p \in Procs, Works(p), Grounds, ConsequenceInv, NEW d \in {mem[p], mem'[p]},
         d.key["outcome:state"] = "completed"
  PROVE  d.final # "none" /\ kernel'[Cyc(p)].outcome = d.final
<1> DEFINE c == Cyc(p)
           m == mem[p]
<1>1. /\ KernelEdits(pc[p], kernel[c], kernel'[c]) /\ ConsequencePlaces(p) /\ EvidencePlaces(p)
      /\ Consequences(m, kernel[c], backlog[c], files[c]) /\ CompoundActions(p)
      /\ Evidence(m, backlog[c], files[c], calls[c])
  BY ConsequenceGround
<1>2. m.final # "none" /\ kernel[c].outcome = m.final /\ kernel'[c].outcome = kernel[c].outcome
  <2>1. CASE m.key["outcome:state"] = "completed"
    <3>1. pc[p] = "outcome" => kernel' = kernel
      BY <1>1, <2>1 DEF CompoundActions, RecordOutcome
    <3> QED BY <1>1, <2>1, <3>1 DEF Consequences, KernelEdits
  <2>2. CASE m.key["outcome:state"] # "completed"
    <3>1. pc[p] = "outcomeSave"
      BY <2>2, CompletedKept
    <3>2. m.stage = "compounding"
      BY <1>1, <3>1 DEF EvidencePlaces, Consequent
    <3> QED BY <1>1, <3>1, <3>2 DEF ConsequencePlaces, At, KernelEdits, Evidence
  <2> QED BY <2>1, <2>2
<1> QED BY <1>2, CompletedKept

\* The discoveries to report next: the started one, or else all open ones.
LEMMA FeedbackNext ==
  ASSUME NEW m \in CycleDoc
  PROVE  /\ \A x \in NextFeedback(m) : x \in Discoveries /\ m.feedback[x] # "completed"
         /\ (\E x \in Discoveries : m.feedback[x] = "started") =>
              NextFeedback(m) = {x \in Discoveries : m.feedback[x] = "started"}
         /\ (\A x \in Discoveries : m.feedback[x] # "started") =>
              NextFeedback(m) = {x \in Discoveries : m.feedback[x] # "completed"}
<1> DEFINE open == {x \in Discoveries : m.feedback[x] # "completed"}
           started == {x \in open : m.feedback[x] = "started"}
<1>1. NextFeedback(m) = IF started # {} THEN started ELSE open
  BY DEF NextFeedback
<1>2. started = {x \in Discoveries : m.feedback[x] = "started"}
  OBVIOUS
<1> QED BY <1>1, <1>2

\* What the feedback of the copy becomes.
LEMMA FeedbackStep ==
  ASSUME NEW p \in Procs, Works(p), Grounds, ConsequenceInv
  PROVE  LET m == mem[p]
             n == mem'[p]
         IN \/ n.feedback = m.feedback
            \/ /\ pc[p] = "feedback" /\ \A x \in Discoveries : m.feedback[x] # "started"
               /\ \E x \in Discoveries : n.feedback = [m.feedback EXCEPT ![x] = "started"]
            \/ /\ pc[p] = "feedbackSave"
               /\ \E x \in Discoveries : /\ m.feedback[x] = "started"
                                         /\ n.feedback = [m.feedback EXCEPT ![x] = "completed"]
<1> DEFINE m == mem[p]
           n == mem'[p]
<1>1. /\ Here(p) /\ m \in CycleDoc /\ Edits(pc[p], m, n) /\ CompoundActions(p)
      /\ ConsequencePlaces(p)
  BY ConsequenceGround
<1>2. CASE pc[p] = "feedback"
  <2>1. \/ n = m
        \/ \E x \in NextFeedback(m) :
             m.feedback[x] # "started" /\ n = [m EXCEPT !.feedback[x] = "started"]
    BY <1>1, <1>2, Jumped, Persisted, ZenonT(40) DEF CompoundActions, BeginFeedback
  <2>2. CASE n = m
    BY <2>2
  <2>3. ASSUME NEW x \in NextFeedback(m), m.feedback[x] # "started",
               n = [m EXCEPT !.feedback[x] = "started"]
        PROVE  /\ \A y \in Discoveries : m.feedback[y] # "started"
               /\ x \in Discoveries /\ n.feedback = [m.feedback EXCEPT ![x] = "started"]
    <3>1. n.feedback = [m.feedback EXCEPT ![x] = "started"]
      BY <1>1, <2>3 DEF CycleDoc
    <3> QED BY <1>1, <2>3, <3>1, FeedbackNext
  <2> QED BY <1>2, <2>1, <2>2, <2>3
<1>3. CASE pc[p] = "feedbackSave"
  <2>1. \E y \in Discoveries : m.feedback[y] = "started"
    BY <1>1, <1>3 DEF ConsequencePlaces
  <2>2. PICK x \in NextFeedback(m) : n = [m EXCEPT !.feedback[x] = "completed"]
    <3>1. SaveFeedback(p)
      BY <1>1, <1>3 DEF CompoundActions
    <3>2. PICK x \in NextFeedback(m) :
            Persist(p, [m EXCEPT !.feedback[x] = "completed"], "feedback", "release")
      BY <3>1 DEF SaveFeedback
    <3>3. n = [m EXCEPT !.feedback[x] = "completed"]
      BY <1>1, <3>2, Persisted
    <3> QED BY <3>3
  <2>3. x \in Discoveries /\ m.feedback[x] = "started"
    BY <1>1, <2>1, FeedbackNext
  <2>4. n.feedback = [m.feedback EXCEPT ![x] = "completed"]
    BY <1>1, <2>2 DEF CycleDoc
  <2> QED BY <1>3, <2>3, <2>4
<1> QED BY <1>1, <1>2, <1>3 DEF Edits

\* What was reported is with Intercore, and at most one discovery is started.
LEMMA FeedbackDone ==
  ASSUME NEW p \in Procs, Works(p), Grounds, ConsequenceInv, NEW d \in {mem[p], mem'[p]}
  PROVE  /\ \A x \in Discoveries : d.feedback[x] = "completed" => x \in kernel'[Cyc(p)].feedback
         /\ \A x, y \in Discoveries :
              d.feedback[x] = "started" /\ d.feedback[y] = "started" => x = y
<1> DEFINE c == Cyc(p)
           m == mem[p]
           n == mem'[p]
           Reported == \A x \in Discoveries : d.feedback[x] = "completed" => x \in kernel'[c].feedback
           Single == \A x, y \in Discoveries :
             d.feedback[x] = "started" /\ d.feedback[y] = "started" => x = y
<1>1. /\ m \in CycleDoc /\ KernelEdits(pc[p], kernel[c], kernel'[c]) /\ ConsequencePlaces(p)
      /\ Consequences(m, kernel[c], backlog[c], files[c])
  BY ConsequenceGround
<1>2. /\ \A x \in Discoveries : m.feedback[x] = "completed" => x \in kernel[c].feedback
      /\ \A x, y \in Discoveries :
           m.feedback[x] = "started" /\ m.feedback[y] = "started" => x = y
      /\ kernel[c].feedback \subseteq kernel'[c].feedback
      /\ m.feedback \in [Discoveries -> Marks]
  BY <1>1 DEF Consequences, KernelEdits, CycleDoc
<1>3. ASSUME d.feedback = m.feedback PROVE Reported /\ Single
  BY <1>2, <1>3
<1>4. ASSUME \A x \in Discoveries : m.feedback[x] # "started",
             NEW x \in Discoveries, d.feedback = [m.feedback EXCEPT ![x] = "started"]
      PROVE  Reported /\ Single
  <2>1. \A y \in Discoveries : d.feedback[y] = IF y = x THEN "started" ELSE m.feedback[y]
    BY <1>2, <1>4
  <2> QED BY <1>2, <1>4, <2>1
<1>5. ASSUME pc[p] = "feedbackSave", NEW x \in Discoveries, m.feedback[x] = "started",
             d.feedback = [m.feedback EXCEPT ![x] = "completed"]
      PROVE  Reported /\ Single
  <2>1. \A y \in Discoveries : d.feedback[y] = IF y = x THEN "completed" ELSE m.feedback[y]
    BY <1>2, <1>5
  <2>2. x \in kernel[c].feedback
    BY <1>1, <1>5 DEF ConsequencePlaces, At
  <2> QED BY <1>2, <2>1, <2>2
<1>6. Reported /\ Single
  <2> HIDE DEF Reported, Single
  <2>1. CASE n.feedback = m.feedback \/ d = m
    BY <1>3, <2>1
  <2>2. CASE /\ d = n /\ \A x \in Discoveries : m.feedback[x] # "started"
             /\ \E x \in Discoveries : n.feedback = [m.feedback EXCEPT ![x] = "started"]
    BY <1>4, <2>2
  <2>3. CASE /\ d = n /\ pc[p] = "feedbackSave"
             /\ \E x \in Discoveries : /\ m.feedback[x] = "started"
                                       /\ n.feedback = [m.feedback EXCEPT ![x] = "completed"]
    BY <1>5, <2>3
  <2> QED BY <2>1, <2>2, <2>3, FeedbackStep
<1> QED BY <1>6

\* The roadmap that was synchronised shows the closed experiment.
LEMMA RoadmapDone ==
  ASSUME NEW p \in Procs, Works(p), Grounds, ConsequenceInv, NEW d \in {mem[p], mem'[p]},
         d.key["roadmap:sync"] = "completed"
  PROVE  d.roadmap = "closed" /\ files'[Cyc(p)].roadmap = "closed"
<1> DEFINE c == Cyc(p)
           m == mem[p]
           n == mem'[p]
<1>1. /\ Here(p) /\ m \in CycleDoc /\ FilesEdits(pc[p], files[c], files'[c])
      /\ ConsequencePlaces(p) /\ CompoundActions(p)
      /\ Consequences(m, kernel[c], backlog[c], files[c])
  BY ConsequenceGround
<1>2. CASE m.key["roadmap:sync"] = "completed"
  <2>1. m.roadmap = "closed" /\ files[c].roadmap = "closed"
    BY <1>1, <1>2 DEF Consequences
  <2>2. pc[p] # "roadmapWrite"
    BY <1>1, <1>2 DEF ConsequencePlaces
  <2> QED BY <1>1, <1>2, <2>1, <2>2, CompletedKept DEF FilesEdits
<1>3. CASE m.key["roadmap:sync"] # "completed"
  <2>1. d = n /\ pc[p] \in {"roadmap", "roadmapUndo", "roadmapSave"}
    BY <1>3, CompletedKept
  <2>2. pc[p] = "roadmapSave"
    <3>1. pc[p] = "roadmap" => n = SetKey(m, "roadmap:sync", "started")
      BY <1>1, <1>3, Persisted DEF CompoundActions, BeginRoadmap, RoadmapSynced
    <3>2. pc[p] = "roadmapUndo" => n = SetKey(m, "roadmap:sync", "none")
      BY <1>1, Persisted DEF CompoundActions, UndoRoadmap
    <3> QED BY <1>1, <2>1, <3>1, <3>2, ConsequenceKeys, KeySet
  <2> DEFINE recorded == [m EXCEPT !.roadmap = files[c].roadmap]
  <2>3. n = SetKey(recorded, "roadmap:sync", "completed") /\ files' = files
    BY <1>1, <2>2, Persisted DEF CompoundActions, SaveRoadmap, world
  <2>4. files[c].roadmap = "closed"
    BY <1>1, <2>2 DEF ConsequencePlaces, At
  <2>5. recorded \in CycleDoc /\ recorded.roadmap = "closed"
    BY <1>1, <2>4 DEF CycleDoc, RoadmapView
  <2> HIDE DEF recorded
  <2> QED BY <2>1, <2>3, <2>4, <2>5, ConsequenceKeys, KeySet
<1> QED BY <1>2, <1>3

\* The stage of the copy after a step, at the end of a cycle.
LEMMA EndingStages ==
  ASSUME NEW p \in Procs, Works(p), Grounds, ConsequenceInv
  PROVE  LET s == mem[p].stage
             t == mem'[p].stage
         IN /\ s \in {"compounding", "completed", "failed"} =>
                 t \in {"compounding", "completed", "failed"}
            /\ s = "declined" => t \in {"declined", "completed"}
            /\ t = "compounding" => s \in {"reviewing", "compounding"}
            /\ t = "completed" => s \in {"no_op", "declined", "compounding", "completed"}
            /\ t = "completed" /\ s = "compounding" => pc[p] = "complete"
<1> DEFINE s == mem[p].stage
           t == mem'[p].stage
<1>1. CASE t = s
  BY <1>1
<1>2. CASE t # s
  <2>1. <<pc[p], t>> \in StageWriters /\ ValidateTransition(s, t)
    BY <1>2, StageStep
  <2>2. /\ s \in {"compounding", "completed", "failed"} => t \in {"completed", "failed"}
        /\ s = "declined" => t = "completed"
        /\ t = "compounding" => s = "reviewing"
        /\ t = "completed" => s \in {"no_op", "declined", "compounding"}
    BY <2>1 DEF ValidateTransition, ForwardEdges, ActiveStages
  <2>3. t = "completed" => pc[p] \in {"noopComplete", "declineDone", "compound", "complete"}
    BY <2>1 DEF StageWriters
  <2>4. pc[p] = "noopComplete" => s = "no_op"
    BY ConsequenceGround DEF ConsequencePlaces, Toward, Heading, Shared
  <2>5. pc[p] = "declineDone" => s = "declined"
    BY FootingGround DEF Grounds, AuthorityPlaces, Toward, Heading, Shared
  <2>6. pc[p] = "compound" => s = "no_op"
    BY <1>2, ConsequenceGround, Jumped DEF CompoundActions, BeginCompound
  <2> QED BY <2>2, <2>3, <2>4, <2>5, <2>6
<1> QED BY <1>1, <1>2

\* Only a cycle at its end claims a receipt, and only once its run has ended.
LEMMA ReceiptLast ==
  ASSUME NEW p \in Procs, Works(p), Grounds, ConsequenceInv, NEW d \in {mem[p], mem'[p]},
         d.key["receipt:attempt"] # "none"
  PROVE  /\ d.stage \in {"compounding", "completed", "failed"}
         /\ kernel'[Cyc(p)].phase = "compound"
<1> DEFINE c == Cyc(p)
           m == mem[p]
<1>1. /\ Edits(pc[p], m, mem'[p]) /\ PhasePlaces(p)
      /\ Consequences(m, kernel[c], backlog[c], files[c])
  BY ConsequenceGround, PhaseGround
<1>2. m.stage \in {"compounding", "completed", "failed"} /\ kernel[c].phase = "compound"
  <2>1. CASE m.key["receipt:attempt"] # "none"
    BY <1>1, <2>1 DEF Consequences
  <2>2. CASE m.key["receipt:attempt"] = "none"
    <3>1. mem'[p].key["receipt:attempt"] # m.key["receipt:attempt"]
      BY <2>2
    <3>2. \A k \in Keys : mem'[p].key[k] # m.key[k] => <<pc[p], k>> \in KeyWriters
      BY ONLY <1>1 DEF Edits
    <3>3. pc[p] \in {"receiptSave", "acceptSave"}
      BY ONLY <3>1, <3>2, ReceiptKey
    <3> QED BY <1>1, <3>3 DEF PhasePlaces, Toward, Heading, Shared, Signing
  <2> QED BY <2>1, <2>2
<1>3. kernel'[c].phase = "compound"
  <2>1. "compound" \in Phases /\ Since["compound"] = {"compound"}
    BY DEF Phases, Since
  <2> QED BY <1>2, <2>1, PhaseReached
<1> QED BY <1>2, <1>3, EndingStages

\* A cycle is completed, and its receipt claimed, after its consequences.
LEMMA DoneFirst ==
  ASSUME NEW p \in Procs, Works(p), Grounds, ConsequenceInv, NEW d \in {mem[p], mem'[p]}
  PROVE  /\ d.final # "none" /\ d.stage = "completed" => Done(d)
         /\ d.stage = "compounding" /\ d.key["receipt:attempt"] # "none" => Done(d)
<1> DEFINE c == Cyc(p)
           m == mem[p]
           n == mem'[p]
<1>1. /\ Edits(pc[p], m, n) /\ ConsequencePlaces(p)
      /\ Consequences(m, kernel[c], backlog[c], files[c])
      /\ Evidence(m, backlog[c], files[c], calls[c]) /\ m.stage = doc[c].stage
      /\ OpPlaces(p) /\ Chosen(job[p].op, doc[c])
  BY ConsequenceGround, PhaseGround
<1>2. /\ m.final # "none" /\ m.stage = "completed" => Done(m)
      /\ m.stage = "compounding" /\ m.key["receipt:attempt"] # "none" => Done(m)
  BY <1>1 DEF Consequences
<1>3. pc[p] \in Signing /\ m.stage = "compounding" => Done(m)
  BY <1>1 DEF ConsequencePlaces, Toward, Heading, Shared, Signing
<1>4. m.stage = "compounding" => m.final # "none"
  BY <1>1 DEF Evidence
<1>5. ASSUME n.final # "none", n.stage = "completed" PROVE Done(n)
  <2>1. CASE m.stage = "completed"
    <3>1. m.final # "none"
      <4>1. CASE pc[p] = "resolve"
        <5>1. job[p].op = "review"
          BY <1>1, <4>1 DEF OpPlaces, Toward, Heading, Shared
        <5>2. doc[c].final # "none"
          BY <1>1, <2>1, <5>1 DEF Chosen
        <5> QED BY <5>2, FootingGround DEF Grounds, Agree
      <4> QED BY <1>1, <1>5, <4>1 DEF Edits
    <3> QED BY <1>2, <2>1, <3>1, DoneKept
  <2>2. CASE m.stage = "compounding"
    <3>1. pc[p] = "complete"
      BY <1>5, <2>2, EndingStages
    <3> QED BY <1>3, <1>4, <2>2, <3>1, DoneKept DEF Signing
  <2>3. CASE m.stage \notin {"compounding", "completed"}
    <3>1. m.stage \in {"no_op", "declined"} /\ <<pc[p], "completed">> \in StageWriters
      BY <1>5, <2>3, EndingStages, StageStep
    <3>2. pc[p] # "resolve"
      BY <3>1 DEF StageWriters
    <3>3. m.final # "none"
      BY <1>1, <1>5, <3>2 DEF Edits
    <3> QED BY <1>1, <3>1, <3>3 DEF Evidence
  <2> QED BY <2>1, <2>2, <2>3
<1>6. ASSUME n.stage = "compounding", n.key["receipt:attempt"] # "none" PROVE Done(n)
  <2>1. CASE m.key["receipt:attempt"] # "none"
    <3>1. m.stage = "compounding"
      <4>1. m.stage \in {"compounding", "completed", "failed"}
        BY <1>1, <2>1 DEF Consequences
      <4> QED BY <1>6, <4>1, EndingStages
    <3> QED BY <1>2, <1>4, <2>1, <3>1, DoneKept
  <2>2. CASE m.key["receipt:attempt"] = "none"
    <3>1. pc[p] \in {"receiptSave", "acceptSave"}
      BY <1>1, <1>6, <2>2, ReceiptKey DEF Edits
    <3>2. m.stage = "compounding"
      BY <1>6, <3>1, StageStep DEF StageWriters
    <3> QED BY <1>3, <1>4, <3>1, <3>2, DoneKept DEF Signing
  <2> QED BY <2>1, <2>2
<1> QED BY <1>2, <1>5, <1>6

\* An experiment is closed by a verdict or by a decline that stands.
LEMMA ClosedDocs ==
  ASSUME NEW p \in Procs, Works(p), Grounds, ConsequenceInv, NEW d \in {mem[p], mem'[p]},
         backlog'[Cyc(p)].closed
  PROVE  \/ d.final # "none"
         \/ d.declined /\ d.stage \in {"declined", "completed"}
<1> DEFINE c == Cyc(p)
           m == mem[p]
<1>1. /\ BacklogEdits(pc[p], backlog[c], backlog'[c]) /\ EvidencePlaces(p)
      /\ Consequences(m, kernel[c], backlog[c], files[c])
      /\ Evidence(m, backlog[c], files[c], calls[c])
      /\ AuthorityPlaces(p) /\ Authority(m, backlog[c], files[c])
  BY ConsequenceGround, FootingGround DEF Grounds
<1>2. \/ m.final # "none"
      \/ m.declined /\ m.stage \in {"declined", "completed"}
  <2>1. CASE backlog[c].closed
    BY <1>1, <2>1 DEF Consequences
  <2>2. CASE ~backlog[c].closed
    <3>1. pc[p] \in {"declineClose", "close"}
      BY <1>1, <2>2 DEF BacklogEdits
    <3>2. CASE pc[p] = "close"
      BY <1>1, <3>2 DEF EvidencePlaces, Consequent, Evidence
    <3>3. CASE pc[p] = "declineClose"
      BY <1>1, <3>3 DEF AuthorityPlaces, Toward, Heading, Shared, Authority
    <3> QED BY <3>1, <3>2, <3>3
  <2> QED BY <2>1, <2>2
<1>3. m.declined => mem'[p].declined
  BY DecisionsLast DEF Grounds
<1>4. m.stage = "completed" => mem'[p].stage = "completed"
  BY StageStep DEF ValidateTransition, ForwardEdges, ActiveStages
<1> QED BY <1>2, <1>3, <1>4, CompletedKept, EndingStages

\* The consequences after a step, for the document and for the copy.
LEMMA ConsequenceDocs ==
  ASSUME NEW p \in Procs, Works(p), Grounds, ConsequenceInv, NEW d \in {doc[Cyc(p)], mem'[p]}
  PROVE  Consequences(d, kernel'[Cyc(p)], backlog'[Cyc(p)], files'[Cyc(p)])
<1> DEFINE c == Cyc(p)
           m == mem[p]
           K == kernel'[c]
           B == backlog'[c]
           F == files'[c]
<1>1. ASSUME NEW e \in {m, mem'[p]} PROVE Consequences(e, K, B, F)
  <2>1. /\ e.key["backlog:promotion"] = "completed" => B.promotions > 0
        /\ e.key["backlog:close"] = "completed" => B.closed
        /\ e.key["outcome:state"] = "completed" => e.final # "none" /\ K.outcome = e.final
    BY PromotionDone, CloseDone, OutcomeDone
  <2>2. /\ \A x \in Discoveries : e.feedback[x] = "completed" => x \in K.feedback
        /\ \A x, y \in Discoveries :
             e.feedback[x] = "started" /\ e.feedback[y] = "started" => x = y
    BY FeedbackDone
  <2>3. e.key["roadmap:sync"] = "completed" => e.roadmap = "closed" /\ F.roadmap = "closed"
    BY RoadmapDone
  <2>4. e.key["receipt:attempt"] # "none" =>
          e.stage \in {"compounding", "completed", "failed"} /\ K.phase = "compound"
    BY ReceiptLast
  <2>5. /\ e.final # "none" /\ e.stage = "completed" => Done(e)
        /\ e.stage = "compounding" /\ e.key["receipt:attempt"] # "none" => Done(e)
    BY DoneFirst
  <2>6. B.closed => e.final # "none" \/ (e.declined /\ e.stage \in {"declined", "completed"})
    BY ClosedDocs
  <2> QED BY <2>1, <2>2, <2>3, <2>4, <2>5, <2>6 DEF Consequences
<1>2. CASE d = mem'[p]
  BY <1>1, <1>2
<1>3. CASE d = doc[c]
  <2>1. Consequences(m, K, B, F)
    BY <1>1
  <2>2. /\ d.stage = m.stage /\ d.final = m.final /\ d.declined = m.declined
        /\ d.roadmap = m.roadmap /\ d.feedback = m.feedback
        /\ \A x \in {"backlog:promotion", "backlog:close", "outcome:state", "roadmap:sync",
                     "receipt:attempt"} : d.key[x] = m.key[x]
    BY <1>3, FootingGround, ConsequenceKeys DEF Grounds, Agree
  <2> QED BY <2>1, <2>2 DEF Consequences, Done
<1> QED BY <1>2, <1>3

\* Promotion and closure: what was found or made is still there when the
\* document records it.
LEMMA BacklogPlaces ==
  ASSUME NEW p \in Procs, Works(p), Grounds, ConsequenceInv
  PROVE  LET n == mem'[p]
             b == backlog'[Cyc(p)]
         IN /\ pc'[p] \in Consequent \ {"promote", "promoteCreate", "promoteSave"} =>
                 (n.final = "promote" => n.key["backlog:promotion"] = "completed")
            /\ pc'[p] = "promoteSave" => b.promotions > 0
            /\ pc'[p] = "closeSave" => b.closed
            /\ pc'[p] = "declineSave" => b.closed
<1> DEFINE c == Cyc(p)
           m == mem[p]
           n == mem'[p]
<1>1. /\ Here(p) /\ m \in CycleDoc /\ c \in Cycles /\ backlog \in [Cycles -> BacklogType]
      /\ Edits(pc[p], m, n) /\ ConsequencePlaces(p) /\ CompoundActions(p) /\ DecisionActions(p)
  BY ConsequenceGround DEF Works
<1>2. ASSUME pc'[p] \in Consequent \ {"promote", "promoteCreate", "promoteSave"},
             n.final = "promote"
      PROVE  n.key["backlog:promotion"] = "completed"
  <2>1. <<pc[p], pc'[p]>> \in Edges
    BY <1>2, Came DEF Consequent, Shared, Conts
  <2>2. pc[p] \in Consequent \ {"promoteCreate"}
    BY <1>2, <2>1 DEF Consequent, Edges, ObservationEdges, ProposalEdges, DecisionEdges,
       ExecutionEdges, ReviewEdges, CompoundEdges
  <2>3. m.final = "promote"
    BY <1>1, <1>2, <2>2 DEF Edits, Consequent
  <2>4. CASE pc[p] = "promote"
    <3>1. FindPromotion(p) /\ pc'[p] = "close"
      BY <1>1, <1>2, <2>1, <2>4 DEF CompoundActions, Edges, ObservationEdges, ProposalEdges,
         DecisionEdges, ExecutionEdges, ReviewEdges, CompoundEdges
    <3>2. ~NeedsPromotion(m) /\ n = m
      BY <1>1, <3>1, Jumped, Went DEF FindPromotion
    <3> QED BY <2>3, <3>2 DEF NeedsPromotion
  <2>5. CASE pc[p] = "promoteSave"
    <3> DEFINE promoted == [m EXCEPT !.promotion = TRUE]
    <3>1. n = SetKey(promoted, "backlog:promotion", "completed")
      BY <1>1, <2>5, Persisted DEF CompoundActions, SavePromotion, Promoted
    <3>2. promoted \in CycleDoc
      BY <1>1 DEF CycleDoc
    <3> HIDE DEF promoted
    <3> QED BY <3>1, <3>2, ConsequenceKeys, KeySet
  <2>6. CASE pc[p] \notin {"promote", "promoteSave"}
    BY <1>1, <2>2, <2>3, <2>6, CompletedKept DEF ConsequencePlaces
  <2> QED BY <2>4, <2>5, <2>6
<1>3. ASSUME pc'[p] = "promoteSave" PROVE backlog'[c].promotions > 0
  <2>1. CASE pc[p] = "promote"
    <3>1. PromotionExists(c) /\ backlog' = backlog
      BY <1>1, <1>3, <2>1, Jumped, Went DEF CompoundActions, FindPromotion, world
    <3> QED BY <3>1 DEF PromotionExists
  <2>2. CASE pc[p] = "promoteCreate"
    <3>1. backlog' = [backlog EXCEPT ![c].promotions = @ + 1]
      BY <1>1, <1>3, <2>2, Went DEF CompoundActions, CreatePromotion
    <3> QED BY <1>1, <3>1 DEF BacklogType
  <2> QED BY <1>3, <2>1, <2>2, Sources
<1>4. ASSUME pc'[p] = "closeSave" PROVE backlog'[c].closed
  <2>1. pc[p] = "close"
    BY <1>4, Sources
  <2>2. backlog' = [backlog EXCEPT ![c].closed = TRUE]
    BY <1>1, <1>4, <2>1, Went DEF CompoundActions, CloseExperiment
  <2> QED BY <1>1, <2>2 DEF BacklogType
<1>5. ASSUME pc'[p] = "declineSave" PROVE backlog'[c].closed
  <2>1. pc[p] = "declineClose"
    BY <1>5, Sources
  <2>2. \/ backlog' = [backlog EXCEPT ![c].closed = TRUE]
        \/ backlog' = backlog /\ backlog[c].closed
    BY <1>1, <1>5, <2>1, Went DEF DecisionActions, CloseDeclined
  <2> QED BY <1>1, <2>2 DEF BacklogType
<1> QED BY <1>2, <1>3, <1>4, <1>5

\* After the backlog comes the outcome, and after the outcome the feedback.
LEMMA OrderPlaces ==
  ASSUME NEW p \in Procs, Works(p), Grounds, ConsequenceInv
  PROVE  LET n == mem'[p]
         IN /\ pc'[p] \in {"outcome", "outcomeSave", "feedback", "feedbackSend", "feedbackSave",
                           "roadmap", "roadmapSync", "roadmapUndo", "roadmapWrite",
                           "roadmapSave", "roadmapCheck"} => n.key["backlog:close"] = "completed"
            /\ pc'[p] = "outcomeSave" => kernel'[Cyc(p)].outcome = n.final
            /\ pc'[p] \in {"feedback", "feedbackSend", "feedbackSave", "roadmap", "roadmapSync",
                           "roadmapUndo", "roadmapWrite", "roadmapSave", "roadmapCheck"} =>
                 n.key["outcome:state"] = "completed"
<1> DEFINE c == Cyc(p)
           m == mem[p]
           n == mem'[p]
<1>1. /\ Here(p) /\ m \in CycleDoc /\ c \in Cycles /\ kernel \in [Cycles -> KernelType]
      /\ ConsequencePlaces(p) /\ CompoundActions(p)
  BY ConsequenceGround
<1>2. ASSUME pc'[p] \in {"outcome", "outcomeSave", "feedback", "feedbackSend", "feedbackSave",
                         "roadmap", "roadmapSync", "roadmapUndo", "roadmapWrite", "roadmapSave",
                         "roadmapCheck"}
      PROVE  n.key["backlog:close"] = "completed"
  <2>1. pc[p] \in {"close", "closeSave", "outcome", "outcomeSave", "feedback", "feedbackSend",
                   "feedbackSave", "roadmap", "roadmapSync", "roadmapWrite", "roadmapSave"}
    BY <1>2, Sources
  <2>2. CASE pc[p] = "close"
    <3>1. m.key["backlog:close"] = "completed"
      BY <1>1, <1>2, <2>2, Went DEF CompoundActions, CloseExperiment
    <3> QED BY <3>1, CompletedKept
  <2>3. CASE pc[p] = "closeSave"
    <3>1. n = SetKey(m, "backlog:close", "completed")
      BY <1>1, <2>3, Persisted DEF CompoundActions, SaveClosed
    <3> QED BY <1>1, <3>1, ConsequenceKeys, KeySet
  <2>4. CASE pc[p] \notin {"close", "closeSave"}
    BY <1>1, <2>1, <2>4, CompletedKept DEF ConsequencePlaces
  <2> QED BY <2>2, <2>3, <2>4
<1>3. ASSUME pc'[p] = "outcomeSave" PROVE kernel'[c].outcome = n.final
  <2>1. pc[p] = "outcome"
    BY <1>3, Sources
  <2>2. kernel' = [kernel EXCEPT ![c].outcome = m.final] /\ mem' = mem
    BY <1>1, <1>3, <2>1, Went DEF CompoundActions, RecordOutcome
  <2> QED BY <1>1, <2>2 DEF KernelType
<1>4. ASSUME pc'[p] \in {"feedback", "feedbackSend", "feedbackSave", "roadmap", "roadmapSync",
                         "roadmapUndo", "roadmapWrite", "roadmapSave", "roadmapCheck"}
      PROVE  n.key["outcome:state"] = "completed"
  <2>1. pc[p] \in {"outcome", "outcomeSave", "feedback", "feedbackSend", "feedbackSave",
                   "roadmap", "roadmapSync", "roadmapWrite", "roadmapSave"}
    BY <1>4, Sources
  <2>2. CASE pc[p] = "outcome"
    <3>1. m.key["outcome:state"] = "completed"
      BY <1>1, <1>4, <2>2, Went DEF CompoundActions, RecordOutcome
    <3> QED BY <3>1, CompletedKept
  <2>3. CASE pc[p] = "outcomeSave"
    <3>1. n = SetKey(m, "outcome:state", "completed")
      BY <1>1, <2>3, Persisted DEF CompoundActions, SaveOutcome
    <3> QED BY <1>1, <3>1, ConsequenceKeys, KeySet
  <2>4. CASE pc[p] \notin {"outcome", "outcomeSave"}
    BY <1>1, <2>1, <2>4, CompletedKept DEF ConsequencePlaces
  <2> QED BY <2>2, <2>3, <2>4
<1> QED BY <1>2, <1>3, <1>4

\* While a discovery is reported it is the one that is started; the roadmap
\* waits for all of them.
LEMMA FeedbackPlaces ==
  ASSUME NEW p \in Procs, Works(p), Grounds, ConsequenceInv
  PROVE  LET n == mem'[p]
         IN /\ pc'[p] \in {"feedbackSend", "feedbackSave"} =>
                 \E x \in Discoveries : n.feedback[x] = "started"
            /\ pc'[p] = "feedbackSave" =>
                 \A x \in Discoveries :
                   n.feedback[x] = "started" => x \in kernel'[Cyc(p)].feedback
            /\ pc'[p] \in {"roadmap", "roadmapSync", "roadmapUndo", "roadmapWrite",
                           "roadmapSave", "roadmapCheck"} =>
                 \A x \in Discoveries : n.feedback[x] = "completed"
<1> DEFINE c == Cyc(p)
           m == mem[p]
           n == mem'[p]
<1>1. /\ Here(p) /\ m \in CycleDoc /\ c \in Cycles /\ kernel \in [Cycles -> KernelType]
      /\ ConsequencePlaces(p) /\ CompoundActions(p)
      /\ Consequences(m, kernel[c], backlog[c], files[c])
  BY ConsequenceGround
<1>2. ASSUME pc'[p] = "feedbackSend" PROVE \E x \in Discoveries : n.feedback[x] = "started"
  <2>1. pc[p] = "feedback" /\ BeginFeedback(p)
    BY <1>1, <1>2, Sources DEF CompoundActions
  <2>2. PICK x \in NextFeedback(m) :
          IF m.feedback[x] = "started"
          THEN Jump(p, "feedbackSend")
          ELSE Persist(p, [m EXCEPT !.feedback[x] = "started"], "feedbackSend", "release")
    BY <1>1, <1>2, <2>1, Jumped DEF BeginFeedback
  <2>3. x \in Discoveries
    BY <1>1, FeedbackNext
  <2>4. (n = m /\ m.feedback[x] = "started") \/ n = [m EXCEPT !.feedback[x] = "started"]
    BY <1>1, <2>2, Jumped, Persisted
  <2>5. n.feedback[x] = "started"
    BY <1>1, <2>3, <2>4 DEF CycleDoc
  <2> QED BY <2>3, <2>5
<1>3. ASSUME pc'[p] = "feedbackSave"
      PROVE  /\ \E x \in Discoveries : n.feedback[x] = "started"
             /\ \A x \in Discoveries : n.feedback[x] = "started" => x \in kernel'[c].feedback
  <2>1. pc[p] = "feedbackSend" /\ SendFeedback(p) /\ n = m
    BY <1>1, <1>3, Sources DEF CompoundActions, SendFeedback
  <2>2. PICK x \in NextFeedback(m) : kernel' = [kernel EXCEPT ![c].feedback = @ \cup {x}]
    BY <1>1, <1>3, <2>1, Went DEF SendFeedback
  <2>3. \E y \in Discoveries : m.feedback[y] = "started"
    BY <1>1, <2>1 DEF ConsequencePlaces
  <2>4. x \in Discoveries /\ m.feedback[x] = "started"
    BY <1>1, <2>3, FeedbackNext
  <2>5. \A y \in Discoveries : m.feedback[y] = "started" => y = x
    BY <1>1, <2>4 DEF Consequences
  <2>6. x \in kernel'[c].feedback
    BY <1>1, <2>2 DEF KernelType
  <2> QED BY <2>1, <2>4, <2>5, <2>6
<1>4. ASSUME pc'[p] = "roadmap" PROVE \A x \in Discoveries : n.feedback[x] = "completed"
  <2>1. pc[p] = "feedback" /\ BeginFeedback(p)
    BY <1>1, <1>4, Sources DEF CompoundActions
  <2>a. ASSUME NEW x \in NextFeedback(m),
               IF m.feedback[x] = "started"
               THEN Jump(p, "feedbackSend")
               ELSE Persist(p, [m EXCEPT !.feedback[x] = "started"], "feedbackSend", "release")
        PROVE  FALSE
    <3>1. pc'[p] \in {"feedbackSend", "release"}
      BY <1>1, <2>a, Jumped, Persisted
    <3> QED BY <1>4, <3>1
  <2>b. NextFeedback(m) = {} /\ Jump(p, "roadmap")
    BY <2>1, <2>a DEF BeginFeedback
  <2>2. NextFeedback(m) = {} /\ n = m
    BY <1>1, <2>b, Jumped
  <2>3. \A x \in Discoveries : m.feedback[x] # "started"
    BY <1>1, <2>2, FeedbackNext
  <2>4. {x \in Discoveries : m.feedback[x] # "completed"} = {}
    BY <1>1, <2>2, <2>3, FeedbackNext
  <2> QED BY <2>2, <2>4
<1>5. ASSUME pc'[p] \in {"roadmapSync", "roadmapUndo", "roadmapWrite", "roadmapSave",
                         "roadmapCheck"}
      PROVE  \A x \in Discoveries : n.feedback[x] = "completed"
  <2>1. pc[p] \in {"roadmap", "roadmapSync", "roadmapWrite", "roadmapSave"}
    BY <1>5, Sources
  <2> QED BY <1>1, <2>1, CompletedKept DEF ConsequencePlaces
<1> QED BY <1>2, <1>3, <1>4, <1>5

\* The roadmap is written from a view of the backlog after the closure.
LEMMA RoadmapPlaces ==
  ASSUME NEW p \in Procs, Works(p), Grounds, ConsequenceInv
  PROVE  LET n == mem'[p]
         IN /\ pc'[p] \in {"roadmapSync", "roadmapUndo", "roadmapWrite", "roadmapSave"} =>
                 n.key["roadmap:sync"] = "started"
            /\ pc'[p] = "roadmapWrite" => backlog'[Cyc(p)].roadmap = "closed"
            /\ pc'[p] = "roadmapSave" => files'[Cyc(p)].roadmap = "closed"
            /\ pc'[p] = "roadmapCheck" => n.key["roadmap:sync"] = "completed"
<1> DEFINE c == Cyc(p)
           m == mem[p]
           n == mem'[p]
<1>1. /\ Here(p) /\ m \in CycleDoc /\ c \in Cycles /\ backlog \in [Cycles -> BacklogType]
      /\ files \in [Cycles -> FilesType] /\ ConsequencePlaces(p) /\ CompoundActions(p)
      /\ Consequences(m, kernel[c], backlog[c], files[c])
  BY ConsequenceGround
<1>2. pc'[p] = "roadmapSync" => n.key["roadmap:sync"] = "started"
  <2> HAVE pc'[p] = "roadmapSync"
  <2>1. pc[p] = "roadmap" /\ BeginRoadmap(p)
    BY <1>1, Sources DEF CompoundActions
  <2>2. n = SetKey(m, "roadmap:sync", "started")
    BY <1>1, <2>1, Jumped, Persisted DEF BeginRoadmap
  <2> QED BY <1>1, <2>2, ConsequenceKeys, KeySet
<1>3. pc'[p] \in {"roadmapUndo", "roadmapWrite", "roadmapSave"} =>
        n.key["roadmap:sync"] = "started"
  <2> HAVE pc'[p] \in {"roadmapUndo", "roadmapWrite", "roadmapSave"}
  <2>1. pc[p] \in {"roadmapSync", "roadmapWrite"}
    BY Sources
  <2> QED BY <1>1, <2>1, CompletedKept DEF ConsequencePlaces
<1>4. pc'[p] = "roadmapWrite" => backlog'[c].roadmap = "closed"
  <2> HAVE pc'[p] = "roadmapWrite"
  <2>1. pc[p] = "roadmapSync" /\ SyncRoadmap(p)
    BY <1>1, Sources DEF CompoundActions
  <2>2. backlog[c].closed
    BY <1>1, <2>1 DEF ConsequencePlaces, Consequences
  <2>3. backlog' = [backlog EXCEPT ![c].roadmap = "closed"]
    BY <1>1, <2>1, <2>2, Went DEF SyncRoadmap
  <2> QED BY <1>1, <2>3 DEF BacklogType
<1>5. pc'[p] = "roadmapSave" => files'[c].roadmap = "closed"
  <2> HAVE pc'[p] = "roadmapSave"
  <2>1. pc[p] = "roadmapWrite" /\ WriteRoadmap(p)
    BY <1>1, Sources DEF CompoundActions
  <2>2. backlog[c].roadmap = "closed"
    BY <1>1, <2>1 DEF ConsequencePlaces, At
  <2>3. files' = [files EXCEPT ![c].roadmap = backlog[c].roadmap]
    BY <1>1, <2>1, Went DEF WriteRoadmap
  <2> QED BY <1>1, <2>2, <2>3 DEF FilesType
<1>6. pc'[p] = "roadmapCheck" => n.key["roadmap:sync"] = "completed"
  <2> HAVE pc'[p] = "roadmapCheck"
  <2>1. pc[p] \in {"roadmap", "roadmapSave"}
    BY Sources
  <2>2. CASE pc[p] = "roadmap"
    <3>1. BeginRoadmap(p)
      BY <1>1, <2>2 DEF CompoundActions
    <3>2. m.key["roadmap:sync"] = "completed"
      BY <1>1, <3>1, Persisted DEF BeginRoadmap, RoadmapSynced
    <3> QED BY <3>2, CompletedKept
  <2>3. CASE pc[p] = "roadmapSave"
    <3> DEFINE recorded == [m EXCEPT !.roadmap = files[c].roadmap]
    <3>1. n = SetKey(recorded, "roadmap:sync", "completed")
      BY <1>1, <2>3, Persisted DEF CompoundActions, SaveRoadmap
    <3>2. recorded \in CycleDoc
      BY <1>1 DEF CycleDoc, FilesType
    <3> HIDE DEF recorded
    <3> QED BY <3>1, <3>2, ConsequenceKeys, KeySet
  <2> QED BY <2>1, <2>2, <2>3
<1> QED BY <1>2, <1>3, <1>4, <1>5, <1>6

\* Who terminalizes or signs a verdict has seen all its consequences.
LEMMA DonePlaces ==
  ASSUME NEW p \in Procs, Works(p), Grounds, ConsequenceInv,
         Toward(p, {"terminalize"} \cup Signing)', mem'[p].stage = "compounding"
  PROVE  Done(mem'[p])
<1> DEFINE m == mem[p]
           n == mem'[p]
           S == {"terminalize"} \cup Signing
<1>1. /\ Here(p) /\ ConsequencePlaces(p) /\ CompoundActions(p) /\ EvidencePlaces(p)
      /\ Evidence(m, backlog[Cyc(p)], files[Cyc(p)], calls[Cyc(p)])
  BY ConsequenceGround
<1>2. S \cap {"fail", "release"} = {}
  BY DEF Signing
<1>3. ASSUME Toward(p, S), n.stage = m.stage PROVE Done(n)
  BY <1>1, <1>3, DoneKept DEF ConsequencePlaces, Evidence
<1>4. ASSUME pc[p] \notin Shared, <<pc[p], Heading(p)'>> \in Edges, Heading(p)' \in S,
             Heading(p) = pc[p]
      PROVE  Done(n)
  <2>1. pc[p] \in (S \ {"complete"}) \cup {"compoundStage", "roadmapCheck"}
    BY <1>4 DEF Edges, ObservationEdges, ProposalEdges, DecisionEdges, ExecutionEdges,
       ReviewEdges, CompoundEdges, Signing
  <2>2. n.stage = m.stage
    BY <2>1, StageStep DEF StageWriters, Signing
  <2>3. CASE pc[p] = "compoundStage"
    <3>1. Heading(p)' \in {"promote", "release"}
      BY <1>1, <2>2, <2>3, Jumped, Went DEF CompoundActions, DispatchCompound, Heading, Shared
    <3> QED BY <1>4, <3>1 DEF Signing
  <2>4. CASE pc[p] = "roadmapCheck"
    <3>1. Done(m)
      BY <1>1, <2>4 DEF ConsequencePlaces, Consequent, Done, At
    <3> QED BY <1>1, <2>2, <3>1, DoneKept DEF Evidence
  <2>5. CASE pc[p] \in S
    BY <1>3, <1>4, <2>2, <2>5 DEF Toward
  <2> QED BY <2>1, <2>3, <2>4, <2>5
<1> QED BY <1>2, <1>3, <1>4, Heads

\* Nothing-to-do is completed from its own stage.
LEMMA NoOpPlaces ==
  ASSUME NEW p \in Procs, Works(p), Grounds, ConsequenceInv, Running(p)',
         Toward(p, {"noopComplete"})'
  PROVE  mem'[p].stage = "no_op"
<1>1. /\ Here(p) /\ mem[p] \in CycleDoc /\ ConsequencePlaces(p) /\ ProposalActions(p)
      /\ pc'[p] # "release"
  BY ConsequenceGround DEF Works
<1>2. CASE Toward(p, {"noopComplete"}) /\ mem'[p].stage = mem[p].stage
  BY <1>1, <1>2 DEF ConsequencePlaces
<1>3. CASE pc[p] \notin Shared /\ <<pc[p], Heading(p)'>> \in Edges
           /\ Heading(p)' \in {"noopComplete"}
  <2>1. pc[p] = "noop"
    BY <1>3 DEF Edges, ObservationEdges, ProposalEdges, DecisionEdges, ExecutionEdges,
       ReviewEdges, CompoundEdges
  <2>2. Transition(p, mem[p], "no_op", "noopComplete")
    BY <1>1, <2>1 DEF ProposalActions, EnterNoOp
  <2>3. mem'[p] = [mem[p] EXCEPT !.stage = "no_op"]
    BY <1>1, <2>2, Transited
  <2> QED BY <1>1, <2>3 DEF CycleDoc
<1> QED BY <1>2, <1>3, Heads

\* What ConsequenceInv says of p's place.
LEMMA ConsequencePlacesKept ==
  ASSUME NEW p \in Procs, Works(p), Grounds, ConsequenceInv, Running(p)'
  PROVE  ConsequencePlaces(p)'
<1>1. Cyc(p)' = Cyc(p)
  BY ConsequenceGround
<1>2. /\ Toward(p, {"terminalize"} \cup Signing)' => (mem'[p].stage = "compounding" => Done(mem'[p]))
      /\ Toward(p, {"noopComplete"})' => mem'[p].stage = "no_op"
  BY DonePlaces, NoOpPlaces
<1> QED BY <1>1, <1>2, BacklogPlaces, OrderPlaces, FeedbackPlaces, RoadmapPlaces
     DEF ConsequencePlaces, At, PromotionExists

\* The places at the start of an operation know nothing of consequences.
LEMMA ConsequenceEntry ==
  ASSUME NEW q \in Procs,
         \/ pc'[q] \in {"startLatest", "ensureRun"}
         \/ /\ pc'[q] = "event" /\ job'[q].ret = job'[q].op
            /\ job'[q].op \in Ops \ {"start", "observe"}
  PROVE  ConsequencePlaces(q)'
<1>1. Heading(q)' \in {"startLatest", "ensureRun", "propose", "approve", "decline", "execute",
                       "review", "compound"}
  BY DEF Heading, Shared, Ops
<1>2. ~Toward(q, {"terminalize"} \cup Signing)' /\ ~Toward(q, {"noopComplete"})'
  BY <1>1 DEF Toward, Signing
<1>3. pc'[q] \in {"startLatest", "ensureRun", "event"}
  OBVIOUS
<1> QED BY <1>2, <1>3 DEF ConsequencePlaces, At, Consequent

\* A cycle that has just been opened has no verdict to follow.
LEMMA ConsequenceStart ==
  ASSUME NEW d \in NewDocs \cup {NoDoc}
  PROVE  Consequences(d, KernelInit, BacklogInit, FilesInit)
<1>1. /\ d.key = [k \in Keys |-> "none"] /\ d.feedback = [x \in Discoveries |-> "none"]
      /\ d.final = "none"
  <2>1. CASE d \in NewDocs
    <3>1. PICK mode \in Modes : d = [NoDoc EXCEPT !.stage = "new", !.mode = mode]
      BY <2>1 DEF NewDocs
    <3> QED BY <3>1 DEF NoDoc
  <2>2. CASE d = NoDoc
    BY <2>2 DEF NoDoc
  <2> QED BY <2>1, <2>2
<1>2. \A k \in {"backlog:promotion", "backlog:close", "outcome:state", "roadmap:sync",
                "receipt:attempt"} : d.key[k] = "none"
  BY <1>1 DEF Keys
<1>3. \A x \in Discoveries : d.feedback[x] = "none"
  BY <1>1
<1>4. BacklogInit.closed = FALSE
  BY DEF BacklogInit
<1> QED BY <1>1, <1>2, <1>3, <1>4 DEF Consequences

\* ConsequenceInv is inductive.
LEMMA ConsequenceKept ==
  ASSUME LockInv, CycleInv, Unborn, Grounds, ConsequenceInv, [Next]_vars
  PROVE  ConsequenceInv'
<1> DEFINE Holds(d, c) == Consequences(d, kernel'[c], backlog'[c], files'[c])
           Docs == \A c \in Cycles : Holds(doc'[c], c)
           Copies == \A q \in Procs : Running(q)' =>
             Holds(mem'[q], Cyc(q)') /\ ConsequencePlaces(q)'
<1>1. ASSUME NEW p \in Procs, Works(p) PROVE Docs /\ Copies
  <2>1. \A c \in Cycles \ {Cyc(p)} :
          /\ doc'[c] = doc[c] /\ kernel'[c] = kernel[c]
          /\ backlog'[c] = backlog[c] /\ files'[c] = files[c]
    BY <1>1 DEF Works, Data, World
  <2>2. \A d \in {doc[Cyc(p)], mem'[p]} : Holds(d, Cyc(p))
    BY <1>1, ConsequenceDocs
  <2>3. doc'[Cyc(p)] \in {doc[Cyc(p)], mem'[p]} /\ Cyc(p)' = Cyc(p)
    BY <1>1, PhaseGround
  <2>4. Docs
    BY <2>1, <2>2, <2>3 DEF ConsequenceInv
  <2>5. Copies
    BY <1>1, <2>2, <2>3, ConsequencePlacesKept DEF Works
  <2> QED BY <2>4, <2>5
<1>2. ASSUME NEW p \in Procs, Starts(p) PROVE Docs /\ Copies
  <2>1. /\ Cyc(p) \in Cycles /\ Cyc(p)' = Cyc(p)
        /\ kernel' = kernel /\ backlog' = backlog /\ files' = files
        /\ doc[Cyc(p)] = NoDoc /\ kernel[Cyc(p)] = KernelInit
        /\ backlog[Cyc(p)] = BacklogInit /\ files[Cyc(p)] = FilesInit
    BY <1>2 DEF Starts, Unborn, world, Cyc
  <2>2. doc'[Cyc(p)] \in NewDocs \cup {NoDoc} /\ mem'[p] \in NewDocs
    BY <1>2, <2>1 DEF Starts
  <2>3. \A d \in NewDocs \cup {NoDoc} : Holds(d, Cyc(p))
    BY <2>1, ConsequenceStart
  <2>4. Docs
    BY <1>2, <2>1, <2>2, <2>3 DEF Starts, ConsequenceInv
  <2>5. Running(p)' => pc'[p] \in {"startLatest", "ensureRun"}
    BY <1>2 DEF Starts, Running
  <2>6. Copies
    BY <1>2, <2>1, <2>2, <2>3, <2>5, ConsequenceEntry DEF Starts
  <2> QED BY <2>4, <2>6
<1>3. ASSUME Quiet PROVE Docs /\ Copies
  <2>1. UNCHANGED <<doc, kernel, backlog, files>>
    BY <1>3 DEF Quiet, world
  <2>2. Docs
    BY <2>1 DEF ConsequenceInv
  <2>3. ASSUME NEW q \in Procs, Running(q)'
        PROVE  Holds(mem'[q], Cyc(q)') /\ ConsequencePlaces(q)'
    <3>1. CASE Running(q) /\ Stays(q)
      <4>1. Consequences(mem[q], kernel[Cyc(q)], backlog[Cyc(q)], files[Cyc(q)])
            /\ ConsequencePlaces(q)
        BY <3>1 DEF ConsequenceInv
      <4>2. /\ Cyc(q)' = Cyc(q) /\ mem'[q] = mem[q] /\ Heading(q)' = Heading(q)
            /\ pc'[q] = pc[q] /\ job'[q] = job[q]
        BY <3>1 DEF Stays, Cyc, Heading
      <4>3. ConsequencePlaces(q)'
        BY <2>1, <4>1, <4>2 DEF ConsequencePlaces, Toward, At, PromotionExists
      <4> QED BY <2>1, <4>1, <4>2, <4>3
    <3>2. CASE Enters(q)
      <4>1. /\ Cyc(q) \in Cycles /\ Cyc(q)' = Cyc(q) /\ mem'[q] = doc[Cyc(q)]
            /\ job'[q].ret = job'[q].op
            /\ \/ pc'[q] = "ensureRun"
               \/ pc'[q] = "event" /\ job'[q].op \in Ops \ {"start", "observe"}
        BY <3>2 DEF Enters, Body, Ops
      <4>2. ConsequencePlaces(q)'
        BY <4>1, ConsequenceEntry
      <4> QED BY <2>1, <2>2, <4>1, <4>2
    <3> QED BY <1>3, <2>3, <3>1, <3>2 DEF Quiet
  <2>4. Copies
    BY <2>3
  <2> QED BY <2>2, <2>4
<1>4. Docs /\ Copies
  <2> HIDE DEF Docs, Copies
  <2> QED BY <1>1, <1>2, <1>3, StepKinds
<1> QED BY <1>4 DEF ConsequenceInv

\* Every reachable state has ConsequenceInv.
LEMMA ConsequenceInvariance == Spec => []ConsequenceInv
<1>1. Init => ConsequenceInv
  <2> SUFFICES ASSUME Init PROVE ConsequenceInv
    OBVIOUS
  <2>1. \A c \in Cycles : /\ doc[c] = NoDoc /\ kernel[c] = KernelInit
                          /\ backlog[c] = BacklogInit /\ files[c] = FilesInit
    BY DEF Init, ServiceInit
  <2>2. \A p \in Procs : ~Running(p)
    BY DEF Init, ServiceInit, Running, Critical, Outside
  <2> QED BY <2>1, <2>2, ConsequenceStart DEF ConsequenceInv
<1>2. LockInv /\ CycleInv /\ Unborn /\ (ClaimInv /\ Agreement /\ AuthorityInv /\ EvidenceInv)
        /\ ReportInv /\ PhaseInv /\ ConsequenceInv /\ [Next]_vars => ConsequenceInv'
  BY ConsequenceKept DEF Grounds, Footing
<1> QED BY <1>1, <1>2, LockInvariant, CycleInvariance, UnbornInvariance, ClaimInvariance,
     AgreementInvariance, FootingInvariance, ReportInvariance, PhaseInvariance, PTL DEF Spec

\* The experiment is never closed on a guess: whatever call failed or was cut
\* off on the way, the document names the verdict or the principal's refusal.
THEOREM ClosuresCaused == Spec => []ClosedForCause
<1>1. ConsequenceInv => ClosedForCause
  BY DEF ConsequenceInv, Consequences, ClosedForCause
<1> QED BY <1>1, ConsequenceInvariance, PTL

\* The signature comes last: in every crash and retry, a receipt that is
\* signed for a verdict finds every consequence of that verdict in place.
THEOREM SignedLast == Spec => []SignedAfterConsequences
<1>1. ASSUME CycleInv, EvidenceInv, ConsequenceInv, ReceiptInv
      PROVE  SignedAfterConsequences
  <2> SUFFICES ASSUME NEW c \in Cycles, Signed(doc[c]),
                      doc[c].stage \in {"compounding", "completed"}, doc[c].final # "none"
               PROVE  /\ backlog[c].closed
                      /\ PromotionExists(c) <=> doc[c].final = "promote"
                      /\ kernel[c].outcome = doc[c].final
                      /\ kernel[c].feedback = Discoveries
                      /\ doc[c].roadmap = "closed" /\ files[c].roadmap = "closed"
                      /\ kernel[c].phase = "compound"
    BY DEF SignedAfterConsequences
  <2>1. /\ Consequences(doc[c], kernel[c], backlog[c], files[c])
        /\ Evidence(doc[c], backlog[c], files[c], calls[c])
        /\ Receipt(doc[c], kernel[c], files[c])
    BY <1>1 DEF ConsequenceInv, EvidenceInv, ReceiptInv
  <2>2. kernel[c].feedback \subseteq Discoveries
    BY <1>1 DEF CycleInv, TypeOK, KernelType
  <2>3. doc[c].key["receipt:attempt"] # "none"
    BY <2>1 DEF Receipt, Signed
  <2>4. Done(doc[c])
    BY <2>1, <2>3 DEF Consequences
  <2>5. kernel[c].feedback = Discoveries
    BY <2>1, <2>2, <2>4 DEF Consequences, Done
  <2>6. PromotionExists(c) <=> doc[c].final = "promote"
    BY <2>1, <2>4 DEF Consequences, Done, Evidence, PromotionExists
  <2> QED BY <2>1, <2>3, <2>4, <2>5, <2>6 DEF Consequences, Done
<1> QED BY <1>1, CycleInvariance, FootingInvariance, ConsequenceInvariance, ReceiptInvariance, PTL

-----------------------------------------------------------------------------
(* The run comes before every later stage. *)

\* What holds of the run of the cycle p works on, and where p is.
LEMMA RunGround ==
  ASSUME NEW p \in Procs, Works(p), Grounds, RunInv
  PROVE  LET c == Cyc(p)
             m == mem[p]
         IN /\ Here(p) /\ m \in CycleDoc /\ Cyc(p)' = c /\ doc'[c] \in {doc[c], mem'[p]}
            /\ Edits(pc[p], m, mem'[p]) /\ Born(m) /\ Born(doc[c]) /\ RunPlaces(p)
            /\ OpPlaces(p) /\ Chosen(job[p].op, doc[c]) /\ m.stage = doc[c].stage
            /\ PhasePlaces(p) /\ Registers(p)
            /\ ServiceActions(p) /\ ObservationActions(p) /\ DecisionActions(p)
<1>1. Born(mem[p]) /\ RunPlaces(p) /\ Born(doc[Cyc(p)])
  BY WorkTypes DEF RunInv
<1> QED BY <1>1, PhaseGround DEF Works

\* A stage after the first is entered with a run.
LEMMA BornKept ==
  ASSUME NEW p \in Procs, Works(p), Grounds, RunInv
  PROVE  Born(mem'[p])
<1> DEFINE m == mem[p]
           n == mem'[p]
<1>1. /\ Edits(pc[p], m, n) /\ Born(m) /\ RunPlaces(p) /\ m.stage \in Stages
  BY RunGround, WorkTypes
<1>2. m.run => n.run
  BY <1>1 DEF Edits
<1>3. CASE m.stage # "new"
  BY <1>1, <1>2, <1>3 DEF Born, Stages, Absent
<1>4. CASE m.stage = "new" /\ n.stage # "new"
  <2>1. /\ <<pc[p], n.stage>> \in StageWriters /\ ValidateTransition("new", n.stage)
        /\ pc[p] \in Early
    BY <1>1, <1>4, StageStep DEF RunPlaces, Toward, Heading
  <2>2. n.stage \in {"observing", "failed"}
    BY <2>1 DEF ValidateTransition, ForwardEdges
  <2>3. pc[p] = "observing"
    BY <2>1, <2>2 DEF StageWriters, Early
  <2> QED BY <1>1, <1>2, <2>3 DEF RunPlaces, Born
<1> QED BY <1>3, <1>4 DEF Born

\* Nothing but the observation is begun in the first stage.
LEMMA EarlyKept ==
  ASSUME NEW p \in Procs, Works(p), Grounds, RunInv, Running(p)', mem'[p].stage = "new"
  PROVE  Toward(p, Early)'
<1> DEFINE m == mem[p]
<1>1. /\ Here(p) /\ RunPlaces(p) /\ OpPlaces(p) /\ Chosen(job[p].op, doc[Cyc(p)])
      /\ m.stage = doc[Cyc(p)].stage /\ ServiceActions(p) /\ ObservationActions(p)
      /\ DecisionActions(p) /\ PhasePlaces(p) /\ Registers(p)
      /\ m \in CycleDoc /\ pc'[p] # "release"
  BY RunGround DEF Works
<1>2. m.stage = "new"
  <2>1. \A l : <<l, "new">> \notin StageWriters
    BY DEF StageWriters
  <2> QED BY <2>1, StageStep
<1>3. Toward(p, Early)
  BY <1>1, <1>2 DEF RunPlaces
<1>4. ~Toward(p, {"propose", "execute", "review", "compound"})
  BY <1>1, <1>2 DEF OpPlaces, Toward, Chosen, Committed
<1>5. CASE pc[p] \in Shared
  <2>1. job[p].ret \in Early /\ job[p].ret \in Conts
    BY <1>1, <1>3, <1>5 DEF Toward, Heading, Registers, Shared
  <2>2. pc[p] \notin Advancing
    <3>1. \A k \in RunKeys \cup TerminalKeys : Back[k] \notin Early
      BY DEF Back, Early
    <3> QED BY <1>1, <2>1, <3>1 DEF PhasePlaces, Registers, Advancing
  <2>3. pc[p] \in {"event", "eventSave"}
    BY <1>5, <2>2 DEF Shared, Advancing
  <2>4. pc'[p] \in {job[p].ret, "eventSave"} /\ job' = job
    BY <1>1, <2>3, Persisted, Went DEF ServiceActions, EnsureStageEvent, SaveStageEvent
  <2> QED BY <2>1, <2>4 DEF Toward, Heading, Shared, Conts
<1>6. CASE pc[p] = "startLatest"
  BY <1>1, <1>6, Went DEF ObservationActions, StartLatest, Toward, Heading, Shared, Early
<1>7. CASE pc[p] = "ensureRun"
  BY <1>1, <1>7, Went DEF ObservationActions, EnsureCycleRun, Toward, Heading, Shared, Early
<1>8. CASE pc[p] = "ensureRunSave"
  <2>1. pc'[p] \in {"continue", "release"}
    BY <1>1, <1>8, Persisted DEF ObservationActions, SaveCycleRun
  <2> QED BY <1>1, <2>1 DEF Toward, Heading, Shared, Early
<1>9. CASE pc[p] = "continue"
  BY <1>1, <1>2, <1>9, Went DEF ObservationActions, ContinueObservation, Toward, Heading, Shared, Early
<1>10. CASE pc[p] = "observing"
  <2>1. Transition(p, m, "observing", "capture")
    BY <1>1, <1>2, <1>10 DEF ObservationActions, EnterObserving
  <2>2. pc'[p] = "event" /\ mem'[p] = [m EXCEPT !.stage = "observing"]
    BY <1>1, <2>1, Transited
  <2> QED BY <1>1, <2>2 DEF CycleDoc
<1>11. CASE pc[p] \in {"approve", "decline"}
  <2>1. ~AlreadyApproved(m) /\ ~MayApprove(m) /\ ~MayDecline(m)
    BY <1>2 DEF AlreadyApproved, MayApprove, MayDecline
  <2>2. pc'[p] = "release"
    BY <1>1, <1>11, <2>1, Jumped DEF DecisionActions, Approve, Decline
  <2> QED BY <1>1, <2>2
<1>12. pc[p] \notin Shared => pc[p] \in Early \ {"propose", "execute", "review", "compound"}
  BY <1>3, <1>4 DEF Toward, Heading
<1> QED BY <1>5, <1>6, <1>7, <1>8, <1>9, <1>10, <1>11, <1>12 DEF Early

\* The observation goes on with a run.
LEMMA RunPlacesKept ==
  ASSUME NEW p \in Procs, Works(p), Grounds, RunInv, Running(p)'
  PROVE  RunPlaces(p)'
<1> DEFINE m == mem[p]
           n == mem'[p]
<1>1. Here(p) /\ m \in CycleDoc /\ RunPlaces(p) /\ ObservationActions(p)
  BY RunGround
<1>2. ASSUME pc'[p] = "continue" PROVE n.run
  <2>1. CASE pc[p] = "ensureRun"
    <3>1. EnsureCycleRun(p) /\ mem' = mem
      BY <1>1, <2>1 DEF ObservationActions, EnsureCycleRun
    <3> QED BY <1>1, <1>2, <3>1, Went DEF EnsureCycleRun
  <2>2. CASE pc[p] = "ensureRunSave"
    <3>1. n = [m EXCEPT !.run = TRUE]
      BY <1>1, <2>2, Persisted DEF ObservationActions, SaveCycleRun
    <3> QED BY <1>1, <3>1 DEF CycleDoc
  <2> QED BY <1>2, <2>1, <2>2, Sources
<1>3. ASSUME pc'[p] = "observing" PROVE n.run
  <2>1. pc[p] = "continue"
    BY <1>3, Sources
  <2>2. mem' = mem
    BY <1>1, <2>1 DEF ObservationActions, ContinueObservation
  <2> QED BY <1>1, <2>1, <2>2 DEF RunPlaces
<1> QED BY <1>2, <1>3, EarlyKept DEF RunPlaces

\* RunInv is inductive.
LEMMA RunKept ==
  ASSUME LockInv, CycleInv, Unborn, Grounds, RunInv, [Next]_vars
  PROVE  RunInv'
<1> DEFINE Docs == \A c \in Cycles : Born(doc'[c])
           Copies == \A q \in Procs : Running(q)' => Born(mem'[q]) /\ RunPlaces(q)'
<1>1. ASSUME NEW p \in Procs, Works(p) PROVE Docs /\ Copies
  <2>1. \A c \in Cycles \ {Cyc(p)} : doc'[c] = doc[c]
    BY <1>1 DEF Works, Data
  <2>2. Docs
    BY <1>1, <2>1, BornKept, RunGround DEF RunInv
  <2> QED BY <1>1, <2>2, BornKept, RunPlacesKept DEF Works
<1>2. ASSUME NEW p \in Procs, Starts(p) PROVE Docs /\ Copies
  <2>1. mem'[p].stage = "new"
    BY <1>2 DEF Starts, NewDocs, NoDoc
  <2>2. Docs
    BY <1>2, <2>1 DEF Starts, RunInv, Born
  <2>3. Running(p)' => pc'[p] = "startLatest"
    BY <1>2 DEF Starts, Running
  <2> QED BY <1>2, <2>1, <2>2, <2>3 DEF Starts, Born, RunPlaces, Toward, Heading, Shared, Early
<1>3. ASSUME Quiet PROVE Docs /\ Copies
  <2>1. Docs
    BY <1>3 DEF Quiet, RunInv
  <2>2. ASSUME NEW q \in Procs, Running(q)' PROVE Born(mem'[q]) /\ RunPlaces(q)'
    <3>1. CASE Running(q) /\ Stays(q)
      <4>1. /\ mem'[q] = mem[q] /\ Heading(q)' = Heading(q) /\ pc'[q] = pc[q]
        BY <3>1 DEF Stays, Heading
      <4> QED BY <3>1, <4>1 DEF RunInv, RunPlaces, Toward
    <3>2. CASE Enters(q)
      <4>1. /\ Cyc(q) \in Cycles /\ mem'[q] = doc[Cyc(q)]
            /\ pc'[q] \in {"ensureRun", "event"} /\ Heading(q)' \in Early
        BY <3>2 DEF Enters, Body, Ops, Heading, Shared, Early
      <4> QED BY <4>1 DEF RunInv, RunPlaces, Toward
    <3> QED BY <1>3, <2>2, <3>1, <3>2 DEF Quiet
  <2> QED BY <2>1, <2>2
<1>4. Docs /\ Copies
  <2> HIDE DEF Docs, Copies
  <2> QED BY <1>1, <1>2, <1>3, StepKinds
<1> QED BY <1>4 DEF RunInv

\* Every reachable state has RunInv.
LEMMA RunInvariance == Spec => []RunInv
<1>1. Init => RunInv
  BY DEF Init, ServiceInit, RunInv, Born, NoDoc, Running, Critical, Outside
<1>2. LockInv /\ CycleInv /\ Unborn /\ (ClaimInv /\ Agreement /\ AuthorityInv /\ EvidenceInv)
        /\ ReportInv /\ PhaseInv /\ RunInv /\ [Next]_vars => RunInv'
  BY RunKept DEF Grounds, Footing
<1> QED BY <1>1, <1>2, LockInvariant, CycleInvariance, UnbornInvariance, ClaimInvariance,
     AgreementInvariance, FootingInvariance, ReportInvariance, PhaseInvariance, PTL DEF Spec

-----------------------------------------------------------------------------
(* Nothing changes what is signed. *)

Assured == Grounds /\ ConsequenceInv /\ ReceiptInv /\ RunInv /\ FrozenInv

\* What holds of the receipt of the cycle p works on, and where p is.
LEMMA FrozenGround ==
  ASSUME NEW p \in Procs, Works(p), Assured
  PROVE  LET c == Cyc(p)
             m == mem[p]
         IN /\ Here(p) /\ m \in CycleDoc /\ mem'[p] \in CycleDoc /\ doc[c] \in CycleDoc
            /\ c \in Cycles /\ Cyc(p)' = c /\ doc'[c] \in {doc[c], mem'[p]}
            /\ files \in [Cycles -> FilesType] /\ Edits(pc[p], m, mem'[p])
            /\ FilesEdits(pc[p], files[c], files'[c])
            /\ Agree(m, doc[c]) /\ m.stage = doc[c].stage
            /\ Kept(m, files[c]) /\ Kept(doc[c], files[c]) /\ FrozenPlaces(p)
<1>1. Kept(mem[p], files[Cyc(p)]) /\ Kept(doc[Cyc(p)], files[Cyc(p)]) /\ FrozenPlaces(p)
  BY WorkTypes DEF Assured, FrozenInv
<1> QED BY <1>1, WorkTypes, ReceiptGround, FootingGround DEF Assured, Grounds, Footing

\* A cycle whose receipt is claimed is done, and p is at rest.
LEMMA SealedGround ==
  ASSUME NEW p \in Procs, Works(p), Assured, Sealed(mem[p])
  PROVE  LET c == Cyc(p)
             m == mem[p]
         IN /\ m.stage \in {"compounding", "completed", "failed"} /\ m.run
            /\ m.stage = "compounding" => Done(m) /\ m.final # "none"
            /\ kernel[c].phase = "compound" /\ m.key["run:terminal"] = "completed"
            /\ files[c].receipt = Content(m)
            /\ m.stage = "completed" \/ m.stage \in m.events
            /\ AtRest(p)
<1>1. /\ Consequences(mem[p], kernel[Cyc(p)], backlog[Cyc(p)], files[Cyc(p)])
      /\ Evidence(mem[p], backlog[Cyc(p)], files[Cyc(p)], calls[Cyc(p)])
  BY ConsequenceGround DEF Assured
<1>2. mem[p].stage \in {"compounding", "completed", "failed"}
  BY <1>1 DEF Consequences, Sealed
<1>3. mem[p].run
  BY <1>2, RunGround DEF Assured, Born, Absent
<1> QED BY <1>1, <1>2, <1>3, FrozenGround DEF Consequences, Evidence, Sealed, Kept, FrozenPlaces

\* The places before Compound: nothing is to be observed, proposed or
\* decided, and what was checked before the lock was asked for still holds.
LEMMA CalmOutside ==
  ASSUME NEW p \in Procs, Works(p), Assured, Timely, Sealed(mem[p]),
         pc[p] \in {"ensureRun", "continue", "propose", "approve", "decline", "execute", "review"}
  PROVE  mem'[p] = mem[p] /\ pc'[p] \in Calm
<1> DEFINE m == mem[p]
<1>1. /\ Here(p) /\ m.stage \in {"compounding", "completed", "failed"} /\ m.run
      /\ m.stage = "compounding" => m.final # "none"
      /\ m.stage = doc[Cyc(p)].stage /\ m.final = doc[Cyc(p)].final
  BY FrozenGround, SealedGround DEF Agree
<1>2. /\ ObservationActions(p) /\ ProposalActions(p) /\ DecisionActions(p)
      /\ ExecutionActions(p) /\ ReviewActions(p) /\ OpPlaces(p)
  BY RunGround DEF Works, Assured
<1>3. CASE pc[p] \in {"ensureRun", "continue"}
  <2>1. mem' = mem
    BY <1>2, <1>3 DEF ObservationActions, EnsureCycleRun, ContinueObservation
  <2>2. pc'[p] \in {"continue", "release"}
    BY <1>1, <1>2, <1>3, Went DEF ObservationActions, EnsureCycleRun, ContinueObservation
  <2> QED BY <2>1, <2>2 DEF Calm
<1>4. CASE pc[p] = "propose"
  BY <1>1, <1>2, <1>4, Jumped DEF ProposalActions, ResumeProposal, Calm
<1>5. CASE pc[p] \in {"approve", "decline"}
  <2>1. ~AlreadyApproved(m) /\ ~MayApprove(m) /\ ~MayDecline(m)
    BY <1>1 DEF AlreadyApproved, MayApprove, MayDecline
  <2> QED BY <1>1, <1>2, <1>5, <2>1, Jumped DEF DecisionActions, Approve, Decline, Calm
<1>6. CASE pc[p] = "execute"
  <2>1. Ready("execute", doc[Cyc(p)])
    BY <1>2, <1>6 DEF Timely, OpPlaces, Toward, Heading, Shared, Checked
  <2> QED BY <1>1, <2>1 DEF Ready, ExecuteReady
<1>7. CASE pc[p] = "review"
  <2>1. Ready("review", doc[Cyc(p)])
    BY <1>2, <1>7 DEF Timely, OpPlaces, Toward, Heading, Shared, Checked
  <2>2. ReviewSettled(m)
    BY <1>1, <2>1 DEF Ready, ReviewReady, ReviewSettled
  <2> QED BY <1>1, <1>2, <1>7, <2>2, Jumped DEF ReviewActions, ClaimReview, Calm
<1> QED BY <1>3, <1>4, <1>5, <1>6, <1>7

\* Compound up to the receipt finds every consequence done.
LEMMA CalmCompound ==
  ASSUME NEW p \in Procs, Works(p), Assured, Sealed(mem[p]),
         pc[p] \in {"compound", "compoundStage", "promote", "close", "outcome", "feedback",
                    "roadmap", "roadmapCheck", "terminalize"}
  PROVE  mem'[p] = mem[p] /\ pc'[p] \in Calm
<1> DEFINE m == mem[p]
<1>1. /\ Here(p) /\ m \in CycleDoc /\ m.stage \in {"compounding", "completed", "failed"}
      /\ m.stage = "compounding" => Done(m)
      /\ kernel[Cyc(p)].phase = "compound" /\ m.key["run:terminal"] = "completed"
  BY FrozenGround, SealedGround
<1>2. CompoundActions(p) /\ EvidencePlaces(p)
  BY ConsequenceGround DEF Assured
<1>3. CASE pc[p] = "compound"
  BY <1>1, <1>2, <1>3, Jumped DEF CompoundActions, BeginCompound, Calm
<1>4. CASE pc[p] = "compoundStage"
  BY <1>1, <1>2, <1>4, Jumped, Went DEF CompoundActions, DispatchCompound, Calm
<1>5. CASE pc[p] = "terminalize"
  <2>1. Terminalize(p)
    BY <1>2, <1>5 DEF CompoundActions
  <2>2. \/ \E l \in {"release", "receipt"} : Jump(p, l)
        \/ Raise(p, "release") /\ mem' = mem
    BY <1>1, <2>1 DEF Terminalize
  <2> QED BY <1>1, <2>2, Jumped, Went DEF Calm
<1>6. CASE pc[p] \in {"promote", "close", "outcome", "feedback", "roadmap", "roadmapCheck"}
  <2>1. Done(m)
    BY <1>1, <1>2, <1>6 DEF EvidencePlaces, Consequent
  <2>2. CASE pc[p] = "promote"
    <3>1. ~NeedsPromotion(m)
      BY <2>1 DEF Done, NeedsPromotion
    <3> QED BY <1>1, <1>2, <2>2, <3>1, Jumped, Went DEF CompoundActions, FindPromotion, Calm
  <2>3. CASE pc[p] \in {"close", "outcome"}
    <3>1. mem' = mem
      BY <1>2, <2>3 DEF CompoundActions, CloseExperiment, RecordOutcome
    <3>2. pc'[p] \in {"outcome", "feedback"}
      BY <1>1, <1>2, <2>1, <2>3, Went DEF Done, CompoundActions, CloseExperiment, RecordOutcome
    <3> QED BY <3>1, <3>2 DEF Calm
  <2>4. CASE pc[p] = "feedback"
    <3>1. NextFeedback(m) = {}
      BY <1>1, <2>1, FeedbackNext DEF Done
    <3> QED BY <1>1, <1>2, <2>4, <3>1, Jumped DEF CompoundActions, BeginFeedback, Calm
  <2>5. CASE pc[p] = "roadmap"
    <3>1. RoadmapSynced(m)
      BY <2>1 DEF Done, RoadmapSynced
    <3> QED BY <1>1, <1>2, <2>5, <3>1, Jumped DEF CompoundActions, BeginRoadmap, Calm
  <2>6. CASE pc[p] = "roadmapCheck"
    BY <1>1, <1>2, <2>6, Jumped DEF CompoundActions, CheckRoadmap, Calm
  <2> QED BY <1>6, <2>2, <2>3, <2>4, <2>5, <2>6
<1> QED BY <1>3, <1>4, <1>5, <1>6

\* The receipt that was claimed is emitted, accepted and settled.
LEMMA CalmReceipt ==
  ASSUME NEW p \in Procs, Works(p), Assured, Sealed(mem[p]),
         pc[p] \in {"receipt", "emit", "emitSend", "accept"}
  PROVE  mem'[p] = mem[p] /\ pc'[p] \in Calm
<1> DEFINE m == mem[p]
<1>1. Here(p) /\ m \in CycleDoc /\ CompoundActions(p) /\ Sealed(m)
  BY FrozenGround DEF Works
<1>2. CASE pc[p] = "receipt"
  <2>1. ~ReceiptOpen(m)
    <3>1. m.key["receipt:attempt"] \in Marks
      BY <1>1 DEF CycleDoc, Keys
    <3> QED BY <1>1, <3>1 DEF Sealed, Marks, ReceiptOpen
  <2>2. BuildReceipt(p)
    BY <1>1, <1>2 DEF CompoundActions
  <2>3. mem' = mem /\ \E l \in {"complete", "accept", "emit", "release"} : Goto(p, l)
    BY <2>1, <2>2 DEF BuildReceipt, Continue, Raise
  <2> QED BY <1>1, <2>3, Went DEF Calm
<1>3. CASE pc[p] = "emit"
  BY <1>1, <1>3, Jumped, Went DEF CompoundActions, FindReceipt, Calm
<1>4. CASE pc[p] = "emitSend"
  BY <1>1, <1>4, Went DEF CompoundActions, EmitReceipt, Calm
<1>5. CASE pc[p] = "accept"
  <2>1. AcceptReceipt(p)
    BY <1>1, <1>5 DEF CompoundActions
  <2>2. mem' = mem /\ \E l \in {"acceptSave", "release"} : Goto(p, l)
    BY <2>1 DEF AcceptReceipt, Continue, Raise
  <2> QED BY <1>1, <2>2, Went DEF Calm
<1> QED BY <1>2, <1>3, <1>4, <1>5

\* The changes of a claimed cycle that its receipt does not speak of: the
\* event of its completion, the identity of the receipt, the completion.
Unspoken(m, n) ==
  \/ n = m
  \/ m.stage = "completed" /\ n = [m EXCEPT !.events = @ \cup {"completed"}]
  \/ \E i \in Nat : n = SetKey([m EXCEPT !.signed = i], "receipt:attempt", "completed")
  \/ m.stage = "compounding" /\ n = [m EXCEPT !.stage = "completed"]

\* A step of a handler on a cycle whose receipt is claimed.
LEMMA CalmStep ==
  ASSUME NEW p \in Procs, Works(p), Assured, Timely, Sealed(mem[p])
  PROVE  Unspoken(mem[p], mem'[p]) /\ (Running(p)' => AtRest(p)')
<1> DEFINE m == mem[p]
<1>1. /\ Here(p) /\ m \in CycleDoc /\ CompoundActions(p) /\ ServiceActions(p) /\ AtRest(p)
      /\ m.stage \in {"compounding", "completed", "failed"}
      /\ m.stage = "completed" \/ m.stage \in m.events
      /\ Running(p)' => pc'[p] # "release"
  BY FrozenGround, SealedGround DEF Works
<1>2. ASSUME pc'[p] \in Calm PROVE AtRest(p)'
  BY <1>2 DEF AtRest, Heading, Shared, Calm, Advancing, At
<1>3. CASE pc[p] \in Calm \ {"acceptSave", "complete", "release"}
  <2>1. mem'[p] = mem[p] /\ pc'[p] \in Calm
    BY <1>3, CalmOutside, CalmCompound, CalmReceipt DEF Calm
  <2> QED BY <1>2, <2>1 DEF Unspoken
<1>4. CASE pc[p] = "acceptSave"
  <2>1. /\ mem'[p] = SetKey([m EXCEPT !.signed = files[Cyc(p)].signature],
                            "receipt:attempt", "completed")
        /\ pc'[p] \in {"complete", "release"}
    BY <1>1, <1>4, Persisted DEF CompoundActions, SaveSignature
  <2>2. files[Cyc(p)].signature \in Nat
    BY FrozenGround DEF FilesType
  <2> QED BY <1>2, <2>1, <2>2 DEF Unspoken, Calm
<1>5. CASE pc[p] = "complete"
  <2>1. CASE m.stage = "compounding"
    <3>1. Transition(p, m, "completed", "release")
      BY <1>1, <1>5, <2>1 DEF CompoundActions, Complete
    <3>2. m \in CycleDoc /\ Here(p)
      BY <1>1
    <3>3. /\ pc'[p] \in {"event", "release"}
          /\ pc'[p] = "event" => job'[p].ret = "release"
          /\ mem'[p] = m \/ mem'[p] = [m EXCEPT !.stage = "completed"]
      <4> HIDE DEF m
      <4> QED BY <3>1, <3>2, Transited
    <3> QED BY <2>1, <3>3 DEF Unspoken, AtRest, Heading, Shared, Calm, Advancing, At
  <2>2. CASE m.stage # "compounding"
    BY <1>1, <1>2, <1>5, <2>2, Jumped DEF CompoundActions, Complete, Unspoken, Calm
  <2> QED BY <2>1, <2>2
<1>6. CASE pc[p] \in Shared
  <2>1. pc[p] \in {"event", "eventSave"} /\ job[p].ret \in Calm
    BY <1>1, <1>6 DEF AtRest, Shared, Advancing, Heading
  <2>2. CASE pc[p] = "event"
    <3>1. EnsureStageEvent(p) /\ mem' = mem /\ job' = job
      BY <1>1, <2>2 DEF ServiceActions, EnsureStageEvent
    <3>2. pc'[p] = "eventSave" => m.stage = "completed"
      <4>1. ~EventRecorded(m) => m.stage = "completed"
        BY <1>1 DEF EventRecorded
      <4>2. pc'[p] = "eventSave" => ~EventRecorded(m)
        BY <1>1, <2>1, <3>1, Went DEF EnsureStageEvent, Calm
      <4> QED BY <4>1, <4>2
    <3>3. pc'[p] \in {job[p].ret, "eventSave", "release"}
      BY <1>1, <3>1, Went DEF EnsureStageEvent
    <3>4. Running(p)' => AtRest(p)'
      <4>1. pc'[p] = "eventSave" => AtRest(p)'
        BY <2>1, <3>1, <3>2 DEF AtRest, Heading, Shared, Advancing, At
      <4> QED BY <1>1, <1>2, <2>1, <3>3, <4>1
    <3> QED BY <3>1, <3>4 DEF Unspoken
  <2>3. CASE pc[p] = "eventSave"
    <3>1. m.stage = "completed"
      BY <1>1, <2>3 DEF AtRest, At
    <3>2. /\ mem'[p] = [m EXCEPT !.events = @ \cup {m.stage}]
          /\ pc'[p] \in {job[p].ret, "release"}
      BY <1>1, <2>3, Persisted DEF ServiceActions, SaveStageEvent
    <3> QED BY <1>1, <1>2, <2>1, <3>1, <3>2 DEF Unspoken
  <2> QED BY <2>1, <2>2, <2>3
<1>7. pc[p] \in Shared \cup Calm /\ pc[p] # "release"
  BY <1>1 DEF AtRest, Heading, Here, Running
<1> QED BY <1>3, <1>4, <1>5, <1>6, <1>7

\* The fields of a document that a receipt speaks of.
Spoken(m, n) ==
  /\ n.mode = m.mode /\ n.run = m.run /\ n.observed = m.observed /\ n.judged = m.judged
  /\ n.bead = m.bead /\ n.approved = m.approved /\ n.declined = m.declined
  /\ n.execution = m.execution /\ n.transcript = m.transcript /\ n.measured = m.measured
  /\ n.review = m.review /\ n.final = m.final /\ n.promotion = m.promotion
  /\ n.roadmap = m.roadmap /\ n.feedback = m.feedback
  /\ \A k \in Keys \ {"receipt:attempt"} : n.key[k] = m.key[k]

\* Documents are the same when their fields are.
LEMMA SameDoc ==
  ASSUME NEW m \in CycleDoc, NEW n \in CycleDoc, Spoken(m, n),
         m.stage = n.stage, m.signed = n.signed, m.digest = n.digest, m.events = n.events,
         m.key["receipt:attempt"] = n.key["receipt:attempt"]
  PROVE  m = n
<1>1. m.key = n.key
  BY DEF CycleDoc, Spoken
<1> QED BY <1>1 DEF CycleDoc, Spoken

\* The content of a document.
LEMMA ContentFields ==
  ASSUME NEW m \in CycleDoc
  PROVE  LET x == Content(m)
         IN /\ x \in CycleDoc /\ Spoken(m, x)
            /\ x.stage = IF m.stage = "failed" THEN "failed" ELSE "completed"
            /\ x.signed = 0 /\ x.digest = 0 /\ x.events = m.events \ {"completed"}
            /\ x.key["receipt:attempt"] = "none"
<1> DEFINE stage == IF m.stage = "failed" THEN "failed" ELSE "completed"
           a == [m EXCEPT !.stage = stage, !.signed = 0, !.digest = 0,
                          !.events = m.events \ {"completed"}]
<1>1. /\ a.stage = stage /\ a.signed = 0 /\ a.digest = 0 /\ a.events = m.events \ {"completed"}
      /\ a.mode = m.mode /\ a.run = m.run /\ a.observed = m.observed /\ a.judged = m.judged
      /\ a.bead = m.bead /\ a.approved = m.approved /\ a.declined = m.declined
      /\ a.execution = m.execution /\ a.transcript = m.transcript /\ a.measured = m.measured
      /\ a.review = m.review /\ a.final = m.final /\ a.promotion = m.promotion
      /\ a.roadmap = m.roadmap /\ a.feedback = m.feedback /\ a.key = m.key
  BY DEF CycleDoc
<1>2. a \in CycleDoc
  <2>1. stage \in Stages
    BY DEF Stages
  <2> HIDE DEF stage
  <2> QED BY <2>1 DEF CycleDoc
<1>3. Content(m) = SetKey(a, "receipt:attempt", "none")
  BY DEF Content
<1> HIDE DEF a, stage
<1>4. Content(m) = [a EXCEPT !.key["receipt:attempt"] = "none"]
  BY <1>3 DEF SetKey
<1>5. Content(m) \in CycleDoc /\ Spoken(a, Content(m))
  BY <1>2, <1>4 DEF CycleDoc, Spoken, Keys, Marks
<1>6. /\ Content(m).stage = a.stage /\ Content(m).signed = a.signed
      /\ Content(m).digest = a.digest /\ Content(m).events = a.events
      /\ Content(m).key["receipt:attempt"] = "none"
  BY <1>2, <1>4 DEF CycleDoc, Keys
<1> QED BY <1>1, <1>5, <1>6 DEF Spoken, stage

\* Documents that say the same have the same content.
LEMMA ContentSame ==
  ASSUME NEW m \in CycleDoc, NEW n \in CycleDoc, Spoken(m, n),
         n.events \ {"completed"} = m.events \ {"completed"},
         n.stage = "failed" <=> m.stage = "failed"
  PROVE  Content(n) = Content(m)
<1> DEFINE x == Content(m)
           y == Content(n)
<1>1. x \in CycleDoc /\ y \in CycleDoc /\ Spoken(m, x) /\ Spoken(n, y)
  BY ContentFields
<1>2. Spoken(x, y)
  BY <1>1 DEF Spoken
<1>3. /\ x.stage = y.stage /\ x.signed = y.signed /\ x.digest = y.digest /\ x.events = y.events
      /\ x.key["receipt:attempt"] = y.key["receipt:attempt"]
  BY ContentFields
<1> HIDE DEF x, y
<1> QED BY <1>1, <1>2, <1>3, SameDoc DEF x, y

\* What the receipt does not speak of does not change its content.
LEMMA ContentUnspoken ==
  ASSUME NEW m \in CycleDoc, NEW n \in CycleDoc, Unspoken(m, n)
  PROVE  /\ Content(n) = Content(m) /\ Spoken(m, n)
         /\ m.stage = "completed" \/ m.stage \in m.events =>
              n.stage = "completed" \/ n.stage \in n.events
<1>1. CASE n = m
  BY <1>1 DEF Spoken
<1>2. CASE m.stage = "completed" /\ n = [m EXCEPT !.events = @ \cup {"completed"}]
  <2>1. /\ n.events \ {"completed"} = m.events \ {"completed"} /\ n.stage = m.stage
        /\ Spoken(m, n)
    BY <1>2 DEF CycleDoc, Spoken
  <2> QED BY <2>1, ContentSame
<1>3. ASSUME NEW i \in Nat, n = SetKey([m EXCEPT !.signed = i], "receipt:attempt", "completed")
      PROVE  /\ Content(n) = Content(m) /\ Spoken(m, n)
             /\ n.events = m.events /\ n.stage = m.stage
  <2>1. Spoken(m, n) /\ n.events = m.events /\ n.stage = m.stage
    BY <1>3 DEF SetKey, CycleDoc, Spoken
  <2> QED BY <2>1, ContentSame
<1>4. CASE m.stage = "compounding" /\ n = [m EXCEPT !.stage = "completed"]
  <2>1. Spoken(m, n) /\ n.events = m.events /\ n.stage = "completed"
    BY <1>4 DEF CycleDoc, Spoken
  <2> QED BY <1>4, <2>1, ContentSame
<1> QED BY <1>1, <1>2, <1>3, <1>4 DEF Unspoken

\* Neither does the claim itself.
LEMMA ContentClaimed ==
  ASSUME NEW m \in CycleDoc, NEW n \in CycleDoc, NEW x,
         n = SetKey([m EXCEPT !.digest = x], "receipt:attempt", "started")
  PROVE  Content(n) = Content(m) /\ Spoken(m, n) /\ n.stage = m.stage /\ n.events = m.events
<1>1. Spoken(m, n) /\ n.events = m.events /\ n.stage = m.stage
  BY DEF SetKey, CycleDoc, Spoken
<1> QED BY <1>1, ContentSame

\* A receipt is claimed at one place, where the run has ended, the stage is
\* reported and what was built is the content of the document.
LEMMA Sealing ==
  ASSUME NEW p \in Procs, Works(p), Assured, ~Sealed(mem[p]), Sealed(mem'[p])
  PROVE  /\ pc[p] = "receiptSave" /\ Kept(mem'[p], files'[Cyc(p)])
         /\ Running(p)' => AtRest(p)'
<1> DEFINE c == Cyc(p)
           m == mem[p]
           n == mem'[p]
<1>1. /\ Here(p) /\ m \in CycleDoc /\ n \in CycleDoc /\ Edits(pc[p], m, n) /\ FrozenPlaces(p)
      /\ files \in [Cycles -> FilesType] /\ Cyc(p) \in Cycles
      /\ Running(p)' => pc'[p] # "release"
  BY FrozenGround DEF Works
<1>2. pc[p] = "receiptSave"
  <2>1. pc[p] \in {"receiptSave", "acceptSave"}
    BY <1>1, ReceiptKey DEF Edits, Sealed
  <2>2. pc[p] # "acceptSave"
    BY ReceiptGround DEF ReceiptPlaces, Sealed, Assured, Grounds, Footing
  <2> QED BY <2>1, <2>2
<1>3. SaveReceipt(p)
  BY <1>2 DEF Works, CompoundActions
<1>4. /\ n = SetKey([m EXCEPT !.digest = files[c].digest], "receipt:attempt", "started")
      /\ pc'[p] \in {"emit", "release"} /\ files' = files
  BY <1>1, <1>3, Persisted DEF SaveReceipt, world
<1>5. /\ m.key["run:terminal"] = "completed" /\ files[c].receipt = Content(m)
      /\ m.stage \in m.events \cup {"new"}
  BY <1>1, <1>2 DEF FrozenPlaces, Signing, At, Unreported
<1>6. m.stage # "new"
  BY <1>2, PhaseGround DEF Assured, PhasePlaces, Toward, Heading, Shared, Signing
<1>7. Content(n) = Content(m) /\ Spoken(m, n) /\ n.stage = m.stage /\ n.events = m.events
  BY <1>1, <1>4, ContentClaimed
<1>8. n.key["run:terminal"] = "completed"
  BY <1>5, <1>7 DEF Spoken, Keys
<1>9. Kept(n, files'[c])
  BY <1>4, <1>5, <1>6, <1>7, <1>8 DEF Kept
<1>10. Running(p)' => AtRest(p)'
  BY <1>1, <1>4 DEF AtRest, Heading, Shared, Calm, Advancing, At
<1> QED BY <1>2, <1>9, <1>10

\* The content that was built is rebuilt only while no receipt is claimed.
LEMMA BuiltKept ==
  ASSUME NEW p \in Procs, Works(p), Assured, Sealed(mem[p])
  PROVE  files'[Cyc(p)].receipt = files[Cyc(p)].receipt
<1>1. CASE pc[p] = "receipt"
  BY <1>1, ReceiptBuilt DEF Assured, Grounds, Footing, Sealed
<1>2. CASE pc[p] # "receipt"
  BY <1>2, FrozenGround DEF FilesEdits
<1> QED BY <1>1, <1>2

\* The content that was signed, after a step.
LEMMA KeptDocs ==
  ASSUME NEW p \in Procs, Works(p), Assured, Timely, NEW d \in {doc[Cyc(p)], mem'[p]}
  PROVE  Kept(d, files'[Cyc(p)])
<1> DEFINE c == Cyc(p)
           m == mem[p]
           n == mem'[p]
<1>1. /\ m \in CycleDoc /\ n \in CycleDoc /\ Agree(m, doc[c])
      /\ Kept(m, files[c]) /\ Kept(doc[c], files[c])
  BY FrozenGround
<1>2. Sealed(doc[c]) <=> Sealed(m)
  BY <1>1, ReceiptKey DEF Agree, Sealed
<1>3. Kept(doc[c], files'[c])
  BY <1>1, <1>2, BuiltKept DEF Kept
<1>4. CASE Sealed(m)
  <2>1. Unspoken(m, n)
    BY <1>4, CalmStep
  <2>2. /\ Content(n) = Content(m) /\ Spoken(m, n)
        /\ n.stage = "completed" \/ n.stage \in n.events
    BY <1>1, <1>4, <2>1, ContentUnspoken DEF Kept
  <2>3. n.key["run:terminal"] = "completed"
    BY <1>1, <1>4, <2>2 DEF Kept, Spoken, Keys
  <2>4. Kept(n, files'[c])
    BY <1>1, <1>4, <2>2, <2>3, BuiltKept DEF Kept
  <2> QED BY <1>3, <2>4
<1>5. CASE ~Sealed(m)
  <2>1. Kept(n, files'[c])
    BY <1>5, Sealing DEF Kept
  <2> QED BY <1>3, <2>1
<1> QED BY <1>4, <1>5

\* The run has ended where the receipt is built and sent.
LEMMA EndedPlaces ==
  ASSUME NEW p \in Procs, Works(p), Assured, pc'[p] \in Signing
  PROVE  mem'[p].key["run:terminal"] = "completed"
<1> DEFINE m == mem[p]
           n == mem'[p]
<1>1. /\ Here(p) /\ m \in CycleDoc /\ Edits(pc[p], m, n) /\ FrozenPlaces(p)
      /\ CompoundActions(p)
  BY FrozenGround DEF Works
<1>2. pc[p] \in Signing \cup {"terminalize"}
  BY Sources DEF Signing
<1>3. CASE pc[p] \in Signing
  <2>1. <<pc[p], "run:terminal">> \notin KeyWriters /\ "run:terminal" \in Keys
    BY <1>3 DEF Signing, KeyWriters, RunKeys, TerminalKeys, Keys
  <2> QED BY <1>1, <1>3, <2>1 DEF FrozenPlaces, Edits
<1>4. CASE pc[p] = "terminalize"
  <2>1. Terminalize(p)
    BY <1>1, <1>4 DEF CompoundActions
  <2>2. CASE m.key["run:terminal"] = "completed" /\ \E l : Jump(p, l)
    BY <1>1, <2>2, Jumped
  <2>3. CASE \E l : Persist(p, SetKey(m, "run:terminal", "completed"), l, "release")
    <3>1. n = SetKey(m, "run:terminal", "completed")
      BY <1>1, <2>3, Persisted
    <3>2. "run:terminal" \in Keys
      BY DEF Keys
    <3> QED BY <1>1, <3>1, <3>2, KeySet
  <2>4. CASE pc'[p] \in {"release", "advance"}
    BY <2>4 DEF Signing
  <2> QED BY <1>1, <2>1, <2>2, <2>3, <2>4, Jumped, Went DEF Terminalize, Advance
<1> QED BY <1>2, <1>3, <1>4

\* The stage of whoever is past its event is reported in the document.
LEMMA ReportedPlaces ==
  ASSUME NEW p \in Procs, Works(p), Assured,
         pc'[p] \notin Unreported \cup {"eventSave", "release"}
  PROVE  mem'[p].stage \in mem'[p].events \cup {"new"}
<1> DEFINE m == mem[p]
           n == mem'[p]
<1>1. /\ Here(p) /\ m \in CycleDoc /\ Edits(pc[p], m, n) /\ FrozenPlaces(p)
      /\ ServiceActions(p)
  BY FrozenGround DEF Works
<1>2. n.stage = m.stage
  BY StageStep DEF Unreported
<1>3. CASE pc[p] = "event"
  <2>1. EnsureStageEvent(p) /\ n = m
    BY <1>1, <1>3 DEF ServiceActions, EnsureStageEvent
  <2>2. EventRecorded(m)
    BY <1>1, <2>1, Went DEF EnsureStageEvent
  <2> QED BY <2>1, <2>2 DEF EventRecorded
<1>4. CASE pc[p] = "eventSave"
  <2>1. n = [m EXCEPT !.events = @ \cup {m.stage}]
    BY <1>1, <1>4, Persisted DEF ServiceActions, SaveStageEvent
  <2> QED BY <1>1, <2>1 DEF CycleDoc
<1>5. CASE pc[p] \in Unreported \ {"event"}
  BY <1>5, UnreportedLeft
<1>6. CASE pc[p] \notin Unreported \cup {"eventSave"}
  BY <1>1, <1>2, <1>6 DEF FrozenPlaces, Edits
<1> QED BY <1>3, <1>4, <1>5, <1>6

\* Where p is after a step, and what it may rely on there.
LEMMA FrozenPlacesKept ==
  ASSUME NEW p \in Procs, Works(p), Assured, Timely, Running(p)'
  PROVE  FrozenPlaces(p)'
<1>1. Cyc(p)' = Cyc(p) /\ pc'[p] # "release" /\ Here(p) /\ CompoundActions(p)
  BY DEF Works
<1>2. ASSUME pc'[p] = "receiptSave" PROVE files'[Cyc(p)].receipt = Content(mem'[p])
  <2>1. BuildReceipt(p)
    BY <1>1, <1>2, Sources DEF CompoundActions
  <2>2. files' = [files EXCEPT ![Cyc(p)].receipt = Content(mem[p]), ![Cyc(p)].digest = @ + 1]
    BY <1>1, <1>2, <2>1, Went DEF BuildReceipt
  <2>3. mem' = mem
    BY <2>1 DEF BuildReceipt
  <2> QED BY <2>2, <2>3, FrozenGround DEF FilesType
<1>3. Sealed(mem'[p]) => AtRest(p)'
  BY CalmStep, Sealing
<1> QED BY <1>1, <1>2, <1>3, EndedPlaces, ReportedPlaces DEF FrozenPlaces, At

\* FrozenInv is inductive as long as what was checked before the lock holds.
LEMMA FrozenKept ==
  ASSUME LockInv, CycleInv, Unborn, Assured, Timely, [Next]_vars
  PROVE  FrozenInv'
<1> DEFINE Docs == \A c \in Cycles : Kept(doc'[c], files'[c])
           Copies == \A q \in Procs : Running(q)' =>
             Kept(mem'[q], files'[Cyc(q)']) /\ FrozenPlaces(q)'
<1>1. ASSUME NEW p \in Procs, Works(p) PROVE Docs /\ Copies
  <2>1. \A c \in Cycles \ {Cyc(p)} : doc'[c] = doc[c] /\ files'[c] = files[c]
    BY <1>1 DEF Works, Data, World
  <2>2. \A d \in {doc[Cyc(p)], mem'[p]} : Kept(d, files'[Cyc(p)])
    BY <1>1, KeptDocs
  <2>3. doc'[Cyc(p)] \in {doc[Cyc(p)], mem'[p]} /\ Cyc(p)' = Cyc(p)
    BY <1>1, FrozenGround
  <2>4. Docs
    BY <2>1, <2>2, <2>3 DEF Assured, FrozenInv
  <2>5. Copies
    BY <1>1, <2>2, <2>3, FrozenPlacesKept DEF Works
  <2> QED BY <2>4, <2>5
<1>2. ASSUME NEW p \in Procs, Starts(p) PROVE Docs /\ Copies
  <2>1. /\ Cyc(p) \in Cycles /\ Cyc(p)' = Cyc(p) /\ files' = files /\ doc[Cyc(p)] = NoDoc
        /\ Running(p)' => pc'[p] = "startLatest"
    BY <1>2 DEF Starts, Unborn, world, Cyc, Running
  <2>2. ASSUME NEW d \in NewDocs \cup {NoDoc} PROVE ~Sealed(d)
    <3>1. CASE d \in NewDocs
      <4>1. PICK mode \in Modes : d = [NoDoc EXCEPT !.stage = "new", !.mode = mode]
        BY <3>1 DEF NewDocs
      <4> QED BY <4>1 DEF NoDoc, Sealed, Keys
    <3>2. CASE d = NoDoc
      BY <3>2 DEF NoDoc, Sealed, Keys
    <3> QED BY <2>2, <3>1, <3>2
  <2>3. doc'[Cyc(p)] \in NewDocs \cup {NoDoc} /\ mem'[p] \in NewDocs
    BY <1>2, <2>1 DEF Starts
  <2>4. Docs
    BY <1>2, <2>1, <2>2, <2>3 DEF Starts, Assured, FrozenInv, Kept
  <2>5. Copies
    BY <1>2, <2>1, <2>2, <2>3 DEF Starts, Kept, FrozenPlaces, Signing, Unreported, At
  <2> QED BY <2>4, <2>5
<1>3. ASSUME Quiet PROVE Docs /\ Copies
  <2>1. doc' = doc /\ files' = files
    BY <1>3 DEF Quiet, world
  <2>2. Docs
    BY <2>1 DEF Assured, FrozenInv
  <2>3. ASSUME NEW q \in Procs, Running(q)'
        PROVE  Kept(mem'[q], files'[Cyc(q)']) /\ FrozenPlaces(q)'
    <3>1. CASE Running(q) /\ Stays(q)
      <4>1. Kept(mem[q], files[Cyc(q)]) /\ FrozenPlaces(q)
        BY <3>1 DEF Assured, FrozenInv
      <4>2. /\ Cyc(q)' = Cyc(q) /\ mem'[q] = mem[q] /\ Heading(q)' = Heading(q)
            /\ pc'[q] = pc[q]
        BY <3>1 DEF Stays, Cyc, Heading
      <4> QED BY <2>1, <4>1, <4>2 DEF FrozenPlaces, AtRest, At
    <3>2. CASE Enters(q)
      <4>1. /\ Cyc(q) \in Cycles /\ Cyc(q)' = Cyc(q) /\ mem'[q] = doc[Cyc(q)]
            /\ pc'[q] \in {"ensureRun", "event"} /\ Heading(q)' \in Calm
        BY <3>2 DEF Enters, Body, Ops, Heading, Shared, Calm
      <4>2. FrozenPlaces(q)'
        BY <4>1 DEF FrozenPlaces, AtRest, Signing, Unreported, Advancing, At
      <4> QED BY <2>1, <2>2, <4>1, <4>2
    <3> QED BY <1>3, <2>3, <3>1, <3>2 DEF Quiet
  <2> QED BY <2>2, <2>3
<1>4. Docs /\ Copies
  <2> HIDE DEF Docs, Copies
  <2> QED BY <1>1, <1>2, <1>3, StepKinds
<1> QED BY <1>4 DEF FrozenInv

\* Every reachable state has FrozenInv, if no check is outrun.
LEMMA FrozenInvariance == Spec /\ []Timely => []FrozenInv
<1>1. Init => FrozenInv
  BY DEF Init, ServiceInit, FrozenInv, Kept, Sealed, NoDoc, Keys, Running, Critical, Outside
<1>2. LockInv /\ CycleInv /\ Unborn /\ (ClaimInv /\ Agreement /\ AuthorityInv /\ EvidenceInv)
        /\ ReportInv /\ PhaseInv /\ ConsequenceInv /\ ReceiptInv /\ RunInv /\ FrozenInv
        /\ Timely /\ [Next]_vars => FrozenInv'
  BY FrozenKept DEF Assured, Grounds, Footing
<1> QED BY <1>1, <1>2, LockInvariant, CycleInvariance, UnbornInvariance, ClaimInvariance,
     AgreementInvariance, FootingInvariance, ReportInvariance, PhaseInvariance,
     ConsequenceInvariance, ReceiptInvariance, RunInvariance, PTL DEF Spec

\* What was signed is what the document still says, whatever is resumed,
\* repeated or cut off afterwards and by however many invocations: only an
\* Execute or a Review that saw the cycle before another one moved it on, and
\* was granted the lock after that, can change a cycle that is signed
\* (finalizeReceipt builds the content before the signature is known).
THEOREM SignedStands == Spec /\ []Timely => []SignedFrozen
<1>1. FrozenInv /\ ReceiptInv => SignedFrozen
  BY DEF FrozenInv, ReceiptInv, Receipt, Kept, Sealed, SignedFrozen, Signed
<1> QED BY <1>1, FrozenInvariance, ReceiptInvariance, PTL

-----------------------------------------------------------------------------
(* With one invocation at a time no check is outrun. *)

Unhurried == Prompt /\ Timely
Alone == \A p, q \in Procs : p = q

\* A handler keeps what its operation saw before it had the lock.
LEMMA UnhurriedWorks ==
  ASSUME NEW p \in Procs, Works(p), Footing, Timely, Alone
  PROVE  Unhurried'
<1> DEFINE c == Cyc(p)
           m == mem[p]
           n == mem'[p]
<1>1. /\ c \in Cycles /\ Cyc(p)' = c /\ job'[p].op = job[p].op /\ doc'[c] \in {doc[c], n}
      /\ Agree(m, doc[c]) /\ Edits(pc[p], m, n) /\ OpPlaces(p) /\ m.stage = doc[c].stage
  BY FootingGround, WorkTypes DEF Works
<1>2. Prompt'
  <2>1. pc'[p] # "acquire"
    BY DEF Works, Control, Outside
  <2> QED BY <2>1 DEF Prompt, At, Alone
<1>3. ASSUME Heading(p)' \in Checked PROVE Ready(job'[p].op, doc'[c])
  <2>1. pc[p] \in Shared /\ Toward(p, Checked)
    BY <1>3, Returns DEF Bound, Checked, Toward
  <2>2. job[p].op \in Checked /\ Ready(job[p].op, doc[c])
    BY <1>1, <2>1 DEF Timely, OpPlaces, Toward, Checked
  <2>3. n.stage = doc[c].stage
    BY <1>1, <2>1, StageStep
  <2>4. n.final = doc[c].final
    BY <1>1, <2>1 DEF Edits, Agree, Shared
  <2>5. n.key["benchmark:attempt"] = doc[c].key["benchmark:attempt"]
    BY <2>1, EvidenceMarks DEF Shared
  <2> QED BY <1>1, <2>2, <2>3, <2>4, <2>5 DEF Ready, ExecuteReady, ReviewReady, Checked
<1> QED BY <1>1, <1>2, <1>3 DEF Unhurried, Timely, Toward, Alone

\* So does every other step of the only invocation.
LEMMA UnhurriedOthers ==
  ASSUME NEW p \in Procs, CycleInv, Unhurried, Alone, doc' = doc,
         Command(p) \/ Precheck(p) \/ Acquire(p) \/ Release(p) \/ Crash(p)
  PROVE  Unhurried'
<1> DEFINE Waits == At(p, "acquire")' /\ job'[p].op \in Checked
           Ready2 == Ready(job'[p].op, doc'[Cyc(p)'])
<1>1. TypeOK
  BY DEF CycleInv
<1> SUFFICES Waits \/ Heading(p)' \in Checked => Ready2
  BY DEF Unhurried, Prompt, Timely, Toward, Alone
<1>2. ASSUME pc'[p] \in {"idle", "check", "release"}
      PROVE  ~Waits /\ Heading(p)' \notin Checked
  BY <1>2 DEF At, Heading, Shared, Checked
<1>3. CASE Command(p)
  <2>1. PICK c \in Cycles : RunCycle(p, c) \/ RunDecision(p, c) \/ RunResume(p, c)
    BY <1>3 DEF Command
  <2>2. ASSUME NEW op, NEW input, NEW l \in {"check", "acquire"}, Invoke(p, op, c, input, l),
               l = "acquire" => op \notin Checked
        PROVE  ~Waits /\ Heading(p)' \notin Checked
    <3>1. pc'[p] = l /\ job'[p].op = op
      BY <1>1, <2>2 DEF TypeOK, Invoke, Continue, Goto, NoJob
    <3> QED BY <1>2, <2>2, <3>1 DEF At, Heading, Shared, Checked
  <2>3. CASE RunCycle(p, c)
    BY <2>2, <2>3 DEF RunCycle, Checked
  <2>4. CASE RunDecision(p, c)
    <3>1. PICK op \in Decisions, terms \in {"none", "other"} : Invoke(p, op, c, terms, "acquire")
      BY <2>4 DEF RunDecision
    <3> QED BY <2>2, <3>1, DecisionsAssumption DEF Checked
  <2>5. CASE RunResume(p, c)
    <3>1. \E l \in {"check", "acquire"} :
            /\ Invoke(p, Route(doc[c]), c, "none", l)
            /\ l = "acquire" => Route(doc[c]) \notin Checked
      BY <2>5 DEF RunResume, Checked
    <3> QED BY <2>2, <3>1
  <2> QED BY <2>1, <2>3, <2>4, <2>5
<1>4. CASE Precheck(p)
  <2>1. CASE pc' = [pc EXCEPT ![p] = "idle"]
    BY <1>1, <1>2, <2>1 DEF TypeOK
  <2>2. CASE Ready(job[p].op, doc[Cyc(p)]) /\ job' = job
    BY <2>2 DEF Cyc
  <2> QED BY <1>4, <2>1, <2>2 DEF Precheck, Continue, Raise, Goto
<1>5. CASE Acquire(p)
  <2>1. CASE \E l \in {"idle", "release"} : pc' = [pc EXCEPT ![p] = l]
    BY <1>1, <1>2, <2>1 DEF TypeOK
  <2>2. CASE Call(p, Body[job[p].op], job[p].op)
    <3>1. /\ pc[p] = "acquire" /\ job[p].op \in Ops
          /\ pc'[p] = Body[job[p].op] /\ job'[p].ret = job[p].op
          /\ job'[p].op = job[p].op /\ Cyc(p)' = Cyc(p)
      BY <1>1, <1>5, <2>2 DEF CycleInv, ControlOK, Registers, Acquire, At, TypeOK, Call, Goto,
         Jobs, Cyc
    <3>2. ~Waits /\ (Heading(p)' \in Checked => job[p].op \in Checked)
      BY <3>1 DEF Body, Ops, Heading, Shared, At, Checked
    <3> QED BY <3>1, <3>2 DEF Unhurried, Prompt, At
  <2> QED BY <1>5, <2>1, <2>2 DEF Acquire, Continue, Raise, Goto
<1>6. CASE Release(p) \/ Crash(p)
  <2>1. pc' = [pc EXCEPT ![p] = "idle"]
    BY <1>6 DEF Release, Crash, Continue, Raise, Goto
  <2> QED BY <1>1, <1>2, <2>1 DEF TypeOK
<1> QED BY <1>3, <1>4, <1>5, <1>6

\* What is checked before the lock is asked for holds until it is used.
LEMMA UnhurriedKept ==
  ASSUME LockInv, CycleInv, Footing, Unhurried, Alone, [Next]_vars
  PROVE  Unhurried'
<1>1. ASSUME NEW p \in Procs, Handler(p) PROVE Unhurried'
  <2>1. CASE pc[p] = "start"
    <3>1. pc'[p] \in {"startLatest", "release"}
      BY <1>1, <2>1, HandlerStarts DEF Starts
    <3> QED BY <3>1 DEF Unhurried, Prompt, Timely, Toward, Heading, Shared, At, Checked, Alone
  <2>2. CASE pc[p] # "start"
    BY <1>1, <2>2, HandlerWorks, UnhurriedWorks DEF Unhurried
  <2> QED BY <2>1, <2>2
<1>2. ASSUME NEW p \in Procs, Command(p) \/ Precheck(p) \/ Acquire(p) \/ Release(p) \/ Crash(p)
      PROVE  Unhurried'
  <2>1. doc' = doc
    BY <1>2 DEF Command, RunCycle, RunDecision, RunResume, Precheck, Acquire, Release, Crash
  <2> QED BY <1>2, <2>1, UnhurriedOthers
<1>3. CASE UNCHANGED vars \/ ReclaimLock
  <2>1. UNCHANGED <<doc, pc, job>>
    BY <1>3 DEF vars, ReclaimLock
  <2> QED BY <2>1 DEF Unhurried, Prompt, Timely, Toward, Heading, At, Cyc
<1> QED BY <1>1, <1>2, <1>3 DEF Next, Step, ServiceStep, Handler

\* One invocation at a time, each perhaps cut off and followed by another.
LEMMA AloneUnhurried ==
  ASSUME Alone
  PROVE  Spec => []Unhurried
<1>1. Init => Unhurried
  BY DEF Init, ServiceInit, Unhurried, Prompt, Timely, Toward, Heading, Shared, At, Checked
<1>2. LockInv /\ CycleInv /\ (ClaimInv /\ Agreement /\ AuthorityInv /\ EvidenceInv)
        /\ Unhurried /\ [Next]_vars => Unhurried'
  BY UnhurriedKept DEF Footing
<1> QED BY <1>1, <1>2, LockInvariant, CycleInvariance, ClaimInvariance, AgreementInvariance,
     FootingInvariance, PTL DEF Spec

\* For invocations that follow one another, each perhaps cut off anywhere,
\* what was signed is what the document still says, without a condition.
THEOREM SignedStandsAlone ==
  ASSUME Alone
  PROVE  Spec => []SignedFrozen
<1>1. Unhurried => Timely
  BY DEF Unhurried
<1> QED BY <1>1, AloneUnhurried, SignedStands, PTL

=============================================================================
