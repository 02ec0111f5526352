----------------------------- MODULE StepProofs -----------------------------
(***************************************************************************)
(* What every step of a handler does: to the documents, which stay         *)
(* documents and whose stages take only edges of domain.ValidateTransition; *)
(* to the services, whose records keep their types; and to the control,    *)
(* which goes on to a label of the same operation with the registers that  *)
(* label relies on.  One lemma per module of the model for each.           *)
(***************************************************************************)
EXTENDS CycleInvariant, TLAPS

-----------------------------------------------------------------------------
(* The documents. *)

\* A document n that the label l may make of m without changing the stage.
Same(l, n, m) == Edits(l, m, n) /\ n.stage = m.stage

\* Writing a field of a document at a label that may write it: first the
\* flags, then the other fields.
LEMMA FlagDoc ==
  ASSUME NEW m \in CycleDoc, NEW l
  PROVE  /\ Same(l, m, m)
         /\ l = "ensureRunSave" => Same(l, [m EXCEPT !.run = TRUE], m)
         /\ l = "register" => Same(l, [m EXCEPT !.observed = TRUE], m)
         /\ Same(l, [m EXCEPT !.bead = TRUE], m)
         /\ l = "approve" => Same(l, [m EXCEPT !.approved = TRUE], m)
         /\ l = "decline" => Same(l, [m EXCEPT !.declined = TRUE], m)
         /\ Same(l, [m EXCEPT !.execution = TRUE], m)
         /\ Same(l, [m EXCEPT !.promotion = TRUE], m)
         /\ l = "collect" => \A b \in BOOLEAN : Same(l, [m EXCEPT !.transcript = b], m)
<1> USE DEF CycleDoc, Same, Edits
<1>1. Same(l, m, m)
  OBVIOUS
<1>2. l = "ensureRunSave" => Same(l, [m EXCEPT !.run = TRUE], m)
  OBVIOUS
<1>3. l = "register" => Same(l, [m EXCEPT !.observed = TRUE], m)
  OBVIOUS
<1>4. Same(l, [m EXCEPT !.bead = TRUE], m)
  OBVIOUS
<1>5. l = "approve" => Same(l, [m EXCEPT !.approved = TRUE], m)
  OBVIOUS
<1>6. l = "decline" => Same(l, [m EXCEPT !.declined = TRUE], m)
  OBVIOUS
<1>7. Same(l, [m EXCEPT !.execution = TRUE], m)
  OBVIOUS
<1>8. Same(l, [m EXCEPT !.promotion = TRUE], m)
  OBVIOUS
<1>9. l = "collect" => \A b \in BOOLEAN : Same(l, [m EXCEPT !.transcript = b], m)
  OBVIOUS
<1> QED BY <1>1, <1>2, <1>3, <1>4, <1>5, <1>6, <1>7, <1>8, <1>9

\* Fields with values of other types.
LEMMA FieldDoc ==
  ASSUME NEW m \in CycleDoc, NEW l
  PROVE  /\ \A v \in Judged : Same(l, [m EXCEPT !.judged = v], m)
         /\ l \in {"benchmark", "measure"} =>
              \A v \in Measured : Same(l, [m EXCEPT !.measured = v], m)
         /\ l = "roadmapSave" => \A v \in RoadmapView : Same(l, [m EXCEPT !.roadmap = v], m)
         /\ l = "acceptSave" => \A v \in Nat : Same(l, [m EXCEPT !.signed = v], m)
         /\ l = "receiptSave" => \A v \in Nat : Same(l, [m EXCEPT !.digest = v], m)
         /\ l = "eventSave" /\ m.stage \in Stages =>
              Same(l, [m EXCEPT !.events = @ \cup {m.stage}], m)
         /\ l = "resolve" =>
              \A v, w \in MaybeVerdict : m.final \in {"none", w} =>
                Same(l, [m EXCEPT !.review = v, !.final = w], m)
         /\ l \in {"feedback", "feedbackSave"} =>
              \A d \in Discoveries, v \in Marks :
                m.feedback[d] # "completed" => Same(l, [m EXCEPT !.feedback[d] = v], m)
<1> USE DEF CycleDoc, Same, Edits
<1>1. \A v \in Judged : Same(l, [m EXCEPT !.judged = v], m)
  OBVIOUS
<1>2. l \in {"benchmark", "measure"} =>
       \A v \in Measured : Same(l, [m EXCEPT !.measured = v], m)
  OBVIOUS
<1>3. l = "roadmapSave" => \A v \in RoadmapView : Same(l, [m EXCEPT !.roadmap = v], m)
  OBVIOUS
<1>4. l = "acceptSave" => \A v \in Nat : Same(l, [m EXCEPT !.signed = v], m)
  OBVIOUS
<1>5. l = "receiptSave" => \A v \in Nat : Same(l, [m EXCEPT !.digest = v], m)
  OBVIOUS
<1>6. l = "eventSave" /\ m.stage \in Stages =>
       Same(l, [m EXCEPT !.events = @ \cup {m.stage}], m)
  OBVIOUS
<1>7. l = "resolve" =>
       \A v, w \in MaybeVerdict : m.final \in {"none", w} =>
         Same(l, [m EXCEPT !.review = v, !.final = w], m)
  <2> SUFFICES ASSUME l = "resolve", NEW v \in MaybeVerdict, NEW w \in MaybeVerdict,
                      m.final \in {"none", w}
               PROVE  Same(l, [m EXCEPT !.review = v, !.final = w], m)
    OBVIOUS
  <2> DEFINE n == [m EXCEPT !.review = v, !.final = w]
  <2>1. /\ n \in CycleDoc /\ n.feedback = m.feedback /\ n.stage = m.stage /\ n.mode = m.mode
        /\ n.run = m.run /\ n.observed = m.observed /\ n.approved = m.approved
        /\ n.declined = m.declined /\ n.transcript = m.transcript /\ n.measured = m.measured
        /\ n.final = w /\ n.roadmap = m.roadmap /\ n.signed = m.signed
        /\ n.digest = m.digest /\ n.events = m.events /\ n.key = m.key
    OBVIOUS
  <2> HIDE DEF n
  <2> QED BY <2>1
<1>8. l \in {"feedback", "feedbackSave"} =>
       \A d \in Discoveries, v \in Marks :
         m.feedback[d] # "completed" => Same(l, [m EXCEPT !.feedback[d] = v], m)
  <2> SUFFICES ASSUME l \in {"feedback", "feedbackSave"}, NEW d \in Discoveries,
                      NEW v \in Marks, m.feedback[d] # "completed"
               PROVE  Same(l, [m EXCEPT !.feedback[d] = v], m)
    OBVIOUS
  <2> DEFINE g == [m.feedback EXCEPT ![d] = v]
             n == [m EXCEPT !.feedback = g]
  <2>1. g \in [Discoveries -> Marks] /\ \A e \in Discoveries \ {d} : g[e] = m.feedback[e]
    OBVIOUS
  <2> HIDE DEF g
  <2>2. /\ n \in CycleDoc /\ n.feedback = g /\ n.stage = m.stage /\ n.mode = m.mode
        /\ n.run = m.run /\ n.observed = m.observed /\ n.approved = m.approved
        /\ n.declined = m.declined /\ n.transcript = m.transcript /\ n.measured = m.measured
        /\ n.review = m.review /\ n.final = m.final /\ n.roadmap = m.roadmap /\ n.signed = m.signed
        /\ n.digest = m.digest /\ n.events = m.events /\ n.key = m.key
    BY <2>1
  <2>3. n = [m EXCEPT !.feedback[d] = v]
    BY DEF g
  <2> HIDE DEF n
  <2>4. \A e \in Discoveries : m.feedback[e] = "completed" => n.feedback[e] = "completed"
    BY <2>1, <2>2
  <2>5. Same(l, n, m)
    BY <2>2, <2>4
  <2> QED BY <2>3, <2>5
<1> QED BY <1>1, <1>2, <1>3, <1>4, <1>5, <1>6, <1>7, <1>8

\* Writing a key at a label that may write it.
Writes(l, k) == k \in Keys /\ <<l, k>> \in KeyWriters
LEMMA SetKeyDoc ==
  ASSUME NEW l, NEW m \in CycleDoc, NEW n, Same(l, n, m), NEW k, Writes(l, k),
         NEW v \in Marks, v # "none" \/ k = "roadmap:sync",
         k \notin Lasting \/ v = "completed" \/ m.key[k] # "completed"
  PROVE  Same(l, SetKey(n, k, v), m)
<1> DEFINE x == SetKey(n, k, v)
<1>1. n \in CycleDoc /\ k \in Keys
  BY DEF Same, Edits, Writes
<1>2. x \in CycleDoc
  BY <1>1 DEF CycleDoc, SetKey
<1>3. /\ x.stage = n.stage /\ x.mode = n.mode /\ x.run = n.run /\ x.observed = n.observed
      /\ x.approved = n.approved /\ x.declined = n.declined /\ x.transcript = n.transcript
      /\ x.measured = n.measured /\ x.review = n.review /\ x.final = n.final
      /\ x.roadmap = n.roadmap /\ x.signed = n.signed /\ x.digest = n.digest
      /\ x.feedback = n.feedback /\ x.events = n.events
  BY <1>1 DEF CycleDoc, SetKey
<1>4. x.key[k] = v /\ \A j \in Keys \ {k} : x.key[j] = n.key[j]
  BY <1>1 DEF CycleDoc, SetKey
<1> HIDE DEF x
<1>5. \A j \in Keys : x.key[j] # m.key[j] => <<l, j>> \in KeyWriters
  BY <1>1, <1>4 DEF Same, Edits, Writes
<1>6. \A j \in Keys \ {"roadmap:sync"} : m.key[j] # "none" => x.key[j] # "none"
  BY <1>1, <1>4 DEF Same, Edits
<1>7. Lasting \subseteq Keys
  BY DEF Lasting, Keys
<1>8. \A j \in Lasting : m.key[j] = "completed" => x.key[j] = "completed"
  BY <1>1, <1>4, <1>7 DEF Same, Edits
<1> QED BY <1>2, <1>3, <1>5, <1>6, <1>8 DEF Same, Edits, x

\* What is remembered before it is saved, or left to fail.
LEMMA AgreeDoc ==
  ASSUME NEW m \in CycleDoc
  PROVE  /\ Agree(m, m)
         /\ Agree([m EXCEPT !.bead = TRUE], m)
         /\ Agree([m EXCEPT !.observed = TRUE], m)
         /\ \A v \in Judged : Agree([m EXCEPT !.judged = v], m)
         /\ \A v \in Measured : Agree([m EXCEPT !.measured = v], m)
<1>1. Agree(m, m)
  BY DEF Agree
<1>2. Agree([m EXCEPT !.bead = TRUE], m)
  BY DEF Agree, CycleDoc
<1>3. Agree([m EXCEPT !.observed = TRUE], m)
  BY DEF Agree, CycleDoc
<1>4. \A v \in Judged : Agree([m EXCEPT !.judged = v], m)
  BY DEF Agree, CycleDoc
<1>5. \A v \in Measured : Agree([m EXCEPT !.measured = v], m)
  BY DEF Agree, CycleDoc
<1> QED BY <1>1, <1>2, <1>3, <1>4, <1>5

\* The keys of what fail saves.
LEMMA AgreeKey ==
  ASSUME NEW m \in CycleDoc, NEW n \in CycleDoc, Agree(n, m),
         NEW k \in LooseKeys, NEW v
  PROVE  Agree(SetKey(n, k, v), m)
BY DEF Agree, CycleDoc, SetKey

\* Every key is written where KeyWriters says.
LEMMA KeysWritten ==
  /\ Writes("capture", "observation:capture")
  /\ Writes("registerDone", "observation:capture")
  /\ Writes("register", "replay:observation")
  /\ Writes("registerDone", "replay:observation")
  /\ Writes("judge", "judgment:attempt1")
  /\ Writes("judgeFirstSave", "judgment:attempt1")
  /\ Writes("judge", "judgment:retry")
  /\ Writes("judgeFirst", "judgment:retry")
  /\ Writes("judgeAgain", "judgment:retry")
  /\ Writes("judgmentReject", "judgment:retry")
  /\ Writes("judgmentFilter", "judgment:retry")
  /\ Writes("judgmentWrite", "judgment:retry")
  /\ Writes("snapshotRegister", "replay:proposal-backlog")
  /\ Writes("snapshotDone", "replay:proposal-backlog")
  /\ Writes("declineSave", "decline:close")
  /\ Writes("execute", "execution:prepared")
  /\ Writes("executeAttempt", "execution:attempt")
  /\ Writes("collect", "execution:attempt")
  /\ Writes("benchmark", "benchmark:attempt")
  /\ Writes("measured", "benchmark:attempt")
  /\ Writes("review", "review:attempt")
  /\ Writes("resolve", "review:attempt")
  /\ Writes("promoteSave", "backlog:promotion")
  /\ Writes("closeSave", "backlog:close")
  /\ Writes("outcomeSave", "outcome:state")
  /\ Writes("roadmap", "roadmap:sync")
  /\ Writes("roadmapUndo", "roadmap:sync")
  /\ Writes("roadmapSave", "roadmap:sync")
  /\ Writes("terminalize", "run:terminal")
  /\ Writes("receiptSave", "receipt:attempt")
  /\ Writes("acceptSave", "receipt:attempt")
  /\ \A k \in RunKeys \cup TerminalKeys : Writes("advance", k) /\ Writes("advanceSave", k)
<1> USE DEF Writes, Keys, KeyWriters
<1>1. Writes("capture", "observation:capture")
  OBVIOUS
<1>2. Writes("registerDone", "observation:capture")
  OBVIOUS
<1>3. Writes("register", "replay:observation")
  OBVIOUS
<1>4. Writes("registerDone", "replay:observation")
  OBVIOUS
<1>5. Writes("judge", "judgment:attempt1")
  OBVIOUS
<1>6. Writes("judgeFirstSave", "judgment:attempt1")
  OBVIOUS
<1>7. Writes("judge", "judgment:retry")
  OBVIOUS
<1>8. Writes("judgeFirst", "judgment:retry")
  OBVIOUS
<1>9. Writes("judgeAgain", "judgment:retry")
  OBVIOUS
<1>10. Writes("judgmentReject", "judgment:retry")
  OBVIOUS
<1>11. Writes("judgmentFilter", "judgment:retry")
  OBVIOUS
<1>12. Writes("judgmentWrite", "judgment:retry")
  OBVIOUS
<1>13. Writes("snapshotRegister", "replay:proposal-backlog")
  OBVIOUS
<1>14. Writes("snapshotDone", "replay:proposal-backlog")
  OBVIOUS
<1>15. Writes("declineSave", "decline:close")
  OBVIOUS
<1>16. Writes("execute", "execution:prepared")
  OBVIOUS
<1>17. Writes("executeAttempt", "execution:attempt")
  OBVIOUS
<1>18. Writes("collect", "execution:attempt")
  OBVIOUS
<1>19. Writes("benchmark", "benchmark:attempt")
  OBVIOUS
<1>20. Writes("measured", "benchmark:attempt")
  OBVIOUS
<1>21. Writes("review", "review:attempt")
  OBVIOUS
<1>22. Writes("resolve", "review:attempt")
  OBVIOUS
<1>23. Writes("promoteSave", "backlog:promotion")
  OBVIOUS
<1>24. Writes("closeSave", "backlog:close")
  OBVIOUS
<1>25. Writes("outcomeSave", "outcome:state")
  OBVIOUS
<1>26. Writes("roadmap", "roadmap:sync")
  OBVIOUS
<1>27. Writes("roadmapUndo", "roadmap:sync")
  OBVIOUS
<1>28. Writes("roadmapSave", "roadmap:sync")
  OBVIOUS
<1>29. Writes("terminalize", "run:terminal")
  OBVIOUS
<1>30. Writes("receiptSave", "receipt:attempt")
  OBVIOUS
<1>31. Writes("acceptSave", "receipt:attempt")
  OBVIOUS
<1>32. \A k \in RunKeys \cup TerminalKeys : Writes("advance", k) /\ Writes("advanceSave", k)
  OBVIOUS
<1> QED
  BY <1>1, <1>2, <1>3, <1>4, <1>5, <1>6, <1>7, <1>8, <1>9, <1>10, <1>11, <1>12,
     <1>13, <1>14, <1>15, <1>16, <1>17, <1>18, <1>19, <1>20, <1>21, <1>22,
     <1>23, <1>24, <1>25, <1>26, <1>27, <1>28, <1>29, <1>30, <1>31, <1>32

\* The values a handler copies into a document have the field's type.
LEMMA HereTypes ==
  ASSUME NEW p \in Procs, Here(p)
  PROVE  /\ mem[p] \in CycleDoc /\ mem[p].stage \in Stages
         /\ files[Cyc(p)].measurement \in Measured
         /\ files[Cyc(p)].roadmap \in RoadmapView
         /\ files[Cyc(p)].digest \in Nat /\ files[Cyc(p)].signature \in Nat
         /\ Same(pc[p], mem[p], mem[p]) /\ Agree(mem[p], mem[p])
<1>1. mem[p] \in CycleDoc /\ files[Cyc(p)] \in FilesType
  BY DEF Here, TypeOK
<1>2. mem[p].stage \in Stages
  BY <1>1 DEF Here, Coherent, CycleDoc
<1> QED BY <1>1, <1>2, FlagDoc, AgreeDoc DEF FilesType

\* Opening or completing an attempt in the copy of p.
LEMMA KeyDoc ==
  ASSUME NEW p \in Procs, Here(p), NEW k, Writes(pc[p], k), NEW v \in {"started", "completed"},
         k \notin Lasting \/ v = "completed" \/ mem[p].key[k] # "completed"
  PROVE  /\ Same(pc[p], SetKey(mem[p], k, v), mem[p])
         /\ k \in LooseKeys => Agree(SetKey(mem[p], k, v), mem[p])
<1>1. v \in Marks /\ v # "none"
  BY DEF Marks
<1>2. Same(pc[p], SetKey(mem[p], k, v), mem[p])
  BY <1>1, HereTypes, SetKeyDoc
<1>3. k \in LooseKeys => Agree(SetKey(mem[p], k, v), mem[p])
  BY HereTypes, AgreeKey
<1> QED BY <1>2, <1>3

\* A step that touches no document.
LEMMA QuietData ==
  ASSUME NEW p \in Procs, Here(p), UNCHANGED <<doc, mem>>
  PROVE  Data(p)
BY HereTypes DEF Here, TypeOK, Data, Coherent, Same, Saves

\* A step that changes only the copy in memory, as BuildReceipt does.
LEMMA RememberData ==
  ASSUME NEW p \in Procs, Here(p), UNCHANGED doc,
         NEW m, Same(pc[p], m, mem[p]), Agree(m, mem[p]), Remember(p, m)
  PROVE  Data(p)
BY DEF Here, TypeOK, Data, Coherent, Same, Remember, Saves, Edits

\* persist of a document whose stage is the old one, with or without effect.
LEMMA PersistData ==
  ASSUME NEW p \in Procs, Here(p),
         NEW m, Same(pc[p], m, mem[p]),
         NEW next, NEW onError, Persist(p, m, next, onError),
         onError = "release" \/ Agree(m, mem[p])
  PROVE  Data(p)
<1>1. mem' = [mem EXCEPT ![p] = m] /\ m \in CycleDoc
  BY DEF Persist, Remember, Same, Edits
<1>2. mem'[p] = m /\ mem' \in [Procs -> CycleDoc] /\ \A q \in Procs \ {p} : mem'[q] = mem[q]
  BY <1>1 DEF Here, TypeOK
<1>3. doc' = [doc EXCEPT ![Cyc(p)] = m] \/ doc' = doc
  BY DEF Persist
<1>4. doc' # [doc EXCEPT ![Cyc(p)] = m] => pc'[p] = onError
  BY DEF Here, TypeOK, Persist, Raise, Goto
<1>5. doc'[Cyc(p)] = m \/ (doc' = doc /\ (pc'[p] = "release" \/ Agree(m, mem[p])))
  <2>1. CASE doc' = [doc EXCEPT ![Cyc(p)] = m]
    BY <2>1 DEF Here, TypeOK
  <2>2. CASE doc' # [doc EXCEPT ![Cyc(p)] = m]
    BY <1>3, <1>4, <2>2
  <2> QED BY <2>1, <2>2
<1>6. Saves(p)
  BY <1>2, <1>3, <1>5 DEF Here, TypeOK, Saves, Same
<1> QED BY <1>1, <1>2, <1>3, <1>6 DEF Here, TypeOK, Data, Coherent, Same

\* transition: the edge is legal, or nothing is written.
LEMMA TransitionData ==
  ASSUME NEW p \in Procs, Here(p),
         NEW m, Same(pc[p], m, mem[p]),
         NEW next \in Stages, NEW k, Transition(p, m, next, k),
         <<pc[p], next>> \in StageWriters
  PROVE  Data(p)
<1>1. Absent \notin Stages
  BY DEF Absent, Stages
<1>2. CASE ~ValidateTransition(m.stage, next)
  BY <1>2 DEF Transition, Here, TypeOK, Data, Coherent, Same, Remember, Continue, Goto,
     Saves, Edits
<1>3. CASE ValidateTransition(m.stage, next)
  <2> DEFINE moved == [m EXCEPT !.stage = next]
  <2>1. moved \in CycleDoc /\ moved.stage = next
    BY DEF CycleDoc, Same, Edits
  <2>2. Edits(pc[p], mem[p], moved)
    BY DEF CycleDoc, Same, Edits
  <2>3. Persist(p, moved, "event", "release")
    BY <1>3 DEF Transition
  <2> HIDE DEF moved
  <2>4. /\ mem'[p] = moved /\ mem' \in [Procs -> CycleDoc]
        /\ \A q \in Procs \ {p} : mem'[q] = mem[q]
    BY <2>1, <2>3 DEF Here, TypeOK, Persist, Remember
  <2>5. \/ doc' = [doc EXCEPT ![Cyc(p)] = moved]
        \/ doc' = doc /\ pc'[p] = "release"
    BY <2>3 DEF Here, TypeOK, Persist, Raise, Goto
  <2>6. pc'[p] \in {"event", "release"}
    BY <2>3 DEF Here, TypeOK, Persist, Continue, Raise, Goto
  <2>7. Saves(p)
    BY <1>3, <2>1, <2>2, <2>4, <2>5, <2>6 DEF Here, TypeOK, Saves, Same
  <2> QED
    BY <1>1, <1>3, <2>1, <2>4, <2>5, <2>7 DEF Here, TypeOK, Data, Coherent, Same
<1> QED BY <1>2, <1>3

\* Documents: the shared procedures.
LEMMA ServiceData ==
  ASSUME NEW p \in Procs, Here(p),
         \/ EnsureStageEvent(p) \/ SaveStageEvent(p) \/ Fail(p)
         \/ BeginAdvance(p) \/ AdvanceRun(p) \/ FinishAdvance(p)
  PROVE  Data(p)
<1>1. CASE EnsureStageEvent(p)
  BY <1>1, QuietData, HereTypes DEF EnsureStageEvent, Same
<1>2. CASE SaveStageEvent(p)
  <2> DEFINE m == [mem[p] EXCEPT !.events = @ \cup {mem[p].stage}]
  <2>1. Same(pc[p], m, mem[p])
    BY <1>2, HereTypes, FieldDoc DEF SaveStageEvent, At
  <2>2. Persist(p, m, job[p].ret, "release")
    BY <1>2 DEF SaveStageEvent
  <2> HIDE DEF m
  <2> QED BY <2>1, <2>2, PersistData
<1>3. CASE Fail(p)
  <2>1. pc[p] = "fail"
    BY <1>3 DEF Fail, At
  <2> QED BY <2>1, <1>3, QuietData, TransitionData, HereTypes DEF Fail, Jump, Stages, StageWriters
<1>4. CASE BeginAdvance(p)
  <2> DEFINE k == job[p].adv
             m == SetKey(mem[p], k, "completed")
             n == SetKey(mem[p], k, "started")
  <2>1. k \in RunKeys \cup TerminalKeys /\ pc[p] = "advance"
    BY <1>4 DEF Here, Registers, BeginAdvance, At
  <2>2. Writes(pc[p], k) /\ k \notin Lasting
    BY <2>1, KeysWritten DEF Lasting, RunKeys, TerminalKeys
  <2>3. /\ \/ UNCHANGED <<doc, mem>>
           \/ Persist(p, m, job[p].ret, AdvanceError(k))
           \/ Persist(p, n, "advanceRun", AdvanceError(k))
        /\ AdvanceError(k) = "release" \/ k \in LooseKeys
    BY <1>4 DEF BeginAdvance, Jump, AdvanceError, LooseKeys
  <2> HIDE DEF k
  <2>4. /\ Same(pc[p], m, mem[p]) /\ (k \in LooseKeys => Agree(m, mem[p]))
        /\ Same(pc[p], n, mem[p]) /\ (k \in LooseKeys => Agree(n, mem[p]))
    BY <2>2, KeyDoc
  <2> HIDE DEF m, n
  <2> QED BY <2>3, <2>4, QuietData, PersistData
<1>5. CASE AdvanceRun(p)
  BY <1>5, QuietData DEF AdvanceRun
<1>6. CASE FinishAdvance(p)
  <2> DEFINE k == job[p].adv
             m == SetKey(mem[p], k, "completed")
  <2>1. k \in RunKeys \cup TerminalKeys /\ pc[p] = "advanceSave"
    BY <1>6 DEF Here, Registers, FinishAdvance, At
  <2>2. Writes(pc[p], k) /\ k \notin Lasting
    BY <2>1, KeysWritten DEF Lasting, RunKeys, TerminalKeys
  <2>3. /\ Persist(p, m, job[p].ret, AdvanceError(k))
        /\ AdvanceError(k) = "release" \/ k \in LooseKeys
    BY <1>6 DEF FinishAdvance, AdvanceError, LooseKeys
  <2> HIDE DEF k
  <2>4. Same(pc[p], m, mem[p]) /\ (k \in LooseKeys => Agree(m, mem[p]))
    BY <2>2, KeyDoc
  <2> HIDE DEF m
  <2> QED BY <2>3, <2>4, PersistData
<1> QED
  BY <1>1, <1>2, <1>3, <1>4, <1>5, <1>6

\* Documents: CycleObservation.
LEMMA ObservationData ==
  ASSUME NEW p \in Procs, Here(p),
         \/ StartLatest(p) \/ EnsureCycleRun(p) \/ SaveCycleRun(p)
         \/ ContinueObservation(p) \/ EnterObserving(p)
         \/ CaptureObservation(p) \/ Observe(p) \/ WriteObservation(p)
         \/ ClaimRegistration(p) \/ SendRegistration(p) \/ SaveObservation(p)
         \/ ClaimJudgment(p) \/ JudgeFirst(p) \/ SaveFirstAttempt(p)
         \/ FilterJudgment(p) \/ JudgeAgain(p) \/ SaveSecondAttempt(p)
         \/ RejectSecondAttempt(p) \/ WriteJudgment(p) \/ SaveJudgment(p)
         \/ AdvanceToRank(p) \/ EnterRanked(p) \/ FinishRanked(p)
  PROVE  Data(p)
<1>1. CASE StartLatest(p)
  BY <1>1, QuietData DEF StartLatest
<1>2. CASE EnsureCycleRun(p)
  BY <1>2, QuietData, HereTypes DEF EnsureCycleRun, Same
<1>3. CASE SaveCycleRun(p)
  <2> DEFINE m == [mem[p] EXCEPT !.run = TRUE]
  <2>1. Same(pc[p], m, mem[p])
    BY <1>3, HereTypes, FlagDoc DEF SaveCycleRun, At
  <2>2. Persist(p, m, "continue", "release")
    BY <1>3 DEF SaveCycleRun
  <2> HIDE DEF m
  <2> QED BY <2>1, <2>2, PersistData
<1>4. CASE ContinueObservation(p)
  BY <1>4, QuietData, HereTypes DEF ContinueObservation, Same
<1>5. CASE EnterObserving(p)
  <2>1. pc[p] = "observing"
    BY <1>5 DEF EnterObserving, At
  <2> QED BY <2>1, <1>5, QuietData, TransitionData, HereTypes DEF EnterObserving, Jump, Stages, StageWriters
<1>6. CASE CaptureObservation(p)
  <2> DEFINE m == SetKey(mem[p], "observation:capture", "started")
  <2>1. Same(pc[p], m, mem[p]) /\ Agree(m, mem[p])
    BY <1>6, KeyDoc, KeysWritten DEF CaptureObservation, At, Lasting, LooseKeys
  <2>2. UNCHANGED <<doc, mem>> \/ Persist(p, m, "observe", "fail")
    BY <1>6 DEF CaptureObservation, Jump
  <2> HIDE DEF m
  <2> QED BY <2>1, <2>2, QuietData, PersistData
<1>7. CASE Observe(p)
  BY <1>7, QuietData DEF Observe
<1>8. CASE WriteObservation(p)
  BY <1>8, QuietData DEF WriteObservation
<1>9. CASE ClaimRegistration(p)
  <2> DEFINE m == [mem[p] EXCEPT !.observed = TRUE]
             n == SetKey(m, "replay:observation", "started")
  <2>1. pc[p] = "register"
    BY <1>9 DEF ClaimRegistration, At
  <2>2. Same(pc[p], m, mem[p]) /\ Agree(m, mem[p])
    BY <2>1, HereTypes, FlagDoc, AgreeDoc
  <2>3. m \in CycleDoc
    BY <2>2 DEF Same, Edits
  <2>4. \/ Persist(p, n, "registerSend", "fail")
        \/ UNCHANGED doc /\ Remember(p, m)
    BY <1>9 DEF ClaimRegistration
  <2> HIDE DEF m
  <2>5. Same(pc[p], n, mem[p]) /\ Agree(n, mem[p])
    BY <2>1, <2>2, <2>3, HereTypes, SetKeyDoc, AgreeKey, KeysWritten DEF Lasting, LooseKeys, Marks
  <2> HIDE DEF n
  <2> QED BY <2>2, <2>4, <2>5, PersistData, RememberData
<1>10. CASE SendRegistration(p)
  BY <1>10, QuietData DEF SendRegistration
<1>11. CASE SaveObservation(p)
  <2> DEFINE m == SetKey(mem[p], "replay:observation", "completed")
             n == SetKey(m, "observation:capture", "completed")
  <2>1. pc[p] = "registerDone"
    BY <1>11 DEF SaveObservation, At
  <2>2. Same(pc[p], m, mem[p]) /\ Agree(m, mem[p]) /\ m \in CycleDoc
    BY <2>1, KeyDoc, KeysWritten DEF Lasting, LooseKeys, Same, Edits
  <2>3. Persist(p, n, "judge", "fail")
    BY <1>11 DEF SaveObservation
  <2> HIDE DEF m
  <2>4. Same(pc[p], n, mem[p]) /\ Agree(n, mem[p])
    BY <2>1, <2>2, HereTypes, SetKeyDoc, AgreeKey, KeysWritten DEF Lasting, LooseKeys, Marks
  <2> HIDE DEF n
  <2> QED BY <2>3, <2>4, PersistData
<1>12. CASE ClaimJudgment(p)
  <2> DEFINE m == SetKey(mem[p], "judgment:attempt1", "started")
             n == CloseRetry(mem[p])
  <2>1. pc[p] = "judge"
    BY <1>12 DEF ClaimJudgment, At
  <2>2. /\ Same(pc[p], m, mem[p]) /\ Agree(m, mem[p])
        /\ Same(pc[p], n, mem[p]) /\ Agree(n, mem[p])
    BY <2>1, KeyDoc, KeysWritten DEF Lasting, LooseKeys, CloseRetry
  <2>3. \/ UNCHANGED <<doc, mem>>
        \/ UNCHANGED doc /\ (Remember(p, n) \/ Remember(p, mem[p]))
        \/ Persist(p, m, "judgeFirst", "fail")
    BY <1>12 DEF ClaimJudgment, Jump
  <2> HIDE DEF m, n
  <2> QED BY <2>2, <2>3, QuietData, PersistData, RememberData, HereTypes
<1>13. CASE JudgeFirst(p)
  <2> DEFINE n == CloseRetry(mem[p])
  <2>1. pc[p] = "judgeFirst"
    BY <1>13 DEF JudgeFirst, InvokeJudge, At
  <2>2. Same(pc[p], n, mem[p]) /\ Agree(n, mem[p])
    BY <2>1, KeyDoc, KeysWritten DEF Lasting, LooseKeys, CloseRetry
  <2>3. UNCHANGED doc /\ (UNCHANGED mem \/ Remember(p, n) \/ Remember(p, mem[p]))
    BY <1>13 DEF JudgeFirst, InvokeJudge
  <2> HIDE DEF n
  <2> QED BY <2>2, <2>3, QuietData, RememberData, HereTypes
<1>14. CASE SaveFirstAttempt(p)
  <2> DEFINE m == SetKey(mem[p], "judgment:attempt1", "completed")
  <2>1. Same(pc[p], m, mem[p]) /\ Agree(m, mem[p])
    BY <1>14, KeyDoc, KeysWritten DEF SaveFirstAttempt, At, Lasting, LooseKeys
  <2>2. Persist(p, m, "judgmentFilter", "fail")
    BY <1>14 DEF SaveFirstAttempt
  <2> HIDE DEF m
  <2> QED BY <2>1, <2>2, PersistData
<1>15. CASE FilterJudgment(p)
  <2> DEFINE m == SetKey(mem[p], "judgment:retry", "started")
  <2>1. Same(pc[p], m, mem[p]) /\ Agree(m, mem[p])
    BY <1>15, KeyDoc, KeysWritten DEF FilterJudgment, At, Lasting, LooseKeys
  <2>2. UNCHANGED <<doc, mem>> \/ Persist(p, m, "judgeAgain", "fail")
    BY <1>15 DEF FilterJudgment, Jump
  <2> HIDE DEF m
  <2> QED BY <2>1, <2>2, QuietData, PersistData
<1>16. CASE JudgeAgain(p)
  <2> DEFINE n == CloseRetry(mem[p])
  <2>1. pc[p] = "judgeAgain"
    BY <1>16 DEF JudgeAgain, InvokeJudge, At
  <2>2. Same(pc[p], n, mem[p]) /\ Agree(n, mem[p])
    BY <2>1, KeyDoc, KeysWritten DEF Lasting, LooseKeys, CloseRetry
  <2>3. UNCHANGED doc /\ (UNCHANGED mem \/ Remember(p, n) \/ Remember(p, mem[p]))
    BY <1>16 DEF JudgeAgain, InvokeJudge
  <2> HIDE DEF n
  <2> QED BY <2>2, <2>3, QuietData, RememberData, HereTypes
<1>17. CASE SaveSecondAttempt(p)
  BY <1>17, PersistData, HereTypes DEF SaveSecondAttempt
<1>18. CASE RejectSecondAttempt(p)
  <2> DEFINE n == CloseRetry(mem[p])
  <2>1. Same(pc[p], n, mem[p]) /\ Agree(n, mem[p])
    BY <1>18, KeyDoc, KeysWritten DEF RejectSecondAttempt, At, Lasting, LooseKeys, CloseRetry
  <2>2. UNCHANGED doc /\ Remember(p, n)
    BY <1>18 DEF RejectSecondAttempt
  <2> HIDE DEF n
  <2> QED BY <2>1, <2>2, RememberData
<1>19. CASE WriteJudgment(p)
  <2> DEFINE n == CloseRetry(mem[p])
  <2>1. Same(pc[p], n, mem[p]) /\ Agree(n, mem[p])
    BY <1>19, KeyDoc, KeysWritten DEF WriteJudgment, At, Lasting, LooseKeys, CloseRetry
  <2>2. UNCHANGED doc /\ (UNCHANGED mem \/ Remember(p, n) \/ Remember(p, mem[p]))
    BY <1>19 DEF WriteJudgment
  <2> HIDE DEF n
  <2> QED BY <2>1, <2>2, QuietData, RememberData, HereTypes
<1>20. CASE SaveJudgment(p)
  <2> DEFINE m == [mem[p] EXCEPT !.judged = job[p].got]
  <2>1. Same(pc[p], m, mem[p]) /\ Agree(m, mem[p])
    BY <1>20, HereTypes, FieldDoc, AgreeDoc DEF Here, Registers, SaveJudgment, At, Usable, Judged
  <2>2. \/ Persist(p, m, "rankAdvance", "release")
        \/ UNCHANGED doc /\ Remember(p, m)
    BY <1>20 DEF SaveJudgment
  <2> HIDE DEF m
  <2> QED BY <2>1, <2>2, PersistData, RememberData
<1>21. CASE AdvanceToRank(p)
  BY <1>21, QuietData DEF AdvanceToRank
<1>22. CASE EnterRanked(p)
  <2>1. pc[p] = "rankEnter"
    BY <1>22 DEF EnterRanked, At
  <2> QED BY <2>1, <1>22, QuietData, TransitionData, HereTypes DEF EnterRanked, Jump, Stages, StageWriters
<1>23. CASE FinishRanked(p)
  BY <1>23, QuietData, HereTypes DEF FinishRanked, Jump, Same
<1> QED
  BY <1>1, <1>2, <1>3, <1>4, <1>5, <1>6, <1>7, <1>8, <1>9, <1>10, <1>11,
     <1>12, <1>13, <1>14, <1>15, <1>16, <1>17, <1>18, <1>19, <1>20, <1>21,
     <1>22, <1>23

\* Documents: CycleProposal.
LEMMA ProposalData ==
  ASSUME NEW p \in Procs, Here(p),
         ProposalStep(p)
  PROVE  Data(p)
<1>1. CASE ResumeProposal(p)
  BY <1>1, QuietData, HereTypes DEF ResumeProposal, Jump, Same
<1>2. CASE LoadSnapshot(p)
  BY <1>2, QuietData, PersistData, HereTypes DEF LoadSnapshot, Jump, Same
<1>3. CASE ListBacklog(p)
  <2> DEFINE m == [mem[p] EXCEPT !.bead = TRUE]
  <2>1. Same(pc[p], m, mem[p]) /\ Agree(m, mem[p])
    BY HereTypes, FlagDoc, AgreeDoc
  <2>2. UNCHANGED <<doc, mem>> \/ (UNCHANGED doc /\ Remember(p, m))
    BY <1>3 DEF ListBacklog, Jump
  <2> HIDE DEF m
  <2> QED BY <2>1, <2>2, QuietData, RememberData
<1>4. CASE CreateExperiment(p)
  <2> DEFINE m == [mem[p] EXCEPT !.bead = TRUE]
  <2>1. Same(pc[p], m, mem[p]) /\ Agree(m, mem[p])
    BY HereTypes, FlagDoc, AgreeDoc
  <2>2. UNCHANGED <<doc, mem>> \/ (UNCHANGED doc /\ Remember(p, m))
    BY <1>4 DEF CreateExperiment, Jump
  <2> HIDE DEF m
  <2> QED BY <2>1, <2>2, QuietData, RememberData
<1>5. CASE AdvanceToPropose(p)
  BY <1>5, QuietData DEF AdvanceToPropose
<1>6. CASE EnterProposed(p)
  <2>1. pc[p] = "proposeEnter"
    BY <1>6 DEF EnterProposed, At
  <2> QED BY <1>6, <2>1, TransitionData, HereTypes DEF EnterProposed, Stages, StageWriters
<1>7. CASE EnterAwaitingApproval(p)
  <2>1. pc[p] = "awaitEnter"
    BY <1>7 DEF EnterAwaitingApproval, At
  <2> QED BY <1>7, <2>1, TransitionData, HereTypes DEF EnterAwaitingApproval, Stages, StageWriters
<1>8. CASE WriteSnapshot(p)
  BY <1>8, QuietData DEF WriteSnapshot
<1>9. CASE SaveSnapshot(p)
  BY <1>9, PersistData, HereTypes DEF SaveSnapshot, Same
<1>10. CASE ClaimSnapshot(p)
  <2> DEFINE m == SetKey(mem[p], "replay:proposal-backlog", "started")
  <2>1. Same(pc[p], m, mem[p])
    BY <1>10, KeyDoc, KeysWritten DEF ClaimSnapshot, At, Lasting
  <2>2. UNCHANGED <<doc, mem>> \/ Persist(p, m, "snapshotSend", "release")
    BY <1>10 DEF ClaimSnapshot, Jump
  <2> HIDE DEF m
  <2> QED BY <2>1, <2>2, QuietData, PersistData
<1>11. CASE SendSnapshot(p)
  BY <1>11, QuietData DEF SendSnapshot
<1>12. CASE SaveRegistered(p)
  <2> DEFINE m == SetKey(mem[p], "replay:proposal-backlog", "completed")
  <2>1. Same(pc[p], m, mem[p])
    BY <1>12, KeyDoc, KeysWritten DEF SaveRegistered, At, Lasting
  <2>2. Persist(p, m, "noop", "release")
    BY <1>12 DEF SaveRegistered
  <2> HIDE DEF m
  <2> QED BY <2>1, <2>2, PersistData
<1>13. CASE EnterNoOp(p)
  <2>1. pc[p] = "noop"
    BY <1>13 DEF EnterNoOp, At
  <2> QED BY <1>13, <2>1, TransitionData, HereTypes DEF EnterNoOp, Stages, StageWriters
<1>14. CASE CompleteNoOp(p)
  <2>1. pc[p] = "noopComplete"
    BY <1>14 DEF CompleteNoOp, At
  <2> QED BY <1>14, <2>1, TransitionData, HereTypes DEF CompleteNoOp, Stages, StageWriters
<1> QED
  BY <1>1, <1>2, <1>3, <1>4, <1>5, <1>6, <1>7, <1>8, <1>9, <1>10, <1>11,
     <1>12, <1>13, <1>14 DEF ProposalStep

\* Documents: CycleDecision.
LEMMA DecisionData ==
  ASSUME NEW p \in Procs, Here(p),
         DecisionStep(p)
  PROVE  Data(p)
<1>1. CASE Approve(p)
  <2> DEFINE m == [mem[p] EXCEPT !.approved = TRUE]
  <2>1. pc[p] = "approve"
    BY <1>1 DEF Approve, At
  <2>2. Same(pc[p], m, mem[p])
    BY <2>1, HereTypes, FlagDoc
  <2>3. UNCHANGED <<doc, mem>> \/ Transition(p, m, "approved", "release")
    BY <1>1 DEF Approve, Jump
  <2> HIDE DEF m
  <2> QED BY <2>1, <2>2, <2>3, QuietData, TransitionData DEF Stages, StageWriters
<1>2. CASE Decline(p)
  <2> DEFINE m == [mem[p] EXCEPT !.declined = TRUE]
  <2>1. Same(pc[p], m, mem[p])
    BY <1>2, HereTypes, FlagDoc DEF Decline, At
  <2>2. UNCHANGED <<doc, mem>> \/ Persist(p, m, "declineStage", "release")
    BY <1>2 DEF Decline, Jump
  <2> HIDE DEF m
  <2> QED BY <2>1, <2>2, QuietData, PersistData
<1>3. CASE EnterDeclined(p)
  <2>1. pc[p] = "declineStage"
    BY <1>3 DEF EnterDeclined, At
  <2> QED BY <1>3, <2>1, QuietData, TransitionData, HereTypes DEF EnterDeclined, Jump, Stages, StageWriters
<1>4. CASE CloseDeclined(p)
  BY <1>4, QuietData, HereTypes DEF CloseDeclined, Same
<1>5. CASE SaveDeclineClosed(p)
  <2> DEFINE m == SetKey(mem[p], "decline:close", "completed")
  <2>1. Same(pc[p], m, mem[p])
    BY <1>5, KeyDoc, KeysWritten DEF SaveDeclineClosed, At, Lasting
  <2>2. Persist(p, m, "declineDone", "release")
    BY <1>5 DEF SaveDeclineClosed
  <2> HIDE DEF m
  <2> QED BY <2>1, <2>2, PersistData
<1>6. CASE CompleteDeclined(p)
  <2>1. pc[p] = "declineDone"
    BY <1>6 DEF CompleteDeclined, At
  <2> QED BY <1>6, <2>1, TransitionData, HereTypes DEF CompleteDeclined, Stages, StageWriters
<1> QED
  BY <1>1, <1>2, <1>3, <1>4, <1>5, <1>6 DEF DecisionStep

\* Documents: CycleExecution.
LEMMA ExecutionData ==
  ASSUME NEW p \in Procs, Here(p),
         ExecutionStep(p)
  PROVE  Data(p)
<1>1. CASE PrepareExecution(p)
  <2> DEFINE n == [mem[p] EXCEPT !.execution = TRUE]
             m == SetKey(n, "execution:prepared", "completed")
  <2>1. pc[p] = "execute"
    BY <1>1 DEF PrepareExecution, At
  <2>2. Same(pc[p], n, mem[p])
    BY <2>1, HereTypes, FlagDoc
  <2>3. UNCHANGED <<doc, mem>> \/ Persist(p, m, "executeAdvance", "release")
    BY <1>1 DEF PrepareExecution, Jump
  <2> HIDE DEF n
  <2>4. Same(pc[p], m, mem[p])
    BY <2>1, <2>2, HereTypes, SetKeyDoc, KeysWritten DEF Lasting, Marks
  <2> HIDE DEF m
  <2> QED BY <2>3, <2>4, QuietData, PersistData
<1>2. CASE AdvanceToExecute(p)
  BY <1>2, QuietData, HereTypes DEF AdvanceToExecute, Same
<1>3. CASE EnterExecuting(p)
  <2>1. pc[p] = "executeEnter"
    BY <1>3 DEF EnterExecuting, At
  <2> QED BY <1>3, <2>1, QuietData, TransitionData, HereTypes DEF EnterExecuting, Jump, Stages, StageWriters
<1>4. CASE ClaimExecution(p)
  <2> DEFINE m == SetKey(mem[p], "execution:attempt", "started")
  <2>1. pc[p] = "executeAttempt"
    BY <1>4 DEF ClaimExecution, At
  <2>2. \/ UNCHANGED <<doc, mem>>
        \/ /\ mem[p].key["execution:attempt"] # "completed"
           /\ Persist(p, m, "executor", "release")
    BY <1>4 DEF ClaimExecution, Jump, Unattempted
  <2>3. mem[p].key["execution:attempt"] # "completed" => Same(pc[p], m, mem[p])
    BY <2>1, KeyDoc, KeysWritten
  <2> HIDE DEF m
  <2> QED BY <2>2, <2>3, QuietData, PersistData
<1>5. CASE InvokeExecutor(p)
  BY <1>5, QuietData DEF InvokeExecutor
<1>6. CASE WriteReport(p)
  BY <1>6, QuietData DEF WriteReport
<1>7. CASE CollectExecution(p)
  <2> DEFINE n == [mem[p] EXCEPT !.transcript = job[p].got # "unknown"]
             m == SetKey(n, "execution:attempt", "completed")
  <2>1. pc[p] = "collect"
    BY <1>7 DEF CollectExecution, At
  <2>2. Same(pc[p], n, mem[p])
    BY <2>1, HereTypes, FlagDoc
  <2>3. UNCHANGED <<doc, mem>> \/ Persist(p, m, "benchmark", "release")
    BY <1>7 DEF CollectExecution, Jump
  <2> HIDE DEF n
  <2>4. Same(pc[p], m, mem[p])
    BY <2>1, <2>2, HereTypes, SetKeyDoc, KeysWritten DEF Lasting, Marks
  <2> HIDE DEF m
  <2> QED BY <2>3, <2>4, QuietData, PersistData
<1>8. CASE ClaimBenchmark(p)
  <2> DEFINE m == [mem[p] EXCEPT !.measured = files[Cyc(p)].measurement]
             n == SetKey(mem[p], "benchmark:attempt", "started")
  <2>1. pc[p] = "benchmark"
    BY <1>8 DEF ClaimBenchmark, At
  <2>2. Same(pc[p], m, mem[p]) /\ Agree(m, mem[p])
    BY <2>1, HereTypes, FieldDoc, AgreeDoc
  <2>3. mem[p].key["benchmark:attempt"] # "completed" => Same(pc[p], n, mem[p])
    BY <2>1, KeyDoc, KeysWritten
  <2>4. \/ UNCHANGED <<doc, mem>>
        \/ UNCHANGED doc /\ Remember(p, m)
        \/ /\ mem[p].key["benchmark:attempt"] # "completed"
           /\ Persist(p, n, "measure", "release")
    BY <1>8 DEF ClaimBenchmark, Jump, Unattempted
  <2> HIDE DEF m, n
  <2> QED BY <2>2, <2>3, <2>4, QuietData, RememberData, PersistData
<1>9. CASE Measure(p)
  <2>1. CASE UNCHANGED <<doc, mem>>
    BY <2>1, QuietData
  <2>2. ASSUME NEW v \in {"met", "missed"}, UNCHANGED doc,
               Remember(p, [mem[p] EXCEPT !.measured = v])
        PROVE  Data(p)
    <3> DEFINE m == [mem[p] EXCEPT !.measured = v]
    <3>1. Same(pc[p], m, mem[p]) /\ Agree(m, mem[p])
      BY <1>9, HereTypes, FieldDoc, AgreeDoc DEF Measure, At, Measured
    <3>2. Remember(p, m)
      BY <2>2
    <3> HIDE DEF m
    <3> QED BY <2>2, <3>1, <3>2, RememberData
  <2> QED BY <1>9, <2>1, <2>2 DEF Measure
<1>10. CASE WriteMeasurement(p)
  BY <1>10, QuietData, HereTypes DEF WriteMeasurement, Same
<1>11. CASE SaveMeasurement(p)
  <2> DEFINE m == SetKey(mem[p], "benchmark:attempt", "completed")
  <2>1. Same(pc[p], m, mem[p])
    BY <1>11, KeyDoc, KeysWritten DEF SaveMeasurement, At, Lasting
  <2>2. Persist(p, m, "reviewAdvance", "release")
    BY <1>11 DEF SaveMeasurement
  <2> HIDE DEF m
  <2> QED BY <2>1, <2>2, PersistData
<1>12. CASE AdvanceToReview(p)
  BY <1>12, QuietData DEF AdvanceToReview
<1>13. CASE EnterReviewing(p)
  <2>1. pc[p] = "reviewEnter"
    BY <1>13 DEF EnterReviewing, At
  <2> QED BY <1>13, <2>1, TransitionData, HereTypes DEF EnterReviewing, Stages, StageWriters
<1> QED
  BY <1>1, <1>2, <1>3, <1>4, <1>5, <1>6, <1>7, <1>8, <1>9, <1>10, <1>11,
     <1>12, <1>13 DEF ExecutionStep

\* Documents: CycleReview.
LEMMA ReviewData ==
  ASSUME NEW p \in Procs, Here(p),
         ReviewStep(p)
  PROVE  Data(p)
<1>1. CASE ClaimReview(p)
  <2> DEFINE m == SetKey(mem[p], "review:attempt", "started")
  <2>1. Same(pc[p], m, mem[p])
    BY <1>1, KeyDoc, KeysWritten DEF ClaimReview, At, Lasting
  <2>2. UNCHANGED <<doc, mem>> \/ Persist(p, m, "reviewer", "release")
    BY <1>1 DEF ClaimReview, Jump
  <2> HIDE DEF m
  <2> QED BY <2>1, <2>2, QuietData, PersistData
<1>2. CASE InvokeReviewer(p)
  BY <1>2, QuietData DEF InvokeReviewer
<1>3. CASE WriteReview(p)
  BY <1>3, QuietData DEF WriteReview
<1>4. CASE Resolve(p)
  <2>1. CASE UNCHANGED <<doc, mem>>
    BY <2>1, QuietData
  <2>2. CASE EvidenceHolds(mem[p], job[p].got)
    <3> DEFINE r == job[p].got
               f == IF mem[p].final = "none" THEN FinalVerdict(r, mem[p].measured)
                    ELSE mem[p].final
               n == [mem[p] EXCEPT !.review = r, !.final = f]
               m == SetKey(n, "review:attempt", "completed")
    <3>1. r \in Verdicts /\ pc[p] = "resolve"
      BY <1>4, <2>2 DEF Here, Registers, Resolve, At, EvidenceHolds
    <3>2. f \in MaybeVerdict /\ r \in MaybeVerdict /\ mem[p].final \in {"none", f}
      BY <3>1, HereTypes DEF CycleDoc, FinalVerdict, MaybeVerdict, Verdicts
    <3>3. UNCHANGED <<doc, mem>> \/ Persist(p, m, "compoundAdvance", "release")
      BY <1>4 DEF Resolve, Jump
    <3> HIDE DEF f, r
    <3>4. Same(pc[p], n, mem[p])
      BY <3>1, <3>2, HereTypes, FieldDoc
    <3> HIDE DEF n
    <3>5. Same(pc[p], m, mem[p])
      BY <3>1, <3>4, HereTypes, SetKeyDoc, KeysWritten DEF Lasting, Marks
    <3> HIDE DEF m
    <3> QED BY <3>3, <3>5, QuietData, PersistData
  <2> QED BY <1>4, <2>1, <2>2 DEF Resolve, Jump
<1>5. CASE AdvanceToCompound(p)
  BY <1>5, QuietData DEF AdvanceToCompound
<1>6. CASE EnterCompounding(p)
  <2>1. pc[p] = "compoundEnter"
    BY <1>6 DEF EnterCompounding, At
  <2> QED BY <1>6, <2>1, TransitionData, HereTypes DEF EnterCompounding, Stages, StageWriters
<1> QED
  BY <1>1, <1>2, <1>3, <1>4, <1>5, <1>6 DEF ReviewStep

\* Documents: CycleCompound.
LEMMA CompoundData ==
  ASSUME NEW p \in Procs, Here(p),
         CompoundStep(p)
  PROVE  Data(p)
<1>1. CASE BeginCompound(p)
  <2>1. pc[p] = "compound"
    BY <1>1 DEF BeginCompound, At
  <2> QED BY <1>1, <2>1, QuietData, TransitionData, HereTypes DEF BeginCompound, Jump, Stages, StageWriters
<1>2. CASE DispatchCompound(p)
  BY <1>2, QuietData, HereTypes DEF DispatchCompound, Jump, Same
<1>3. CASE FindPromotion(p)
  BY <1>3, QuietData, HereTypes DEF FindPromotion, Jump, Same
<1>4. CASE CreatePromotion(p)
  BY <1>4, QuietData DEF CreatePromotion
<1>5. CASE SavePromotion(p)
  <2> DEFINE n == [mem[p] EXCEPT !.promotion = TRUE]
             m == SetKey(n, "backlog:promotion", "completed")
  <2>1. pc[p] = "promoteSave"
    BY <1>5 DEF SavePromotion, At
  <2>2. Same(pc[p], n, mem[p])
    BY <2>1, HereTypes, FlagDoc
  <2>3. Persist(p, m, "close", "release")
    BY <1>5 DEF SavePromotion, Promoted
  <2> HIDE DEF n
  <2>4. Same(pc[p], m, mem[p])
    BY <2>1, <2>2, HereTypes, SetKeyDoc, KeysWritten DEF Lasting, Marks
  <2> HIDE DEF m
  <2> QED BY <2>3, <2>4, PersistData
<1>6. CASE CloseExperiment(p)
  BY <1>6, QuietData, HereTypes DEF CloseExperiment, Same
<1>7. CASE SaveClosed(p)
  <2> DEFINE m == SetKey(mem[p], "backlog:close", "completed")
  <2>1. Same(pc[p], m, mem[p])
    BY <1>7, KeyDoc, KeysWritten DEF SaveClosed, At, Lasting
  <2>2. Persist(p, m, "outcome", "release")
    BY <1>7 DEF SaveClosed
  <2> HIDE DEF m
  <2> QED BY <2>1, <2>2, PersistData
<1>8. CASE RecordOutcome(p)
  BY <1>8, QuietData, HereTypes DEF RecordOutcome, Same
<1>9. CASE SaveOutcome(p)
  <2> DEFINE m == SetKey(mem[p], "outcome:state", "completed")
  <2>1. Same(pc[p], m, mem[p])
    BY <1>9, KeyDoc, KeysWritten DEF SaveOutcome, At, Lasting
  <2>2. Persist(p, m, "feedback", "release")
    BY <1>9 DEF SaveOutcome
  <2> HIDE DEF m
  <2> QED BY <2>1, <2>2, PersistData
<1>10. CASE BeginFeedback(p)
  <2>1. CASE UNCHANGED <<doc, mem>>
    BY <2>1, QuietData
  <2>2. CASE \E d \in NextFeedback(mem[p]) :
               Persist(p, [mem[p] EXCEPT !.feedback[d] = "started"], "feedbackSend", "release")
    <3>1. PICK d \in NextFeedback(mem[p]) :
            Persist(p, [mem[p] EXCEPT !.feedback[d] = "started"], "feedbackSend", "release")
      BY <2>2
    <3> DEFINE m == [mem[p] EXCEPT !.feedback[d] = "started"]
    <3>2. d \in Discoveries /\ mem[p].feedback[d] # "completed" /\ pc[p] = "feedback"
      BY <1>10, <3>1 DEF NextFeedback, BeginFeedback, At
    <3>3. Same(pc[p], m, mem[p])
      BY <3>2, HereTypes, FieldDoc DEF Marks
    <3>4. Persist(p, m, "feedbackSend", "release")
      BY <3>1
    <3> HIDE DEF m
    <3> QED BY <3>3, <3>4, PersistData
  <2> QED BY <1>10, <2>1, <2>2 DEF BeginFeedback, Jump
<1>11. CASE SendFeedback(p)
  BY <1>11, QuietData, HereTypes DEF SendFeedback, Same
<1>12. CASE SaveFeedback(p)
  <2>1. PICK d \in NextFeedback(mem[p]) :
          Persist(p, [mem[p] EXCEPT !.feedback[d] = "completed"], "feedback", "release")
    BY <1>12 DEF SaveFeedback
  <2> DEFINE m == [mem[p] EXCEPT !.feedback[d] = "completed"]
  <2>2. d \in Discoveries /\ mem[p].feedback[d] # "completed" /\ pc[p] = "feedbackSave"
    BY <1>12, <2>1 DEF NextFeedback, SaveFeedback, At
  <2>3. Same(pc[p], m, mem[p])
    BY <2>2, HereTypes, FieldDoc DEF Marks
  <2>4. Persist(p, m, "feedback", "release")
    BY <2>1
  <2> HIDE DEF m
  <2> QED BY <2>3, <2>4, PersistData
<1>13. CASE BeginRoadmap(p)
  <2> DEFINE m == SetKey(mem[p], "roadmap:sync", "started")
  <2>1. Same(pc[p], m, mem[p])
    BY <1>13, KeyDoc, KeysWritten DEF BeginRoadmap, At, Lasting
  <2>2. UNCHANGED <<doc, mem>> \/ Persist(p, m, "roadmapSync", "release")
    BY <1>13 DEF BeginRoadmap, Jump
  <2> HIDE DEF m
  <2> QED BY <2>1, <2>2, QuietData, PersistData
<1>14. CASE SyncRoadmap(p)
  BY <1>14, QuietData DEF SyncRoadmap
<1>15. CASE UndoRoadmap(p)
  <2> DEFINE m == SetKey(mem[p], "roadmap:sync", "none")
  <2>1. pc[p] = "roadmapUndo"
    BY <1>15 DEF UndoRoadmap, At
  <2>2. Same(pc[p], m, mem[p])
    BY <2>1, HereTypes, SetKeyDoc, KeysWritten DEF Lasting, Marks
  <2>3. Persist(p, m, "release", "release")
    BY <1>15 DEF UndoRoadmap
  <2> HIDE DEF m
  <2> QED BY <2>2, <2>3, PersistData
<1>16. CASE WriteRoadmap(p)
  BY <1>16, QuietData DEF WriteRoadmap
<1>17. CASE SaveRoadmap(p)
  <2> DEFINE n == [mem[p] EXCEPT !.roadmap = files[Cyc(p)].roadmap]
             m == SetKey(n, "roadmap:sync", "completed")
  <2>1. pc[p] = "roadmapSave"
    BY <1>17 DEF SaveRoadmap, At
  <2>2. Same(pc[p], n, mem[p])
    BY <2>1, HereTypes, FieldDoc
  <2>3. Persist(p, m, "roadmapCheck", "release")
    BY <1>17 DEF SaveRoadmap
  <2> HIDE DEF n
  <2>4. Same(pc[p], m, mem[p])
    BY <2>1, <2>2, HereTypes, SetKeyDoc, KeysWritten DEF Lasting, Marks
  <2> HIDE DEF m
  <2> QED BY <2>3, <2>4, PersistData
<1>18. CASE CheckRoadmap(p)
  BY <1>18, QuietData, HereTypes DEF CheckRoadmap, Jump, Same
<1>19. CASE Terminalize(p)
  <2> DEFINE m == SetKey(mem[p], "run:terminal", "completed")
  <2>1. Same(pc[p], m, mem[p])
    BY <1>19, KeyDoc, KeysWritten DEF Terminalize, At, Lasting
  <2>2. \/ UNCHANGED <<doc, mem>>
        \/ \E next : Persist(p, m, next, "release")
    BY <1>19 DEF Terminalize, Jump
  <2> HIDE DEF m
  <2> QED BY <2>1, <2>2, QuietData, PersistData
<1>20. CASE BuildReceipt(p)
  BY <1>20, QuietData, HereTypes DEF BuildReceipt, Same
<1>21. CASE SaveReceipt(p)
  <2> DEFINE n == [mem[p] EXCEPT !.digest = files[Cyc(p)].digest]
             m == SetKey(n, "receipt:attempt", "started")
  <2>1. pc[p] = "receiptSave"
    BY <1>21 DEF SaveReceipt, At
  <2>2. Same(pc[p], n, mem[p])
    BY <2>1, HereTypes, FieldDoc
  <2>3. Persist(p, m, "emit", "release")
    BY <1>21 DEF SaveReceipt
  <2> HIDE DEF n
  <2>4. Same(pc[p], m, mem[p])
    BY <2>1, <2>2, HereTypes, SetKeyDoc, KeysWritten DEF Lasting, Marks
  <2> HIDE DEF m
  <2> QED BY <2>3, <2>4, PersistData
<1>22. CASE FindReceipt(p)
  BY <1>22, QuietData, HereTypes DEF FindReceipt, Jump, Same
<1>23. CASE EmitReceipt(p)
  BY <1>23, QuietData, HereTypes DEF EmitReceipt, Same
<1>24. CASE AcceptReceipt(p)
  BY <1>24, QuietData, HereTypes DEF AcceptReceipt, Same
<1>25. CASE SaveSignature(p)
  <2> DEFINE n == [mem[p] EXCEPT !.signed = files[Cyc(p)].signature]
             m == SetKey(n, "receipt:attempt", "completed")
  <2>1. pc[p] = "acceptSave"
    BY <1>25 DEF SaveSignature, At
  <2>2. Same(pc[p], n, mem[p])
    BY <2>1, HereTypes, FieldDoc
  <2>3. Persist(p, m, "complete", "release")
    BY <1>25 DEF SaveSignature
  <2> HIDE DEF n
  <2>4. Same(pc[p], m, mem[p])
    BY <2>1, <2>2, HereTypes, SetKeyDoc, KeysWritten DEF Lasting, Marks
  <2> HIDE DEF m
  <2> QED BY <2>3, <2>4, PersistData
<1>26. CASE Complete(p)
  <2>1. pc[p] = "complete"
    BY <1>26 DEF Complete, At
  <2> QED BY <1>26, <2>1, QuietData, TransitionData, HereTypes DEF Complete, Jump, Stages, StageWriters
<1> QED
  BY <1>1, <1>2, <1>3, <1>4, <1>5, <1>6, <1>7, <1>8, <1>9, <1>10, <1>11,
     <1>12, <1>13, <1>14, <1>15, <1>16, <1>17, <1>18, <1>19, <1>20, <1>21,
     <1>22, <1>23, <1>24, <1>25, <1>26 DEF CompoundStep

-----------------------------------------------------------------------------
(* The services. *)

\* The parts of a cycle's world, and its judged document, have their types,
\* and a step may leave each as it is.
LEMMA HereWorld ==
  ASSUME NEW p \in Procs, Here(p)
  PROVE  /\ kernel[Cyc(p)] \in KernelType /\ backlog[Cyc(p)] \in BacklogType
         /\ files[Cyc(p)] \in FilesType /\ calls[Cyc(p)] \in CallsType
         /\ KernelEdits(pc[p], kernel[Cyc(p)], kernel[Cyc(p)])
         /\ BacklogEdits(pc[p], backlog[Cyc(p)], backlog[Cyc(p)])
         /\ FilesEdits(pc[p], files[Cyc(p)], files[Cyc(p)])
         /\ CallsEdits(pc[p], calls[Cyc(p)], calls[Cyc(p)])
         /\ mem[p] \in CycleDoc /\ mem[p].stage \in Stages
<1>1. mem[p] \in CycleDoc
  BY DEF Here, TypeOK
<1>2. mem[p].stage \in Stages
  BY <1>1 DEF Here, Coherent, CycleDoc
<1>3. /\ kernel[Cyc(p)] \in KernelType /\ backlog[Cyc(p)] \in BacklogType
      /\ files[Cyc(p)] \in FilesType /\ calls[Cyc(p)] \in CallsType
  BY DEF Here, TypeOK
<1> QED BY <1>1, <1>2, <1>3 DEF KernelEdits, BacklogEdits, FilesEdits, CallsEdits

\* Writing a field of Intercore's record of a cycle where that may be done.
LEMMA KernelFields ==
  ASSUME NEW k \in KernelType, NEW l
  PROVE  /\ l \in {"ensureRun", "advanceRun"} =>
              \A v \in Phases : KernelEdits(l, k, [k EXCEPT !.phase = v])
         /\ l = "event" => \A v \in Stages : KernelEdits(l, k, [k EXCEPT !.events = @ \cup {v}])
         /\ l = "outcome" => \A v \in MaybeVerdict : KernelEdits(l, k, [k EXCEPT !.outcome = v])
         /\ l = "feedbackSend" =>
              \A v \in Discoveries : KernelEdits(l, k, [k EXCEPT !.feedback = @ \cup {v}])
         /\ \A i \in ReplayKinds : <<l, i>> \in Registrations =>
              KernelEdits(l, k, [k EXCEPT !.replays[i] = @ + 1])
<1>1. l \in {"ensureRun", "advanceRun"} =>
        \A v \in Phases : KernelEdits(l, k, [k EXCEPT !.phase = v])
  BY DEF KernelType, KernelEdits
<1>2. l = "event" => \A v \in Stages : KernelEdits(l, k, [k EXCEPT !.events = @ \cup {v}])
  BY DEF KernelType, KernelEdits
<1>3. l = "outcome" => \A v \in MaybeVerdict : KernelEdits(l, k, [k EXCEPT !.outcome = v])
  BY DEF KernelType, KernelEdits
<1>4. l = "feedbackSend" =>
        \A v \in Discoveries : KernelEdits(l, k, [k EXCEPT !.feedback = @ \cup {v}])
  BY DEF KernelType, KernelEdits
<1>5. ASSUME NEW i \in ReplayKinds, <<l, i>> \in Registrations
      PROVE  KernelEdits(l, k, [k EXCEPT !.replays[i] = @ + 1])
  <2> DEFINE r == [k.replays EXCEPT ![i] = @ + 1]
             x == [k EXCEPT !.replays = r]
  <2>1. k.replays \in [ReplayKinds -> Nat] /\ k.replays[i] + 1 \in Nat
    BY DEF KernelType
  <2>2. /\ r \in [ReplayKinds -> Nat] /\ r[i] = k.replays[i] + 1
        /\ \A j \in ReplayKinds \ {i} : r[j] = k.replays[j]
    BY <2>1
  <2> HIDE DEF r
  <2>3. /\ x \in KernelType /\ x.replays = r /\ x.phase = k.phase /\ x.events = k.events
        /\ x.outcome = k.outcome /\ x.feedback = k.feedback /\ x.ledger = k.ledger
    BY <2>2 DEF KernelType
  <2>4. x = [k EXCEPT !.replays[i] = @ + 1]
    BY DEF r
  <2> HIDE DEF x
  <2>5. KernelEdits(l, k, x)
    BY <1>5, <2>2, <2>3 DEF KernelEdits
  <2> QED BY <2>4, <2>5
<1> QED BY <1>1, <1>2, <1>3, <1>4, <1>5

\* The ledger only grows by digests.
LEMMA KernelLedger ==
  ASSUME NEW k \in KernelType, NEW v \in Nat
  PROVE  KernelEdits("emitSend", k, [k EXCEPT !.ledger = Append(@, v)])
<1>1. k.ledger \in Seq(Nat)
  BY DEF KernelType
<1>2. Append(k.ledger, v) \in Seq(Nat)
  BY <1>1
<1> HIDE DEF KernelType
<1> DEFINE s == Append(k.ledger, v)
<1>3. s \in Seq(Nat)
  BY <1>2
<1> HIDE DEF s
<1>4. KernelEdits("emitSend", k, [k EXCEPT !.ledger = s])
  BY <1>3 DEF KernelType, KernelEdits
<1> QED BY <1>4 DEF s

\* Writing a field of the backlog where that may be done.
LEMMA BacklogFields ==
  ASSUME NEW b \in BacklogType, NEW l
  PROVE  /\ l = "proposalCreate" => BacklogEdits(l, b, [b EXCEPT !.experiments = @ + 1])
         /\ l = "promoteCreate" => BacklogEdits(l, b, [b EXCEPT !.promotions = @ + 1])
         /\ l \in {"declineClose", "close"} => BacklogEdits(l, b, [b EXCEPT !.closed = TRUE])
         /\ l = "roadmapSync" =>
              \A v \in RoadmapView : BacklogEdits(l, b, [b EXCEPT !.roadmap = v])
<1>1. l = "proposalCreate" => BacklogEdits(l, b, [b EXCEPT !.experiments = @ + 1])
  BY DEF BacklogType, BacklogEdits
<1>2. l = "promoteCreate" => BacklogEdits(l, b, [b EXCEPT !.promotions = @ + 1])
  BY DEF BacklogType, BacklogEdits
<1>3. l \in {"declineClose", "close"} => BacklogEdits(l, b, [b EXCEPT !.closed = TRUE])
  BY DEF BacklogType, BacklogEdits
<1>4. l = "roadmapSync" =>
        \A v \in RoadmapView : BacklogEdits(l, b, [b EXCEPT !.roadmap = v])
  BY DEF BacklogType, BacklogEdits
<1> QED BY <1>1, <1>2, <1>3, <1>4

\* Writing an artifact where that may be done.
LEMMA FilesFields ==
  ASSUME NEW f \in FilesType, NEW l
  PROVE  /\ FilesEdits(l, f, [f EXCEPT !.observation = TRUE])
         /\ \A v \in Judged : FilesEdits(l, f, [f EXCEPT !.judgment = v])
         /\ FilesEdits(l, f, [f EXCEPT !.backlog = TRUE])
         /\ l = "executor" =>
              \A v \in {"clean", "allowed", "stray"}, w \in {"none", "valid", "invalid"} :
                FilesEdits(l, f, [f EXCEPT !.worktree = v, !.report = w])
         /\ FilesEdits(l, f, [f EXCEPT !.report = "valid"])
         /\ l = "measureWrite" =>
              \A v \in Measured : FilesEdits(l, f, [f EXCEPT !.measurement = v])
         /\ l \in {"reviewer", "reviewWrite"} =>
              \A v \in MaybeVerdict \cup {"uncited", "invalid"} :
                FilesEdits(l, f, [f EXCEPT !.review = v])
         /\ l = "roadmapWrite" => \A v \in RoadmapView : FilesEdits(l, f, [f EXCEPT !.roadmap = v])
         /\ l = "accept" => \A v \in Nat : FilesEdits(l, f, [f EXCEPT !.signature = v])
         /\ l = "receipt" =>
              \A v \in CycleDoc : FilesEdits(l, f, [f EXCEPT !.receipt = v, !.digest = @ + 1])
<1> USE DEF FilesType, FilesEdits
<1>1. FilesEdits(l, f, [f EXCEPT !.observation = TRUE])
  OBVIOUS
<1>2. \A v \in Judged : FilesEdits(l, f, [f EXCEPT !.judgment = v])
  OBVIOUS
<1>3. FilesEdits(l, f, [f EXCEPT !.backlog = TRUE])
  OBVIOUS
<1>4. l = "executor" =>
        \A v \in {"clean", "allowed", "stray"}, w \in {"none", "valid", "invalid"} :
          FilesEdits(l, f, [f EXCEPT !.worktree = v, !.report = w])
  OBVIOUS
<1>5. FilesEdits(l, f, [f EXCEPT !.report = "valid"])
  OBVIOUS
<1>6. l = "measureWrite" => \A v \in Measured : FilesEdits(l, f, [f EXCEPT !.measurement = v])
  OBVIOUS
<1>7. l \in {"reviewer", "reviewWrite"} =>
        \A v \in MaybeVerdict \cup {"uncited", "invalid"} :
          FilesEdits(l, f, [f EXCEPT !.review = v])
  OBVIOUS
<1>8. l = "roadmapWrite" => \A v \in RoadmapView : FilesEdits(l, f, [f EXCEPT !.roadmap = v])
  OBVIOUS
<1>9. l = "accept" => \A v \in Nat : FilesEdits(l, f, [f EXCEPT !.signature = v])
  OBVIOUS
<1>10. ASSUME l = "receipt", NEW v \in CycleDoc
       PROVE  FilesEdits(l, f, [f EXCEPT !.receipt = v, !.digest = @ + 1])
  <2> DEFINE d == f.digest + 1
             x == [f EXCEPT !.receipt = v, !.digest = d]
  <2>1. d \in Nat
    OBVIOUS
  <2> HIDE DEF d
  <2>2. /\ x \in FilesType /\ x.worktree = f.worktree /\ x.measurement = f.measurement
        /\ x.review = f.review /\ x.roadmap = f.roadmap /\ x.signature = f.signature
    BY <2>1
  <2>3. x = [f EXCEPT !.receipt = v, !.digest = @ + 1]
    BY DEF d
  <2> HIDE DEF x
  <2>4. FilesEdits(l, f, x)
    BY <1>10, <2>2
  <2> QED BY <2>3, <2>4
<1> QED BY <1>1, <1>2, <1>3, <1>4, <1>5, <1>6, <1>7, <1>8, <1>9, <1>10

\* Counting an invocation where that may be done.
LEMMA CallsFields ==
  ASSUME NEW n \in CallsType, NEW l
  PROVE  /\ l \in {"judgeFirst", "judgeAgain"} => CallsEdits(l, n, [n EXCEPT !.judge = @ + 1])
         /\ l = "measure" => CallsEdits(l, n, [n EXCEPT !.benchmark = @ + 1])
         /\ l = "reviewer" => CallsEdits(l, n, [n EXCEPT !.reviewer = @ + 1])
         /\ l = "executor" => CallsEdits(l, n, [n EXCEPT !.executor = @ + 1])
         /\ l = "executor" =>
              \A b \in BOOLEAN :
                CallsEdits(l, n, [n EXCEPT !.executor = @ + 1, !.overBudget = b])
<1> USE DEF CallsType, CallsEdits
<1>1. l \in {"judgeFirst", "judgeAgain"} => CallsEdits(l, n, [n EXCEPT !.judge = @ + 1])
  OBVIOUS
<1>2. l = "measure" => CallsEdits(l, n, [n EXCEPT !.benchmark = @ + 1])
  OBVIOUS
<1>3. l = "reviewer" => CallsEdits(l, n, [n EXCEPT !.reviewer = @ + 1])
  OBVIOUS
<1>4. l = "executor" => CallsEdits(l, n, [n EXCEPT !.executor = @ + 1])
  OBVIOUS
<1>5. ASSUME l = "executor", NEW b \in BOOLEAN
      PROVE  CallsEdits(l, n, [n EXCEPT !.executor = @ + 1, !.overBudget = b])
  <2> DEFINE x == [n EXCEPT !.executor = @ + 1, !.overBudget = b]
  <2>1. /\ x.executor = n.executor + 1 /\ x.overBudget = b
        /\ x.judge = n.judge /\ x.benchmark = n.benchmark /\ x.reviewer = n.reviewer
    OBVIOUS
  <2>2. x \in CallsType
    <3> DEFINE e == n.executor + 1
    <3>1. e \in Nat
      OBVIOUS
    <3> HIDE DEF e
    <3>2. [n EXCEPT !.executor = e, !.overBudget = b] \in CallsType
      BY <3>1
    <3> QED BY <3>2 DEF e
  <2> HIDE DEF x
  <2> QED BY <1>5, <2>1, <2>2
<1> QED BY <1>1, <1>2, <1>3, <1>4, <1>5

\* Intercore's record of the cycle changes.
LEMMA KernelWorld ==
  ASSUME NEW p \in Procs, Here(p), UNCHANGED <<backlog, files, calls, latest>>,
         NEW k, KernelEdits(pc[p], kernel[Cyc(p)], k),
         kernel' \in {kernel, [kernel EXCEPT ![Cyc(p)] = k]}
  PROVE  World(p)
<1>1. k \in KernelType
  BY DEF KernelEdits
<1>2. /\ kernel' \in [Cycles -> KernelType]
      /\ kernel'[Cyc(p)] \in {kernel[Cyc(p)], k}
      /\ \A d \in Cycles \ {Cyc(p)} : kernel'[d] = kernel[d]
  BY <1>1 DEF Here, TypeOK
<1> QED BY <1>2, HereWorld DEF Here, TypeOK, World

\* The backlog changes.
LEMMA BacklogWorld ==
  ASSUME NEW p \in Procs, Here(p), UNCHANGED <<kernel, files, calls, latest>>,
         NEW b, BacklogEdits(pc[p], backlog[Cyc(p)], b),
         backlog' \in {backlog, [backlog EXCEPT ![Cyc(p)] = b]}
  PROVE  World(p)
<1>1. b \in BacklogType
  BY DEF BacklogEdits
<1>2. /\ backlog' \in [Cycles -> BacklogType]
      /\ backlog'[Cyc(p)] \in {backlog[Cyc(p)], b}
      /\ \A d \in Cycles \ {Cyc(p)} : backlog'[d] = backlog[d]
  BY <1>1 DEF Here, TypeOK
<1> QED BY <1>2, HereWorld DEF Here, TypeOK, World

\* An artifact is written, or an agent or the benchmark invoked, or both.
LEMMA FilesWorld ==
  ASSUME NEW p \in Procs, Here(p), UNCHANGED <<kernel, backlog, latest>>,
         NEW f, FilesEdits(pc[p], files[Cyc(p)], f),
         files' \in {files, [files EXCEPT ![Cyc(p)] = f]},
         NEW n, CallsEdits(pc[p], calls[Cyc(p)], n),
         calls' \in {calls, [calls EXCEPT ![Cyc(p)] = n]}
  PROVE  World(p)
<1>1. f \in FilesType /\ n \in CallsType
  BY DEF FilesEdits, CallsEdits
<1>2. /\ files' \in [Cycles -> FilesType] /\ calls' \in [Cycles -> CallsType]
      /\ files'[Cyc(p)] \in {files[Cyc(p)], f} /\ calls'[Cyc(p)] \in {calls[Cyc(p)], n}
      /\ \A d \in Cycles \ {Cyc(p)} : files'[d] = files[d] /\ calls'[d] = calls[d]
  BY <1>1 DEF Here, TypeOK
<1> QED BY <1>2, HereWorld DEF Here, TypeOK, World

\* remontoire.latest is set.
LEMMA LatestWorld ==
  ASSUME NEW p \in Procs, Here(p), UNCHANGED <<kernel, backlog, files, calls>>,
         latest' \in {latest, Cyc(p)}
  PROVE  World(p)
BY HereWorld DEF Here, TypeOK, World

\* No service is called.
LEMMA QuietWorld ==
  ASSUME NEW p \in Procs, TypeOK, Cyc(p) \in Cycles, UNCHANGED world
  PROVE  World(p)
<1>1. /\ kernel[Cyc(p)] \in KernelType /\ backlog[Cyc(p)] \in BacklogType
      /\ files[Cyc(p)] \in FilesType /\ calls[Cyc(p)] \in CallsType
  BY DEF TypeOK
<1>2. /\ KernelEdits(pc[p], kernel[Cyc(p)], kernel[Cyc(p)])
      /\ BacklogEdits(pc[p], backlog[Cyc(p)], backlog[Cyc(p)])
      /\ FilesEdits(pc[p], files[Cyc(p)], files[Cyc(p)])
      /\ CallsEdits(pc[p], calls[Cyc(p)], calls[Cyc(p)])
  BY <1>1 DEF KernelEdits, BacklogEdits, FilesEdits, CallsEdits
<1> QED BY <1>2 DEF TypeOK, World, world

\* What receipt.Build makes of a document is a document.
LEMMA ContentDoc ==
  ASSUME NEW m \in CycleDoc
  PROVE  Content(m) \in CycleDoc
<1> DEFINE s == IF m.stage = "failed" THEN "failed" ELSE "completed"
           n == [m EXCEPT !.stage = s, !.signed = 0, !.digest = 0,
                          !.events = @ \ {"completed"}]
<1>1. s \in Stages
  BY DEF Stages
<1>2. Content(m) = SetKey(n, "receipt:attempt", "none")
  BY DEF Content
<1> HIDE DEF s
<1>3. n \in CycleDoc
  BY <1>1 DEF CycleDoc
<1> HIDE DEF n
<1>4. SetKey(n, "receipt:attempt", "none") \in CycleDoc
  BY <1>3 DEF CycleDoc, SetKey, Keys, Marks
<1> QED BY <1>2, <1>4

\* Services: the shared procedures.
LEMMA ServiceWorld ==
  ASSUME NEW p \in Procs, Here(p),
         \/ EnsureStageEvent(p) \/ SaveStageEvent(p) \/ Fail(p)
         \/ BeginAdvance(p) \/ AdvanceRun(p) \/ FinishAdvance(p)
  PROVE  World(p)
<1>1. CASE EnsureStageEvent(p)
  <2> DEFINE x == [kernel[Cyc(p)] EXCEPT !.events = @ \cup {mem[p].stage}]
  <2>1. KernelEdits(pc[p], kernel[Cyc(p)], x)
    BY <1>1, HereWorld, KernelFields DEF EnsureStageEvent, At
  <2>3. /\ kernel' \in {kernel, [kernel EXCEPT ![Cyc(p)] = x]}
        /\ UNCHANGED <<backlog, files, calls, latest>>
    BY <1>1 DEF EnsureStageEvent
  <2> HIDE DEF x
  <2> QED BY <2>1, <2>3, KernelWorld
<1>2. CASE SaveStageEvent(p)
  BY <1>2, QuietWorld DEF Here, SaveStageEvent
<1>3. CASE Fail(p)
  BY <1>3, QuietWorld DEF Here, Fail
<1>4. CASE BeginAdvance(p)
  BY <1>4, QuietWorld DEF Here, BeginAdvance
<1>5. CASE AdvanceRun(p)
  <2> DEFINE x == [kernel[Cyc(p)] EXCEPT !.phase = NextPhase[@]]
  <2>1. kernel[Cyc(p)].phase \in Phases /\ pc[p] = "advanceRun"
    BY <1>5 DEF Here, Registers, AdvanceRun, At
  <2>2. NextPhase[kernel[Cyc(p)].phase] \in Phases
    BY <2>1 DEF Phases, NextPhase
  <2>3. KernelEdits(pc[p], kernel[Cyc(p)], x)
    BY <2>1, <2>2, HereWorld, KernelFields
  <2>4. /\ kernel' \in {kernel, [kernel EXCEPT ![Cyc(p)] = x]}
        /\ UNCHANGED <<backlog, files, calls, latest>>
    BY <1>5 DEF AdvanceRun
  <2> HIDE DEF x
  <2> QED BY <2>3, <2>4, KernelWorld
<1>6. CASE FinishAdvance(p)
  BY <1>6, QuietWorld DEF Here, FinishAdvance
<1> QED
  BY <1>1, <1>2, <1>3, <1>4, <1>5, <1>6

\* Services: CycleObservation.
LEMMA ObservationWorld ==
  ASSUME NEW p \in Procs, Here(p),
         \/ StartLatest(p) \/ EnsureCycleRun(p) \/ SaveCycleRun(p)
         \/ ContinueObservation(p) \/ EnterObserving(p)
         \/ CaptureObservation(p) \/ Observe(p) \/ WriteObservation(p)
         \/ ClaimRegistration(p) \/ SendRegistration(p) \/ SaveObservation(p)
         \/ ClaimJudgment(p) \/ JudgeFirst(p) \/ SaveFirstAttempt(p)
         \/ FilterJudgment(p) \/ JudgeAgain(p) \/ SaveSecondAttempt(p)
         \/ RejectSecondAttempt(p) \/ WriteJudgment(p) \/ SaveJudgment(p)
         \/ AdvanceToRank(p) \/ EnterRanked(p) \/ FinishRanked(p)
  PROVE  World(p)
<1>1. CASE StartLatest(p)
  BY <1>1, LatestWorld DEF StartLatest
<1>2. CASE EnsureCycleRun(p)
  <2> DEFINE v == IF kernel[Cyc(p)].phase = Absent THEN "observe" ELSE kernel[Cyc(p)].phase
             x == [kernel[Cyc(p)] EXCEPT !.phase = v]
  <2>1. v \in Phases /\ pc[p] = "ensureRun"
    BY <1>2, HereWorld DEF KernelType, Absent, Phases, EnsureCycleRun, At
  <2>2. /\ kernel' \in {kernel, [kernel EXCEPT ![Cyc(p)] = x]}
        /\ UNCHANGED <<backlog, files, calls, latest>>
    BY <1>2 DEF EnsureCycleRun
  <2> HIDE DEF v
  <2>3. KernelEdits(pc[p], kernel[Cyc(p)], x)
    BY <2>1, HereWorld, KernelFields
  <2> HIDE DEF x
  <2> QED BY <2>2, <2>3, KernelWorld
<1>3. CASE SaveCycleRun(p)
  BY <1>3, QuietWorld DEF Here, SaveCycleRun
<1>4. CASE ContinueObservation(p)
  BY <1>4, LatestWorld DEF ContinueObservation
<1>5. CASE EnterObserving(p)
  BY <1>5, QuietWorld DEF Here, EnterObserving
<1>6. CASE CaptureObservation(p)
  BY <1>6, QuietWorld DEF Here, CaptureObservation
<1>7. CASE Observe(p)
  <2> DEFINE x == [kernel[Cyc(p)] EXCEPT !.replays["components"] = @ + 1]
  <2>1. KernelEdits(pc[p], kernel[Cyc(p)], x)
    BY <1>7, HereWorld, KernelFields DEF Observe, At, ReplayKinds, Registrations
  <2>3. /\ kernel' \in {kernel, [kernel EXCEPT ![Cyc(p)] = x]}
        /\ UNCHANGED <<backlog, files, calls, latest>>
    BY <1>7 DEF Observe
  <2> HIDE DEF x
  <2> QED BY <2>1, <2>3, KernelWorld
<1>8. CASE WriteObservation(p)
  <2> DEFINE f == [files[Cyc(p)] EXCEPT !.observation = TRUE]
  <2>1. FilesEdits(pc[p], files[Cyc(p)], f)
    BY <1>8, HereWorld, FilesFields DEF WriteObservation, At
  <2>2. /\ files' \in {files, [files EXCEPT ![Cyc(p)] = f]}
        /\ UNCHANGED <<kernel, backlog, calls, latest>>
    BY <1>8 DEF WriteObservation
  <2> HIDE DEF f
  <2> QED BY <2>1, <2>2, FilesWorld, HereWorld
<1>9. CASE ClaimRegistration(p)
  BY <1>9, QuietWorld DEF Here, ClaimRegistration
<1>10. CASE SendRegistration(p)
  <2> DEFINE x == [kernel[Cyc(p)] EXCEPT !.replays["observation"] = @ + 1]
  <2>1. KernelEdits(pc[p], kernel[Cyc(p)], x)
    BY <1>10, HereWorld, KernelFields DEF SendRegistration, At, ReplayKinds, Registrations
  <2>3. /\ kernel' \in {kernel, [kernel EXCEPT ![Cyc(p)] = x]}
        /\ UNCHANGED <<backlog, files, calls, latest>>
    BY <1>10 DEF SendRegistration
  <2> HIDE DEF x
  <2> QED BY <2>1, <2>3, KernelWorld
<1>11. CASE SaveObservation(p)
  BY <1>11, QuietWorld DEF Here, SaveObservation
<1>12. CASE ClaimJudgment(p)
  BY <1>12, QuietWorld DEF Here, ClaimJudgment
<1>13. CASE JudgeFirst(p)
  <2> DEFINE n == [calls[Cyc(p)] EXCEPT !.judge = @ + 1]
  <2>1. CallsEdits(pc[p], calls[Cyc(p)], n)
    BY <1>13, HereWorld, CallsFields DEF JudgeFirst, InvokeJudge, At
  <2>2. /\ calls' = [calls EXCEPT ![Cyc(p)] = n]
        /\ UNCHANGED <<kernel, backlog, files, latest>>
    BY <1>13 DEF JudgeFirst, InvokeJudge
  <2> HIDE DEF n
  <2> QED BY <2>1, <2>2, FilesWorld, HereWorld
<1>14. CASE SaveFirstAttempt(p)
  BY <1>14, QuietWorld DEF Here, SaveFirstAttempt
<1>15. CASE FilterJudgment(p)
  BY <1>15, QuietWorld DEF Here, FilterJudgment
<1>16. CASE JudgeAgain(p)
  <2> DEFINE n == [calls[Cyc(p)] EXCEPT !.judge = @ + 1]
  <2>1. CallsEdits(pc[p], calls[Cyc(p)], n)
    BY <1>16, HereWorld, CallsFields DEF JudgeAgain, InvokeJudge, At
  <2>2. /\ calls' = [calls EXCEPT ![Cyc(p)] = n]
        /\ UNCHANGED <<kernel, backlog, files, latest>>
    BY <1>16 DEF JudgeAgain, InvokeJudge
  <2> HIDE DEF n
  <2> QED BY <2>1, <2>2, FilesWorld, HereWorld
<1>17. CASE SaveSecondAttempt(p)
  BY <1>17, QuietWorld DEF Here, SaveSecondAttempt
<1>18. CASE RejectSecondAttempt(p)
  BY <1>18, QuietWorld DEF Here, RejectSecondAttempt
<1>19. CASE WriteJudgment(p)
  <2> DEFINE f == [files[Cyc(p)] EXCEPT !.judgment = job[p].got]
  <2>1. FilesEdits(pc[p], files[Cyc(p)], f)
    BY <1>19, HereWorld, FilesFields DEF WriteJudgment, At, Here, Registers, Usable, Judged
  <2>2. /\ files' \in {files, [files EXCEPT ![Cyc(p)] = f]}
        /\ UNCHANGED <<kernel, backlog, calls, latest>>
    BY <1>19 DEF WriteJudgment
  <2> HIDE DEF f
  <2> QED BY <2>1, <2>2, FilesWorld, HereWorld
<1>20. CASE SaveJudgment(p)
  BY <1>20, QuietWorld DEF Here, SaveJudgment
<1>21. CASE AdvanceToRank(p)
  BY <1>21, QuietWorld DEF Here, AdvanceToRank
<1>22. CASE EnterRanked(p)
  BY <1>22, QuietWorld DEF Here, EnterRanked
<1>23. CASE FinishRanked(p)
  BY <1>23, QuietWorld DEF Here, FinishRanked
<1> QED
  BY <1>1, <1>2, <1>3, <1>4, <1>5, <1>6, <1>7, <1>8, <1>9, <1>10, <1>11,
     <1>12, <1>13, <1>14, <1>15, <1>16, <1>17, <1>18, <1>19, <1>20, <1>21,
     <1>22, <1>23

\* Services: CycleProposal.
LEMMA ProposalWorld ==
  ASSUME NEW p \in Procs, Here(p),
         ProposalStep(p)
  PROVE  World(p)
<1>1. CASE ResumeProposal(p)
  BY <1>1, QuietWorld DEF Here, ResumeProposal
<1>2. CASE LoadSnapshot(p)
  BY <1>2, QuietWorld DEF Here, LoadSnapshot
<1>3. CASE ListBacklog(p)
  BY <1>3, QuietWorld DEF Here, ListBacklog
<1>4. CASE CreateExperiment(p)
  <2> DEFINE x == [backlog[Cyc(p)] EXCEPT !.experiments = @ + 1]
  <2>1. BacklogEdits(pc[p], backlog[Cyc(p)], x)
    BY <1>4, HereWorld, BacklogFields DEF CreateExperiment, At
  <2>3. /\ backlog' \in {backlog, [backlog EXCEPT ![Cyc(p)] = x]}
        /\ UNCHANGED <<kernel, files, calls, latest>>
    BY <1>4 DEF CreateExperiment
  <2> HIDE DEF x
  <2> QED BY <2>1, <2>3, BacklogWorld
<1>5. CASE AdvanceToPropose(p)
  BY <1>5, QuietWorld DEF Here, AdvanceToPropose
<1>6. CASE EnterProposed(p)
  BY <1>6, QuietWorld DEF Here, EnterProposed
<1>7. CASE EnterAwaitingApproval(p)
  BY <1>7, QuietWorld DEF Here, EnterAwaitingApproval
<1>8. CASE WriteSnapshot(p)
  <2> DEFINE f == [files[Cyc(p)] EXCEPT !.backlog = TRUE]
  <2>1. FilesEdits(pc[p], files[Cyc(p)], f)
    BY <1>8, HereWorld, FilesFields DEF WriteSnapshot, At
  <2>2. /\ files' \in {files, [files EXCEPT ![Cyc(p)] = f]}
        /\ UNCHANGED <<kernel, backlog, calls, latest>>
    BY <1>8 DEF WriteSnapshot
  <2> HIDE DEF f
  <2> QED BY <2>1, <2>2, FilesWorld, HereWorld
<1>9. CASE SaveSnapshot(p)
  BY <1>9, QuietWorld DEF Here, SaveSnapshot
<1>10. CASE ClaimSnapshot(p)
  BY <1>10, QuietWorld DEF Here, ClaimSnapshot
<1>11. CASE SendSnapshot(p)
  <2> DEFINE x == [kernel[Cyc(p)] EXCEPT !.replays["proposal-backlog"] = @ + 1]
  <2>1. KernelEdits(pc[p], kernel[Cyc(p)], x)
    BY <1>11, HereWorld, KernelFields DEF SendSnapshot, At, ReplayKinds, Registrations
  <2>3. /\ kernel' \in {kernel, [kernel EXCEPT ![Cyc(p)] = x]}
        /\ UNCHANGED <<backlog, files, calls, latest>>
    BY <1>11 DEF SendSnapshot
  <2> HIDE DEF x
  <2> QED BY <2>1, <2>3, KernelWorld
<1>12. CASE SaveRegistered(p)
  BY <1>12, QuietWorld DEF Here, SaveRegistered
<1>13. CASE EnterNoOp(p)
  BY <1>13, QuietWorld DEF Here, EnterNoOp
<1>14. CASE CompleteNoOp(p)
  BY <1>14, QuietWorld DEF Here, CompleteNoOp
<1> QED
  BY <1>1, <1>2, <1>3, <1>4, <1>5, <1>6, <1>7, <1>8, <1>9, <1>10, <1>11,
     <1>12, <1>13, <1>14 DEF ProposalStep

\* Services: CycleDecision.
LEMMA DecisionWorld ==
  ASSUME NEW p \in Procs, Here(p),
         DecisionStep(p)
  PROVE  World(p)
<1>1. CASE Approve(p)
  BY <1>1, QuietWorld DEF Here, Approve
<1>2. CASE Decline(p)
  BY <1>2, QuietWorld DEF Here, Decline
<1>3. CASE EnterDeclined(p)
  BY <1>3, QuietWorld DEF Here, EnterDeclined
<1>4. CASE CloseDeclined(p)
  <2> DEFINE x == [backlog[Cyc(p)] EXCEPT !.closed = TRUE]
  <2>1. BacklogEdits(pc[p], backlog[Cyc(p)], x)
    BY <1>4, HereWorld, BacklogFields DEF CloseDeclined, At
  <2>3. /\ backlog' \in {backlog, [backlog EXCEPT ![Cyc(p)] = x]}
        /\ UNCHANGED <<kernel, files, calls, latest>>
    BY <1>4 DEF CloseDeclined
  <2> HIDE DEF x
  <2> QED BY <2>1, <2>3, BacklogWorld
<1>5. CASE SaveDeclineClosed(p)
  BY <1>5, QuietWorld DEF Here, SaveDeclineClosed
<1>6. CASE CompleteDeclined(p)
  BY <1>6, QuietWorld DEF Here, CompleteDeclined
<1> QED
  BY <1>1, <1>2, <1>3, <1>4, <1>5, <1>6 DEF DecisionStep

\* Services: CycleExecution.
LEMMA ExecutionWorld ==
  ASSUME NEW p \in Procs, Here(p),
         ExecutionStep(p)
  PROVE  World(p)
<1>1. CASE PrepareExecution(p)
  BY <1>1, QuietWorld DEF Here, PrepareExecution
<1>2. CASE AdvanceToExecute(p)
  BY <1>2, QuietWorld DEF Here, AdvanceToExecute
<1>3. CASE EnterExecuting(p)
  BY <1>3, QuietWorld DEF Here, EnterExecuting
<1>4. CASE ClaimExecution(p)
  BY <1>4, QuietWorld DEF Here, ClaimExecution
<1>5. CASE InvokeExecutor(p)
  <2>1. PICK tree \in {"allowed", "stray"}, report \in {"none", "valid", "invalid"} :
          /\ files' = [files EXCEPT ![Cyc(p)].worktree = tree, ![Cyc(p)].report = report]
          /\ \/ \E usage \in {"within", "over"} :
                  calls' = [calls EXCEPT ![Cyc(p)].executor = @ + 1,
                                         ![Cyc(p)].overBudget = usage = "over"]
             \/ calls' = [calls EXCEPT ![Cyc(p)].executor = @ + 1]
    BY <1>5 DEF InvokeExecutor
  <2>2. pc[p] = "executor"
    BY <1>5 DEF InvokeExecutor, At
  <2> DEFINE f == [files[Cyc(p)] EXCEPT !.worktree = tree, !.report = report]
  <2>3. FilesEdits(pc[p], files[Cyc(p)], f)
    BY <2>2, HereWorld, FilesFields
  <2>4. files' = [files EXCEPT ![Cyc(p)] = f] /\ UNCHANGED <<kernel, backlog, latest>>
    BY <1>5, <2>1 DEF InvokeExecutor, Here, TypeOK
  <2>5. PICK n : /\ CallsEdits(pc[p], calls[Cyc(p)], n)
                 /\ calls' = [calls EXCEPT ![Cyc(p)] = n]
    <3> DEFINE Counted(n) == /\ CallsEdits(pc[p], calls[Cyc(p)], n)
                            /\ calls' = [calls EXCEPT ![Cyc(p)] = n]
    <3>1. CASE calls' = [calls EXCEPT ![Cyc(p)].executor = @ + 1]
      <4> DEFINE n == [calls[Cyc(p)] EXCEPT !.executor = @ + 1]
      <4>1. Counted(n)
        BY <2>2, <3>1, HereWorld, CallsFields
      <4> QED BY <4>1
    <3>2. ASSUME NEW usage \in {"within", "over"},
                 calls' = [calls EXCEPT ![Cyc(p)].executor = @ + 1,
                                        ![Cyc(p)].overBudget = usage = "over"]
          PROVE  \E n : Counted(n)
      <4> DEFINE n == [calls[Cyc(p)] EXCEPT !.executor = @ + 1, !.overBudget = usage = "over"]
      <4>1. CallsEdits(pc[p], calls[Cyc(p)], n)
        BY <2>2, HereWorld, CallsFields
      <4>2. calls' = [calls EXCEPT ![Cyc(p)] = n]
        BY <3>2 DEF Here, TypeOK
      <4> QED BY <4>1, <4>2
    <3> QED BY <2>1, <3>1, <3>2
  <2> HIDE DEF f
  <2> QED BY <2>3, <2>4, <2>5, FilesWorld
<1>6. CASE WriteReport(p)
  <2> DEFINE f == [files[Cyc(p)] EXCEPT !.report = "valid"]
  <2>1. FilesEdits(pc[p], files[Cyc(p)], f)
    BY <1>6, HereWorld, FilesFields DEF WriteReport, At
  <2>2. /\ files' \in {files, [files EXCEPT ![Cyc(p)] = f]}
        /\ UNCHANGED <<kernel, backlog, calls, latest>>
    BY <1>6 DEF WriteReport
  <2> HIDE DEF f
  <2> QED BY <2>1, <2>2, FilesWorld, HereWorld
<1>7. CASE CollectExecution(p)
  BY <1>7, QuietWorld DEF Here, CollectExecution
<1>8. CASE ClaimBenchmark(p)
  BY <1>8, QuietWorld DEF Here, ClaimBenchmark
<1>9. CASE Measure(p)
  <2> DEFINE n == [calls[Cyc(p)] EXCEPT !.benchmark = @ + 1]
  <2>1. CallsEdits(pc[p], calls[Cyc(p)], n)
    BY <1>9, HereWorld, CallsFields DEF Measure, At
  <2>2. /\ calls' = [calls EXCEPT ![Cyc(p)] = n]
        /\ UNCHANGED <<kernel, backlog, files, latest>>
    BY <1>9 DEF Measure
  <2> HIDE DEF n
  <2> QED BY <2>1, <2>2, FilesWorld, HereWorld
<1>10. CASE WriteMeasurement(p)
  <2> DEFINE f == [files[Cyc(p)] EXCEPT !.measurement = mem[p].measured]
  <2>1. FilesEdits(pc[p], files[Cyc(p)], f)
    BY <1>10, HereWorld, FilesFields DEF WriteMeasurement, At, CycleDoc
  <2>2. /\ files' \in {files, [files EXCEPT ![Cyc(p)] = f]}
        /\ UNCHANGED <<kernel, backlog, calls, latest>>
    BY <1>10 DEF WriteMeasurement
  <2> HIDE DEF f
  <2> QED BY <2>1, <2>2, FilesWorld, HereWorld
<1>11. CASE SaveMeasurement(p)
  BY <1>11, QuietWorld DEF Here, SaveMeasurement
<1>12. CASE AdvanceToReview(p)
  BY <1>12, QuietWorld DEF Here, AdvanceToReview
<1>13. CASE EnterReviewing(p)
  BY <1>13, QuietWorld DEF Here, EnterReviewing
<1> QED
  BY <1>1, <1>2, <1>3, <1>4, <1>5, <1>6, <1>7, <1>8, <1>9, <1>10, <1>11,
     <1>12, <1>13 DEF ExecutionStep

\* Services: CycleReview.
LEMMA ReviewWorld ==
  ASSUME NEW p \in Procs, Here(p),
         ReviewStep(p)
  PROVE  World(p)
<1>1. CASE ClaimReview(p)
  BY <1>1, QuietWorld DEF Here, ClaimReview
<1>2. CASE InvokeReviewer(p)
  <2> DEFINE n == [calls[Cyc(p)] EXCEPT !.reviewer = @ + 1]
  <2>1. CallsEdits(pc[p], calls[Cyc(p)], n)
    BY <1>2, HereWorld, CallsFields DEF InvokeReviewer, At
  <2>2. calls' = [calls EXCEPT ![Cyc(p)] = n] /\ UNCHANGED <<kernel, backlog, latest>>
    BY <1>2 DEF InvokeReviewer
  <2>3. PICK v \in Verdicts \cup {"uncited", "invalid", "none"} :
          files' \in {files, [files EXCEPT ![Cyc(p)].review = v]}
    BY <1>2 DEF InvokeReviewer
  <2> DEFINE f == [files[Cyc(p)] EXCEPT !.review = v]
  <2>4. FilesEdits(pc[p], files[Cyc(p)], f)
    BY <1>2, HereWorld, FilesFields DEF InvokeReviewer, At, MaybeVerdict
  <2>5. files' \in {files, [files EXCEPT ![Cyc(p)] = f]}
    BY <2>3
  <2> HIDE DEF n, f
  <2> QED BY <2>1, <2>2, <2>4, <2>5, FilesWorld
<1>3. CASE WriteReview(p)
  <2> DEFINE f == [files[Cyc(p)] EXCEPT !.review = job[p].got]
  <2>1. FilesEdits(pc[p], files[Cyc(p)], f)
    BY <1>3, HereWorld, FilesFields DEF WriteReview, At, Here, Registers, MaybeVerdict
  <2>2. /\ files' \in {files, [files EXCEPT ![Cyc(p)] = f]}
        /\ UNCHANGED <<kernel, backlog, calls, latest>>
    BY <1>3 DEF WriteReview
  <2> HIDE DEF f
  <2> QED BY <2>1, <2>2, FilesWorld, HereWorld
<1>4. CASE Resolve(p)
  BY <1>4, QuietWorld DEF Here, Resolve
<1>5. CASE AdvanceToCompound(p)
  BY <1>5, QuietWorld DEF Here, AdvanceToCompound
<1>6. CASE EnterCompounding(p)
  BY <1>6, QuietWorld DEF Here, EnterCompounding
<1> QED
  BY <1>1, <1>2, <1>3, <1>4, <1>5, <1>6 DEF ReviewStep

\* Services: CycleCompound.
LEMMA CompoundWorld ==
  ASSUME NEW p \in Procs, Here(p),
         CompoundStep(p)
  PROVE  World(p)
<1>1. CASE BeginCompound(p)
  BY <1>1, QuietWorld DEF Here, BeginCompound
<1>2. CASE DispatchCompound(p)
  BY <1>2, QuietWorld DEF Here, DispatchCompound
<1>3. CASE FindPromotion(p)
  BY <1>3, QuietWorld DEF Here, FindPromotion
<1>4. CASE CreatePromotion(p)
  <2> DEFINE x == [backlog[Cyc(p)] EXCEPT !.promotions = @ + 1]
  <2>1. BacklogEdits(pc[p], backlog[Cyc(p)], x)
    BY <1>4, HereWorld, BacklogFields DEF CreatePromotion, At
  <2>3. /\ backlog' \in {backlog, [backlog EXCEPT ![Cyc(p)] = x]}
        /\ UNCHANGED <<kernel, files, calls, latest>>
    BY <1>4 DEF CreatePromotion
  <2> HIDE DEF x
  <2> QED BY <2>1, <2>3, BacklogWorld
<1>5. CASE SavePromotion(p)
  BY <1>5, QuietWorld DEF Here, SavePromotion
<1>6. CASE CloseExperiment(p)
  <2> DEFINE x == [backlog[Cyc(p)] EXCEPT !.closed = TRUE]
  <2>1. BacklogEdits(pc[p], backlog[Cyc(p)], x)
    BY <1>6, HereWorld, BacklogFields DEF CloseExperiment, At
  <2>3. /\ backlog' \in {backlog, [backlog EXCEPT ![Cyc(p)] = x]}
        /\ UNCHANGED <<kernel, files, calls, latest>>
    BY <1>6 DEF CloseExperiment
  <2> HIDE DEF x
  <2> QED BY <2>1, <2>3, BacklogWorld
<1>7. CASE SaveClosed(p)
  BY <1>7, QuietWorld DEF Here, SaveClosed
<1>8. CASE RecordOutcome(p)
  <2> DEFINE x == [kernel[Cyc(p)] EXCEPT !.outcome = mem[p].final]
  <2>1. KernelEdits(pc[p], kernel[Cyc(p)], x)
    BY <1>8, HereWorld, KernelFields DEF RecordOutcome, At, CycleDoc
  <2>3. /\ kernel' \in {kernel, [kernel EXCEPT ![Cyc(p)] = x]}
        /\ UNCHANGED <<backlog, files, calls, latest>>
    BY <1>8 DEF RecordOutcome
  <2> HIDE DEF x
  <2> QED BY <2>1, <2>3, KernelWorld
<1>9. CASE SaveOutcome(p)
  BY <1>9, QuietWorld DEF Here, SaveOutcome
<1>10. CASE BeginFeedback(p)
  BY <1>10, QuietWorld DEF Here, BeginFeedback
<1>11. CASE SendFeedback(p)
  <2>1. PICK d \in NextFeedback(mem[p]) :
          kernel' \in {kernel, [kernel EXCEPT ![Cyc(p)].feedback = @ \cup {d}]}
    BY <1>11 DEF SendFeedback
  <2> DEFINE x == [kernel[Cyc(p)] EXCEPT !.feedback = @ \cup {d}]
  <2>2. KernelEdits(pc[p], kernel[Cyc(p)], x)
    BY <1>11, HereWorld, KernelFields DEF SendFeedback, At, NextFeedback
  <2>4. /\ kernel' \in {kernel, [kernel EXCEPT ![Cyc(p)] = x]}
        /\ UNCHANGED <<backlog, files, calls, latest>>
    BY <1>11, <2>1 DEF SendFeedback
  <2> HIDE DEF x
  <2> QED BY <2>2, <2>4, KernelWorld
<1>12. CASE SaveFeedback(p)
  BY <1>12, QuietWorld DEF Here, SaveFeedback
<1>13. CASE BeginRoadmap(p)
  BY <1>13, QuietWorld DEF Here, BeginRoadmap
<1>14. CASE SyncRoadmap(p)
  <2> DEFINE v == IF backlog[Cyc(p)].closed THEN "closed" ELSE "open"
             x == [backlog[Cyc(p)] EXCEPT !.roadmap = v]
  <2>1. BacklogEdits(pc[p], backlog[Cyc(p)], x)
    BY <1>14, HereWorld, BacklogFields DEF SyncRoadmap, At, RoadmapView
  <2>3. /\ backlog' \in {backlog, [backlog EXCEPT ![Cyc(p)] = x]}
        /\ UNCHANGED <<kernel, files, calls, latest>>
    BY <1>14 DEF SyncRoadmap
  <2> HIDE DEF x
  <2> QED BY <2>1, <2>3, BacklogWorld
<1>15. CASE UndoRoadmap(p)
  BY <1>15, QuietWorld DEF Here, UndoRoadmap
<1>16. CASE WriteRoadmap(p)
  <2> DEFINE f == [files[Cyc(p)] EXCEPT !.roadmap = backlog[Cyc(p)].roadmap]
  <2>1. FilesEdits(pc[p], files[Cyc(p)], f)
    BY <1>16, HereWorld, FilesFields DEF WriteRoadmap, At, BacklogType
  <2>2. /\ files' \in {files, [files EXCEPT ![Cyc(p)] = f]}
        /\ UNCHANGED <<kernel, backlog, calls, latest>>
    BY <1>16 DEF WriteRoadmap
  <2> HIDE DEF f
  <2> QED BY <2>1, <2>2, FilesWorld, HereWorld
<1>17. CASE SaveRoadmap(p)
  BY <1>17, QuietWorld DEF Here, SaveRoadmap
<1>18. CASE CheckRoadmap(p)
  BY <1>18, QuietWorld DEF Here, CheckRoadmap
<1>19. CASE Terminalize(p)
  BY <1>19, QuietWorld DEF Here, Terminalize
<1>20. CASE BuildReceipt(p)
  <2> DEFINE f == [files[Cyc(p)] EXCEPT !.receipt = Content(mem[p]), !.digest = @ + 1]
  <2>1. FilesEdits(pc[p], files[Cyc(p)], f)
    BY <1>20, HereWorld, ContentDoc, FilesFields DEF BuildReceipt, At
  <2>2. /\ files' \in {files, [files EXCEPT ![Cyc(p)] = f]}
        /\ UNCHANGED <<kernel, backlog, calls, latest>>
    BY <1>20 DEF BuildReceipt
  <2> HIDE DEF f
  <2> QED BY <2>1, <2>2, FilesWorld, HereWorld
<1>21. CASE SaveReceipt(p)
  BY <1>21, QuietWorld DEF Here, SaveReceipt
<1>22. CASE FindReceipt(p)
  BY <1>22, QuietWorld DEF Here, FindReceipt
<1>23. CASE EmitReceipt(p)
  <2> DEFINE x == [kernel[Cyc(p)] EXCEPT !.ledger = Append(@, mem[p].digest)]
  <2>1. mem[p].digest \in Nat /\ pc[p] = "emitSend"
    BY <1>23, HereWorld DEF CycleDoc, EmitReceipt, At
  <2>2. KernelEdits(pc[p], kernel[Cyc(p)], x)
    BY <2>1, HereWorld, KernelLedger
  <2>3. /\ kernel' \in {kernel, [kernel EXCEPT ![Cyc(p)] = x]}
        /\ UNCHANGED <<backlog, files, calls, latest>>
    BY <1>23 DEF EmitReceipt
  <2> HIDE DEF x
  <2> QED BY <2>2, <2>3, KernelWorld
<1>24. CASE AcceptReceipt(p)
  <2> DEFINE exact == Receipts(Cyc(p), mem[p].digest)
             id == IF files[Cyc(p)].signature # 0 THEN files[Cyc(p)].signature
                   ELSE CHOOSE i \in exact : \A j \in exact : i <= j
             f == [files[Cyc(p)] EXCEPT !.signature = id]
  <2>1. CASE UNCHANGED files
    BY <1>24, <2>1, QuietWorld DEF AcceptReceipt, Here, world
  <2>2. CASE id \in exact
    <3>1. exact \subseteq Nat
      BY HereWorld DEF KernelType, Receipts
    <3>2. id \in Nat
      BY <2>2, <3>1
    <3> HIDE DEF id
    <3>3. FilesEdits(pc[p], files[Cyc(p)], f)
      BY <1>24, <3>2, HereWorld, FilesFields DEF AcceptReceipt, At
    <3>4. /\ files' \in {files, [files EXCEPT ![Cyc(p)] = f]}
          /\ UNCHANGED <<kernel, backlog, calls, latest>>
      BY <1>24 DEF AcceptReceipt, id
    <3> HIDE DEF f
    <3> QED BY <3>3, <3>4, FilesWorld, HereWorld
  <2> QED BY <1>24, <2>1, <2>2 DEF AcceptReceipt, MayAccept
<1>25. CASE SaveSignature(p)
  BY <1>25, QuietWorld DEF Here, SaveSignature
<1>26. CASE Complete(p)
  BY <1>26, QuietWorld DEF Here, Complete
<1> QED
  BY <1>1, <1>2, <1>3, <1>4, <1>5, <1>6, <1>7, <1>8, <1>9, <1>10, <1>11,
     <1>12, <1>13, <1>14, <1>15, <1>16, <1>17, <1>18, <1>19, <1>20, <1>21,
     <1>22, <1>23, <1>24, <1>25, <1>26 DEF CompoundStep

-----------------------------------------------------------------------------
(* The control. *)

\* The labels at which a handler relies on no register.
Plain ==
  Labels \ (Outside \cup {"start", "event", "eventSave", "advance", "advanceRun",
                          "advanceSave", "judgmentWrite", "judged", "reviewWrite", "resolve"})

\* p goes to l, within the budget of faults.
Goes(p, l) == Goto(p, l) /\ faults' \in 0..MaxFaults

\* The values of job.got.
Gots == {"none", "other", "select", "noop", "invalid", "bad", "within", "over", "unknown",
         "uncited"} \cup Verdicts

\* A shared procedure returns to a label at which nothing is needed.
LEMMA ContsPlain == Conts \subseteq Plain /\ Conts \subseteq Labels
BY DEF Conts, Plain, Outside, Labels, ServiceLabels, ObservationLabels, ProposalLabels,
       DecisionLabels, ExecutionLabels, ReviewLabels, CompoundLabels

\* Goto, Continue, Raise and Jump, seen as Goes.
LEMMA CallsGo ==
  ASSUME NEW p \in Procs, TypeOK, NEW l
  PROVE  /\ Continue(p, l) => Goes(p, l)
         /\ Raise(p, l) => Goes(p, l)
         /\ Jump(p, l) => Goes(p, l)
         /\ Goto(p, l) /\ UNCHANGED faults => Goes(p, l)
BY ServiceAssumption DEF Continue, Raise, Jump, Goes, TypeOK

\* persist goes on or raises an error.
LEMMA PersistGoes ==
  ASSUME NEW p \in Procs, TypeOK, NEW m, NEW next, NEW onError,
         Persist(p, m, next, onError)
  PROVE  Goes(p, next) \/ Goes(p, onError)
BY CallsGo DEF Persist

\* A transition ends at the event of the new stage, with its continuation in
\* the register, or on the way out.
LEMMA TransitionGoes ==
  ASSUME NEW p \in Procs, TypeOK, NEW m, NEW next, NEW k, Transition(p, m, next, k)
  PROVE  \/ Goes(p, "event") /\ job' = [job EXCEPT ![p].ret = k]
         \/ Goes(p, "release") /\ job' \in {job, [job EXCEPT ![p].ret = k]}
<1>1. CASE ValidateTransition(m.stage, next)
  BY <1>1, PersistGoes DEF Transition
<1>2. CASE ~ValidateTransition(m.stage, next)
  BY <1>2, CallsGo DEF Transition
<1> QED BY <1>1, <1>2

\* Writing a register leaves the operation and the cycle alone.
LEMMA JobFields ==
  ASSUME NEW j \in Jobs
  PROVE  /\ \A v \in Labels : /\ [j EXCEPT !.ret = v] \in Jobs
                              /\ [j EXCEPT !.ret = v].ret = v
                              /\ [j EXCEPT !.ret = v].cyc = j.cyc
                              /\ [j EXCEPT !.ret = v].op = j.op
         /\ \A v \in Gots : /\ [j EXCEPT !.got = v] \in Jobs
                            /\ [j EXCEPT !.got = v].got = v
                            /\ [j EXCEPT !.got = v].cyc = j.cyc
                            /\ [j EXCEPT !.got = v].op = j.op
         /\ \A v \in RunKeys \cup TerminalKeys :
              /\ [j EXCEPT !.adv = v] \in Jobs
              /\ [j EXCEPT !.adv = v].cyc = j.cyc
              /\ [j EXCEPT !.adv = v].op = j.op
         /\ \A v \in RunKeys \cup TerminalKeys, w \in Labels :
              [[j EXCEPT !.adv = v] EXCEPT !.ret = w].adv = v
BY DEF Jobs, Gots

\* The operation goes on at l with registers j, and j holds what l needs.
LEMMA RegisterControl ==
  ASSUME NEW p \in Procs, Here(p), UNCHANGED lock,
         NEW l \in Labels \ (Outside \cup {"start"}), Goes(p, l),
         NEW j \in Jobs, job' = [job EXCEPT ![p] = j],
         j.cyc = job[p].cyc, j.op = job[p].op,
         l \in {"event", "eventSave", "advance", "advanceRun", "advanceSave"} =>
           j.ret \in Conts,
         l \in {"advance", "advanceRun", "advanceSave"} =>
           j.adv \in RunKeys \cup TerminalKeys,
         l = "advanceRun" => kernel'[Cyc(p)].phase \in Phases,
         l \in {"judgmentWrite", "judged"} => j.got \in Usable,
         l \in {"reviewWrite", "resolve"} => j.got \in Verdicts \cup {"uncited"}
  PROVE  Control(p)
<1>1. /\ pc' = [pc EXCEPT ![p] = l] /\ pc'[p] = l /\ job'[p] = j
      /\ pc[p] # "idle" /\ Cyc(p) \in Cycles /\ job[p].op \in Ops
  BY DEF Here, Registers, TypeOK, Goes, Goto, Running, Critical, Outside
<1>2. Cyc(p)' = Cyc(p)
  BY <1>1 DEF Cyc
<1>3. Registers(p)'
  BY <1>1, <1>2 DEF Registers
<1> QED BY <1>1, <1>3 DEF Control, Goes

\* The registers are kept, and hold what l needs.
LEMMA KeepControl ==
  ASSUME NEW p \in Procs, Here(p), UNCHANGED <<lock, job>>,
         NEW l \in Labels \ (Outside \cup {"start"}), Goes(p, l),
         l \in {"event", "eventSave", "advance", "advanceRun", "advanceSave"} =>
           job[p].ret \in Conts,
         l \in {"advance", "advanceRun", "advanceSave"} =>
           job[p].adv \in RunKeys \cup TerminalKeys,
         l = "advanceRun" => kernel'[Cyc(p)].phase \in Phases,
         l \in {"judgmentWrite", "judged"} => job[p].got \in Usable,
         l \in {"reviewWrite", "resolve"} => job[p].got \in Verdicts \cup {"uncited"}
  PROVE  Control(p)
<1>1. job[p] \in Jobs /\ job' = [job EXCEPT ![p] = job[p]]
  BY DEF Here, TypeOK
<1> QED BY <1>1, RegisterControl

\* Nothing needed, nothing written.
LEMMA PlainControl ==
  ASSUME NEW p \in Procs, Here(p), UNCHANGED <<lock, job>>, NEW l \in Plain, Goes(p, l)
  PROVE  Control(p)
BY KeepControl DEF Plain

\* The register of answers written, and perhaps needed.
LEMMA GotControl ==
  ASSUME NEW p \in Procs, Here(p), UNCHANGED lock, NEW v \in Gots, Got(p, v),
         NEW l \in Plain \cup {"judgmentWrite", "judged", "reviewWrite", "resolve"},
         Goes(p, l),
         l \in {"judgmentWrite", "judged"} => v \in Usable,
         l \in {"reviewWrite", "resolve"} => v \in Verdicts \cup {"uncited"}
  PROVE  Control(p)
<1> DEFINE j == [job[p] EXCEPT !.got = v]
<1>1. job[p] \in Jobs /\ job' = [job EXCEPT ![p] = j]
  BY DEF Here, TypeOK, Got
<1>2. j \in Jobs /\ j.got = v /\ j.cyc = job[p].cyc /\ j.op = job[p].op
  BY <1>1, JobFields
<1> HIDE DEF j
<1> QED BY <1>1, <1>2, RegisterControl DEF Plain, Outside, Labels, ObservationLabels, ReviewLabels

\* A continuation written, for the event.
LEMMA EventControl ==
  ASSUME NEW p \in Procs, Here(p), UNCHANGED lock, NEW k \in Conts,
         job' = [job EXCEPT ![p].ret = k],
         NEW l \in {"event", "release"}, Goes(p, l)
  PROVE  Control(p)
<1> DEFINE j == [job[p] EXCEPT !.ret = k]
<1>1. job[p] \in Jobs /\ job' = [job EXCEPT ![p] = j]
  BY DEF Here, TypeOK
<1>2. k \in Labels
  BY ContsPlain
<1>3. j \in Jobs /\ j.ret = k /\ j.cyc = job[p].cyc /\ j.op = job[p].op
  BY <1>1, <1>2, JobFields
<1> HIDE DEF j
<1> QED BY <1>1, <1>3, RegisterControl DEF Outside, Labels, ServiceLabels

\* A transition of p to a stage.
LEMMA TransitionControl ==
  ASSUME NEW p \in Procs, Here(p), UNCHANGED lock,
         NEW m, NEW next, NEW k \in Conts, Transition(p, m, next, k)
  PROVE  Control(p)
<1>1. CASE Goes(p, "release") /\ job' = job
  BY <1>1, PlainControl DEF Plain, Outside, Labels, ServiceLabels
<1>2. CASE Goes(p, "event") /\ job' = [job EXCEPT ![p].ret = k]
  BY <1>2, EventControl
<1>3. CASE Goes(p, "release") /\ job' = [job EXCEPT ![p].ret = k]
  BY <1>3, EventControl
<1> QED BY <1>1, <1>2, <1>3, TransitionGoes DEF Here

\* The call of advanceOnce.
LEMMA AdvanceControl ==
  ASSUME NEW p \in Procs, Here(p), UNCHANGED lock,
         NEW k \in RunKeys \cup TerminalKeys, NEW cont \in Conts, Advance(p, k, cont)
  PROVE  Control(p)
<1> DEFINE i == [job[p] EXCEPT !.adv = k]
           j == [i EXCEPT !.ret = cont]
<1>1. job[p] \in Jobs /\ job' = [job EXCEPT ![p] = j]
  BY DEF Here, TypeOK, Advance
<1>2. cont \in Labels
  BY ContsPlain
<1>3. i \in Jobs /\ i.cyc = job[p].cyc /\ i.op = job[p].op /\ j.adv = k
  BY <1>1, <1>2, JobFields
<1>4. Goes(p, "advance")
  BY CallsGo DEF Here, Advance
<1> HIDE DEF i
<1>5. j \in Jobs /\ j.ret = cont /\ j.cyc = job[p].cyc /\ j.op = job[p].op
  BY <1>2, <1>3, JobFields
<1>6. "advance" \in Labels \ (Outside \cup {"start"})
  BY DEF Outside, Labels, ServiceLabels
<1>7. j.adv = k /\ job' = [job EXCEPT ![p] = j]
  BY <1>1, <1>3
<1> HIDE DEF j
<1> QED BY <1>4, <1>5, <1>6, <1>7, RegisterControl

\* The key of each phase a run may still have to be brought to.
LEMMA TerminalKeyTarget ==
  ASSUME NEW ph \in Phases \ {"observe"}
  PROVE  TerminalKey[ph] \in TerminalKeys
<1>1. \E k \in TerminalKeys : Target[k] = ph
  BY DEF Phases, TerminalKeys, Target
<1> QED BY <1>1 DEF TerminalKey

\* Control: the shared procedures.
LEMMA ServiceControl ==
  ASSUME NEW p \in Procs, Here(p),
         \/ EnsureStageEvent(p) \/ SaveStageEvent(p) \/ Fail(p)
         \/ BeginAdvance(p) \/ AdvanceRun(p) \/ FinishAdvance(p)
  PROVE  Control(p)
<1>1. CASE EnsureStageEvent(p)
  <2>1. job[p].ret \in Conts
    BY <1>1 DEF EnsureStageEvent, Here, Registers, At
  <2>2. CASE Goes(p, job[p].ret) \/ Goes(p, "release")
    BY <1>1, <2>1, <2>2, ContsPlain, PlainControl
    DEF EnsureStageEvent, Plain, Labels, ServiceLabels, Outside
  <2>3. CASE Goes(p, "eventSave")
    BY <1>1, <2>1, <2>3, KeepControl DEF EnsureStageEvent, Labels, ServiceLabels, Outside
  <2> QED BY <1>1, <2>2, <2>3, CallsGo DEF EnsureStageEvent, Here
<1>2. CASE SaveStageEvent(p)
  <2>1. job[p].ret \in Conts
    BY <1>2 DEF SaveStageEvent, Here, Registers, At
  <2>2. Goes(p, job[p].ret) \/ Goes(p, "release")
    BY <1>2, PersistGoes DEF SaveStageEvent, Here
  <2> QED
    BY <1>2, <2>1, <2>2, ContsPlain, PlainControl
    DEF SaveStageEvent, Plain, Labels, ServiceLabels, Outside
<1>3. CASE Fail(p)
  <2>1. CASE Goes(p, "release") /\ UNCHANGED job
    BY <1>3, <2>1, PlainControl DEF Fail, Plain, Labels, ServiceLabels, Outside
  <2>2. CASE Transition(p, mem[p], "failed", "release")
    BY <1>3, <2>2, TransitionControl DEF Fail, Conts
  <2> QED BY <1>3, <2>1, <2>2, CallsGo DEF Fail, Here
<1>4. CASE BeginAdvance(p)
  <2>1. /\ job[p].ret \in Conts /\ job[p].adv \in RunKeys \cup TerminalKeys
        /\ AdvanceError(job[p].adv) \in {"fail", "release"}
    BY <1>4 DEF BeginAdvance, Here, Registers, At, AdvanceError
  <2>2. CASE \/ Goes(p, job[p].ret) \/ Goes(p, AdvanceError(job[p].adv))
    BY <1>4, <2>1, <2>2, ContsPlain, PlainControl
    DEF BeginAdvance, Plain, Labels, ServiceLabels, Outside
  <2>3. CASE /\ Goes(p, "advanceRun")
             /\ kernel[Cyc(p)].phase = PreviousPhase[Target[job[p].adv]]
    <3>1. Target[job[p].adv] \in Phases
      BY <2>1 DEF Target, Phases, RunKeys, TerminalKeys
    <3>2. kernel[Cyc(p)].phase \in Phases
      BY <2>3, <3>1 DEF PreviousPhase, Phases
    <3>3. kernel' = kernel
      BY <1>4 DEF BeginAdvance, world
    <3> QED
      BY <1>4, <2>1, <2>3, <3>2, <3>3, KeepControl
      DEF BeginAdvance, Labels, ServiceLabels, Outside
  <2> QED BY <1>4, <2>2, <2>3, CallsGo, PersistGoes DEF BeginAdvance, Here
<1>5. CASE AdvanceRun(p)
  <2>1. /\ job[p].ret \in Conts /\ job[p].adv \in RunKeys \cup TerminalKeys
        /\ AdvanceError(job[p].adv) \in {"fail", "release"}
    BY <1>5 DEF AdvanceRun, Here, Registers, At, AdvanceError
  <2>2. CASE Goes(p, AdvanceError(job[p].adv))
    BY <1>5, <2>1, <2>2, PlainControl DEF AdvanceRun, Plain, Labels, ServiceLabels, Outside
  <2>3. CASE Goes(p, "advanceSave")
    BY <1>5, <2>1, <2>3, KeepControl DEF AdvanceRun, Labels, ServiceLabels, Outside
  <2> QED BY <1>5, <2>2, <2>3, CallsGo DEF AdvanceRun, Here
<1>6. CASE FinishAdvance(p)
  <2>1. job[p].ret \in Conts /\ AdvanceError(job[p].adv) \in {"fail", "release"}
    BY <1>6 DEF FinishAdvance, Here, Registers, At, AdvanceError
  <2>2. Goes(p, job[p].ret) \/ Goes(p, AdvanceError(job[p].adv))
    BY <1>6, PersistGoes DEF FinishAdvance, Here
  <2> QED
    BY <1>6, <2>1, <2>2, ContsPlain, PlainControl
    DEF FinishAdvance, Plain, Labels, ServiceLabels, Outside
<1> QED
  BY <1>1, <1>2, <1>3, <1>4, <1>5, <1>6

\* Control: CycleObservation.
LEMMA ObservationControl ==
  ASSUME NEW p \in Procs, Here(p),
         \/ StartLatest(p) \/ EnsureCycleRun(p) \/ SaveCycleRun(p)
         \/ ContinueObservation(p) \/ EnterObserving(p)
         \/ CaptureObservation(p) \/ Observe(p) \/ WriteObservation(p)
         \/ ClaimRegistration(p) \/ SendRegistration(p) \/ SaveObservation(p)
         \/ ClaimJudgment(p) \/ JudgeFirst(p) \/ SaveFirstAttempt(p)
         \/ FilterJudgment(p) \/ JudgeAgain(p) \/ SaveSecondAttempt(p)
         \/ RejectSecondAttempt(p) \/ WriteJudgment(p) \/ SaveJudgment(p)
         \/ AdvanceToRank(p) \/ EnterRanked(p) \/ FinishRanked(p)
  PROVE  Control(p)
<1>1. CASE StartLatest(p)
  BY <1>1, CallsGo, PlainControl DEF StartLatest, Here, Plain, Outside,
     Labels, ServiceLabels, ObservationLabels
<1>2. CASE EnsureCycleRun(p)
  BY <1>2, CallsGo, PlainControl DEF EnsureCycleRun, Here, Plain, Outside,
     Labels, ServiceLabels, ObservationLabels
<1>3. CASE SaveCycleRun(p)
  BY <1>3, PersistGoes, PlainControl DEF SaveCycleRun, Here, Plain, Outside,
     Labels, ServiceLabels, ObservationLabels
<1>4. CASE ContinueObservation(p)
  <2>1. CASE Call(p, "event", "finishRanked") /\ UNCHANGED faults
    BY <1>4, <2>1, CallsGo, EventControl DEF ContinueObservation, Call, Conts, Here
  <2>2. CASE (Goes(p, "observing") \/ Goes(p, "release")) /\ UNCHANGED job
    BY <1>4, <2>2, PlainControl
    DEF ContinueObservation, Plain, Labels, ServiceLabels, ObservationLabels, Outside
  <2> QED BY <1>4, <2>1, <2>2, CallsGo DEF ContinueObservation, Here
<1>5. CASE EnterObserving(p)
  <2>1. CASE Transition(p, mem[p], "observing", "capture")
    BY <1>5, <2>1, TransitionControl DEF EnterObserving, Conts
  <2>2. CASE Call(p, "event", "capture") /\ UNCHANGED faults
    BY <1>5, <2>2, CallsGo, EventControl DEF EnterObserving, Call, Conts, Here
  <2> QED BY <1>5, <2>1, <2>2 DEF EnterObserving
<1>6. CASE CaptureObservation(p)
  BY <1>6, PersistGoes, CallsGo, PlainControl DEF CaptureObservation, Here,
     Plain, Outside, Labels, ServiceLabels, ObservationLabels
<1>7. CASE Observe(p)
  BY <1>7, CallsGo, PlainControl DEF Observe, Here, Plain, Outside, Labels,
     ServiceLabels, ObservationLabels
<1>8. CASE WriteObservation(p)
  BY <1>8, CallsGo, PlainControl DEF WriteObservation, Here, Plain, Outside,
     Labels, ServiceLabels, ObservationLabels
<1>9. CASE ClaimRegistration(p)
  BY <1>9, PersistGoes, CallsGo, PlainControl DEF ClaimRegistration, Here,
     Plain, Outside, Labels, ServiceLabels, ObservationLabels
<1>10. CASE SendRegistration(p)
  BY <1>10, CallsGo, PlainControl DEF SendRegistration, Here, Plain, Outside,
     Labels, ServiceLabels, ObservationLabels
<1>11. CASE SaveObservation(p)
  BY <1>11, PersistGoes, PlainControl DEF SaveObservation, Here, Plain,
     Outside, Labels, ServiceLabels, ObservationLabels
<1>12. CASE ClaimJudgment(p)
  <2>1. CASE (Goes(p, "fail") \/ Goes(p, "judgeFirst")) /\ UNCHANGED job
    BY <1>12, <2>1, PlainControl
    DEF ClaimJudgment, Plain, Labels, ServiceLabels, ObservationLabels, Outside
  <2>2. CASE Goes(p, "judgmentFilter") /\ Got(p, files[Cyc(p)].judgment)
    <3>1. files[Cyc(p)] \in FilesType
      BY DEF Here, TypeOK
    <3>2. files[Cyc(p)].judgment \in Gots
      BY <3>1 DEF FilesType, Judged, Gots
    <3>3. "judgmentFilter" \in Plain
      BY DEF Plain, Labels, ObservationLabels, Outside
    <3> QED BY <1>12, <2>2, <3>2, <3>3, GotControl DEF ClaimJudgment, Plain
  <2> QED BY <1>12, <2>1, <2>2, CallsGo, PersistGoes DEF ClaimJudgment, Here
<1>13. CASE JudgeFirst(p)
  <2>1. CASE Goes(p, "fail") /\ UNCHANGED job
    BY <1>13, <2>1, PlainControl
    DEF JudgeFirst, InvokeJudge, Plain, Labels, ServiceLabels, Outside
  <2>2. ASSUME NEW answer \in Usable \cup {"invalid", "bad"},
               Goes(p, "judgeFirstSave"), Got(p, answer)
        PROVE  Control(p)
    BY <1>13, <2>2, GotControl
    DEF JudgeFirst, InvokeJudge, Gots, Usable, Plain, Labels, ObservationLabels, Outside
  <2> QED BY <1>13, <2>1, <2>2, CallsGo DEF JudgeFirst, InvokeJudge, Here
<1>14. CASE SaveFirstAttempt(p)
  BY <1>14, PersistGoes, PlainControl DEF SaveFirstAttempt, Here, Plain,
     Outside, Labels, ServiceLabels, ObservationLabels
<1>15. CASE FilterJudgment(p)
  <2>1. CASE Goes(p, "fail") \/ Goes(p, "judgeAgain")
    BY <1>15, <2>1, PlainControl
    DEF FilterJudgment, Plain, Labels, ServiceLabels, ObservationLabels, Outside
  <2>2. CASE Goes(p, "judgmentWrite") /\ job[p].got \in Usable
    BY <1>15, <2>2, KeepControl DEF FilterJudgment, Labels, ObservationLabels, Outside
  <2> QED BY <1>15, <2>1, <2>2, CallsGo, PersistGoes DEF FilterJudgment, Here
<1>16. CASE JudgeAgain(p)
  <2>1. CASE Goes(p, "fail") /\ UNCHANGED job
    BY <1>16, <2>1, PlainControl
    DEF JudgeAgain, InvokeJudge, Plain, Labels, ServiceLabels, Outside
  <2>2. ASSUME NEW answer \in Usable \cup {"invalid", "bad"},
               Goes(p, "judgeAgainSave"), Got(p, answer)
        PROVE  Control(p)
    BY <1>16, <2>2, GotControl
    DEF JudgeAgain, InvokeJudge, Gots, Usable, Plain, Labels, ObservationLabels, Outside
  <2> QED BY <1>16, <2>1, <2>2, CallsGo DEF JudgeAgain, InvokeJudge, Here
<1>17. CASE SaveSecondAttempt(p)
  <2>1. CASE Goes(p, "fail") \/ Goes(p, "judgmentReject")
    BY <1>17, <2>1, PlainControl
    DEF SaveSecondAttempt, Plain, Labels, ServiceLabels, ObservationLabels, Outside
  <2>2. CASE Goes(p, "judgmentWrite") /\ job[p].got \in Usable
    BY <1>17, <2>2, KeepControl DEF SaveSecondAttempt, Labels, ObservationLabels, Outside
  <2> QED BY <1>17, <2>1, <2>2, PersistGoes DEF SaveSecondAttempt, Here
<1>18. CASE RejectSecondAttempt(p)
  BY <1>18, CallsGo, PlainControl DEF RejectSecondAttempt, Here, Plain,
     Outside, Labels, ServiceLabels, ObservationLabels
<1>19. CASE WriteJudgment(p)
  <2>1. CASE Goes(p, "fail")
    BY <1>19, <2>1, PlainControl DEF WriteJudgment, Plain, Labels, ServiceLabels, Outside
  <2>2. CASE Goes(p, "judged")
    BY <1>19, <2>2, KeepControl
    DEF WriteJudgment, At, Here, Registers, Labels, ObservationLabels, Outside
  <2> QED BY <1>19, <2>1, <2>2, CallsGo DEF WriteJudgment, Here
<1>20. CASE SaveJudgment(p)
  BY <1>20, PersistGoes, CallsGo, PlainControl DEF SaveJudgment, Here, Plain,
     Outside, Labels, ServiceLabels, ObservationLabels
<1>21. CASE AdvanceToRank(p)
  BY <1>21, AdvanceControl DEF AdvanceToRank, Conts, RunKeys
<1>22. CASE EnterRanked(p)
  BY <1>22, TransitionControl DEF EnterRanked, Conts
<1>23. CASE FinishRanked(p)
  BY <1>23, CallsGo, PlainControl DEF FinishRanked, Here, Plain, Outside,
     Labels, ServiceLabels, ObservationLabels, ProposalLabels
<1> QED
  BY <1>1, <1>2, <1>3, <1>4, <1>5, <1>6, <1>7, <1>8, <1>9, <1>10, <1>11,
     <1>12, <1>13, <1>14, <1>15, <1>16, <1>17, <1>18, <1>19, <1>20, <1>21,
     <1>22, <1>23

\* Control: CycleProposal.
LEMMA ProposalControl ==
  ASSUME NEW p \in Procs, Here(p),
         ProposalStep(p)
  PROVE  Control(p)
<1>1. CASE ResumeProposal(p)
  BY <1>1, CallsGo, PlainControl DEF ResumeProposal, Here, Plain, Outside,
     Labels, ServiceLabels, ProposalLabels
<1>2. CASE LoadSnapshot(p)
  BY <1>2, PersistGoes, CallsGo, PlainControl DEF LoadSnapshot, Here, Plain,
     Outside, Labels, ServiceLabels, ProposalLabels
<1>3. CASE ListBacklog(p)
  BY <1>3, CallsGo, PlainControl DEF ListBacklog, Here, Plain, Outside,
     Labels, ServiceLabels, ProposalLabels
<1>4. CASE CreateExperiment(p)
  BY <1>4, CallsGo, PlainControl DEF CreateExperiment, Here, Plain, Outside,
     Labels, ServiceLabels, ProposalLabels
<1>5. CASE AdvanceToPropose(p)
  BY <1>5, AdvanceControl DEF AdvanceToPropose, Conts, RunKeys
<1>6. CASE EnterProposed(p)
  BY <1>6, TransitionControl DEF EnterProposed, Conts
<1>7. CASE EnterAwaitingApproval(p)
  BY <1>7, TransitionControl DEF EnterAwaitingApproval, Conts
<1>8. CASE WriteSnapshot(p)
  BY <1>8, CallsGo, PlainControl DEF WriteSnapshot, Here, Plain, Outside,
     Labels, ServiceLabels, ProposalLabels
<1>9. CASE SaveSnapshot(p)
  BY <1>9, PersistGoes, PlainControl DEF SaveSnapshot, Here, Plain, Outside,
     Labels, ServiceLabels, ProposalLabels
<1>10. CASE ClaimSnapshot(p)
  BY <1>10, PersistGoes, CallsGo, PlainControl DEF ClaimSnapshot, Here, Plain,
     Outside, Labels, ServiceLabels, ProposalLabels
<1>11. CASE SendSnapshot(p)
  BY <1>11, CallsGo, PlainControl DEF SendSnapshot, Here, Plain, Outside,
     Labels, ServiceLabels, ProposalLabels
<1>12. CASE SaveRegistered(p)
  BY <1>12, PersistGoes, PlainControl DEF SaveRegistered, Here, Plain,
     Outside, Labels, ServiceLabels, ProposalLabels
<1>13. CASE EnterNoOp(p)
  BY <1>13, TransitionControl DEF EnterNoOp, Conts
<1>14. CASE CompleteNoOp(p)
  BY <1>14, TransitionControl DEF CompleteNoOp, Conts
<1> QED
  BY <1>1, <1>2, <1>3, <1>4, <1>5, <1>6, <1>7, <1>8, <1>9, <1>10, <1>11,
     <1>12, <1>13, <1>14 DEF ProposalStep

\* Control: CycleDecision.
LEMMA DecisionControl ==
  ASSUME NEW p \in Procs, Here(p),
         DecisionStep(p)
  PROVE  Control(p)
<1>1. CASE Approve(p)
  <2>1. CASE Goes(p, "release") /\ UNCHANGED job
    BY <1>1, <2>1, PlainControl DEF Approve, Plain, Labels, ServiceLabels, Outside
  <2>2. CASE Transition(p, [mem[p] EXCEPT !.approved = TRUE], "approved", "release")
    BY <1>1, <2>2, TransitionControl DEF Approve, Conts
  <2> QED BY <1>1, <2>1, <2>2, CallsGo DEF Approve, Here
<1>2. CASE Decline(p)
  BY <1>2, PersistGoes, CallsGo, PlainControl DEF Decline, Here, Plain,
     Outside, Labels, ServiceLabels, DecisionLabels
<1>3. CASE EnterDeclined(p)
  <2>1. CASE Goes(p, "declineClose") /\ UNCHANGED job
    BY <1>3, <2>1, PlainControl
    DEF EnterDeclined, Plain, Labels, ServiceLabels, DecisionLabels, Outside
  <2>2. CASE Transition(p, mem[p], "declined", "declineClose")
    BY <1>3, <2>2, TransitionControl DEF EnterDeclined, Conts
  <2> QED BY <1>3, <2>1, <2>2, CallsGo DEF EnterDeclined, Here
<1>4. CASE CloseDeclined(p)
  BY <1>4, CallsGo, PlainControl DEF CloseDeclined, Here, Plain, Outside,
     Labels, ServiceLabels, DecisionLabels
<1>5. CASE SaveDeclineClosed(p)
  BY <1>5, PersistGoes, PlainControl DEF SaveDeclineClosed, Here, Plain,
     Outside, Labels, ServiceLabels, DecisionLabels
<1>6. CASE CompleteDeclined(p)
  BY <1>6, TransitionControl DEF CompleteDeclined, Conts
<1> QED
  BY <1>1, <1>2, <1>3, <1>4, <1>5, <1>6 DEF DecisionStep

\* Control: CycleExecution.
LEMMA ExecutionControl ==
  ASSUME NEW p \in Procs, Here(p),
         ExecutionStep(p)
  PROVE  Control(p)
<1>1. CASE PrepareExecution(p)
  BY <1>1, PersistGoes, CallsGo, PlainControl DEF PrepareExecution, Here,
     Plain, Outside, Labels, ServiceLabels, ExecutionLabels
<1>2. CASE AdvanceToExecute(p)
  <2>1. CASE Goes(p, "executeAttempt") /\ UNCHANGED job
    BY <1>2, <2>1, PlainControl DEF AdvanceToExecute, Plain, Labels, ExecutionLabels, Outside
  <2>2. CASE Advance(p, "run:execute", "executeEnter")
    BY <1>2, <2>2, AdvanceControl DEF AdvanceToExecute, Conts, RunKeys
  <2> QED BY <1>2, <2>1, <2>2, CallsGo DEF AdvanceToExecute, Here
<1>3. CASE EnterExecuting(p)
  <2>1. CASE Goes(p, "executeAttempt") /\ UNCHANGED job
    BY <1>3, <2>1, PlainControl
    DEF EnterExecuting, Plain, Labels, ServiceLabels, ExecutionLabels, Outside
  <2>2. CASE Transition(p, mem[p], "executing", "executeAttempt")
    BY <1>3, <2>2, TransitionControl DEF EnterExecuting, Conts
  <2> QED BY <1>3, <2>1, <2>2, CallsGo DEF EnterExecuting, Here
<1>4. CASE ClaimExecution(p)
  <2>1. CASE /\ Goes(p, "release") \/ Goes(p, "executor") \/ Goes(p, "benchmark")
             /\ UNCHANGED job
    BY <1>4, <2>1, PlainControl
    DEF ClaimExecution, Plain, Labels, ServiceLabels, ExecutionLabels, Outside
  <2>2. CASE Goes(p, "collect") /\ Got(p, "unknown")
    BY <1>4, <2>2, GotControl DEF ClaimExecution, Gots, Plain, Labels, ExecutionLabels, Outside
  <2> QED BY <1>4, <2>1, <2>2, CallsGo, PersistGoes DEF ClaimExecution, Here
<1>5. CASE InvokeExecutor(p)
  <2>1. CASE Goes(p, "fail") /\ UNCHANGED job
    BY <1>5, <2>1, PlainControl DEF InvokeExecutor, Plain, Labels, ServiceLabels, Outside
  <2>2. ASSUME NEW usage \in {"within", "over"}, Goes(p, "report"), Got(p, usage)
        PROVE  Control(p)
    BY <1>5, <2>2, GotControl DEF InvokeExecutor, Gots, Plain, Labels, ExecutionLabels, Outside
  <2> QED BY <1>5, <2>1, <2>2, CallsGo DEF InvokeExecutor, Here
<1>6. CASE WriteReport(p)
  BY <1>6, CallsGo, PlainControl DEF WriteReport, Here, Plain, Outside,
     Labels, ServiceLabels, ExecutionLabels
<1>7. CASE CollectExecution(p)
  BY <1>7, PersistGoes, CallsGo, PlainControl DEF CollectExecution, Here,
     Plain, Outside, Labels, ServiceLabels, ExecutionLabels
<1>8. CASE ClaimBenchmark(p)
  BY <1>8, PersistGoes, CallsGo, PlainControl DEF ClaimBenchmark, Here, Plain,
     Outside, Labels, ServiceLabels, ExecutionLabels
<1>9. CASE Measure(p)
  BY <1>9, CallsGo, PlainControl DEF Measure, Here, Plain, Outside, Labels,
     ServiceLabels, ExecutionLabels
<1>10. CASE WriteMeasurement(p)
  BY <1>10, CallsGo, PlainControl DEF WriteMeasurement, Here, Plain, Outside,
     Labels, ServiceLabels, ExecutionLabels
<1>11. CASE SaveMeasurement(p)
  BY <1>11, PersistGoes, PlainControl DEF SaveMeasurement, Here, Plain,
     Outside, Labels, ServiceLabels, ExecutionLabels
<1>12. CASE AdvanceToReview(p)
  BY <1>12, AdvanceControl DEF AdvanceToReview, Conts, RunKeys
<1>13. CASE EnterReviewing(p)
  BY <1>13, TransitionControl DEF EnterReviewing, Conts
<1> QED
  BY <1>1, <1>2, <1>3, <1>4, <1>5, <1>6, <1>7, <1>8, <1>9, <1>10, <1>11,
     <1>12, <1>13 DEF ExecutionStep

\* Control: CycleReview.
LEMMA ReviewControl ==
  ASSUME NEW p \in Procs, Here(p),
         ReviewStep(p)
  PROVE  Control(p)
<1>1. CASE ClaimReview(p)
  <2>1. /\ mem[p].review \in MaybeVerdict
        /\ files[Cyc(p)].review \in MaybeVerdict \cup {"uncited", "invalid"}
    <3>1. mem[p] \in CycleDoc /\ files[Cyc(p)] \in FilesType
      BY DEF Here, TypeOK
    <3> QED BY <3>1 DEF CycleDoc, FilesType
  <2>2. CASE /\ Goes(p, "release") \/ Goes(p, "fail") \/ Goes(p, "reviewer")
             /\ UNCHANGED job
    BY <1>1, <2>2, PlainControl
    DEF ClaimReview, Plain, Labels, ServiceLabels, ReviewLabels, Outside
  <2>3. ASSUME NEW v \in Verdicts \cup {"uncited"}, Goes(p, "resolve"), Got(p, v)
        PROVE  Control(p)
    BY <1>1, <2>3, GotControl DEF ClaimReview, Gots
  <2> QED
    BY <1>1, <2>1, <2>2, <2>3, CallsGo, PersistGoes DEF ClaimReview, Here, MaybeVerdict
<1>2. CASE InvokeReviewer(p)
  <2>1. CASE Goes(p, "fail") /\ UNCHANGED job
    BY <1>2, <2>1, PlainControl DEF InvokeReviewer, Plain, Labels, ServiceLabels, Outside
  <2>2. ASSUME NEW v \in Verdicts \cup {"uncited"}, Goes(p, "reviewWrite"), Got(p, v)
        PROVE  Control(p)
    BY <1>2, <2>2, GotControl DEF InvokeReviewer, Gots
  <2> QED BY <1>2, <2>1, <2>2, CallsGo DEF InvokeReviewer, Here
<1>3. CASE WriteReview(p)
  <2>1. CASE Goes(p, "fail")
    BY <1>3, <2>1, PlainControl DEF WriteReview, Plain, Labels, ServiceLabels, Outside
  <2>2. CASE Goes(p, "resolve")
    BY <1>3, <2>2, KeepControl DEF WriteReview, At, Here, Registers, Labels, ReviewLabels, Outside
  <2> QED BY <1>3, <2>1, <2>2, CallsGo DEF WriteReview, Here
<1>4. CASE Resolve(p)
  BY <1>4, PersistGoes, CallsGo, PlainControl DEF Resolve, Here, Plain,
     Outside, Labels, ServiceLabels, ReviewLabels
<1>5. CASE AdvanceToCompound(p)
  BY <1>5, AdvanceControl DEF AdvanceToCompound, Conts, RunKeys
<1>6. CASE EnterCompounding(p)
  BY <1>6, TransitionControl DEF EnterCompounding, Conts
<1> QED
  BY <1>1, <1>2, <1>3, <1>4, <1>5, <1>6 DEF ReviewStep

\* Control: CycleCompound.
LEMMA CompoundControl ==
  ASSUME NEW p \in Procs, Here(p),
         CompoundStep(p)
  PROVE  Control(p)
<1>1. CASE BeginCompound(p)
  <2>1. CASE Goes(p, "compoundStage") /\ UNCHANGED job
    BY <1>1, <2>1, PlainControl
    DEF BeginCompound, Plain, Labels, ServiceLabels, CompoundLabels, Outside
  <2>2. CASE Transition(p, mem[p], "completed", "compoundStage")
    BY <1>1, <2>2, TransitionControl DEF BeginCompound, Conts
  <2> QED BY <1>1, <2>1, <2>2, CallsGo DEF BeginCompound, Here
<1>2. CASE DispatchCompound(p)
  BY <1>2, CallsGo, PlainControl DEF DispatchCompound, Here, Plain, Outside,
     Labels, ServiceLabels, CompoundLabels
<1>3. CASE FindPromotion(p)
  BY <1>3, CallsGo, PlainControl DEF FindPromotion, Here, Plain, Outside,
     Labels, ServiceLabels, CompoundLabels
<1>4. CASE CreatePromotion(p)
  BY <1>4, CallsGo, PlainControl DEF CreatePromotion, Here, Plain, Outside,
     Labels, ServiceLabels, CompoundLabels
<1>5. CASE SavePromotion(p)
  BY <1>5, PersistGoes, PlainControl DEF SavePromotion, Here, Plain, Outside,
     Labels, ServiceLabels, CompoundLabels
<1>6. CASE CloseExperiment(p)
  BY <1>6, CallsGo, PlainControl DEF CloseExperiment, Here, Plain, Outside,
     Labels, ServiceLabels, CompoundLabels
<1>7. CASE SaveClosed(p)
  BY <1>7, PersistGoes, PlainControl DEF SaveClosed, Here, Plain, Outside,
     Labels, ServiceLabels, CompoundLabels
<1>8. CASE RecordOutcome(p)
  BY <1>8, CallsGo, PlainControl DEF RecordOutcome, Here, Plain, Outside,
     Labels, ServiceLabels, CompoundLabels
<1>9. CASE SaveOutcome(p)
  BY <1>9, PersistGoes, PlainControl DEF SaveOutcome, Here, Plain, Outside,
     Labels, ServiceLabels, CompoundLabels
<1>10. CASE BeginFeedback(p)
  BY <1>10, PersistGoes, CallsGo, PlainControl DEF BeginFeedback, Here, Plain,
     Outside, Labels, ServiceLabels, CompoundLabels
<1>11. CASE SendFeedback(p)
  BY <1>11, CallsGo, PlainControl DEF SendFeedback, Here, Plain, Outside,
     Labels, ServiceLabels, CompoundLabels
<1>12. CASE SaveFeedback(p)
  BY <1>12, PersistGoes, PlainControl DEF SaveFeedback, Here, Plain, Outside,
     Labels, ServiceLabels, CompoundLabels
<1>13. CASE BeginRoadmap(p)
  BY <1>13, PersistGoes, CallsGo, PlainControl DEF BeginRoadmap, Here, Plain,
     Outside, Labels, ServiceLabels, CompoundLabels
<1>14. CASE SyncRoadmap(p)
  BY <1>14, CallsGo, PlainControl DEF SyncRoadmap, Here, Plain, Outside,
     Labels, ServiceLabels, CompoundLabels
<1>15. CASE UndoRoadmap(p)
  BY <1>15, PersistGoes, PlainControl DEF UndoRoadmap, Here, Plain, Outside,
     Labels, ServiceLabels, CompoundLabels
<1>16. CASE WriteRoadmap(p)
  BY <1>16, CallsGo, PlainControl DEF WriteRoadmap, Here, Plain, Outside,
     Labels, ServiceLabels, CompoundLabels
<1>17. CASE SaveRoadmap(p)
  BY <1>17, PersistGoes, PlainControl DEF SaveRoadmap, Here, Plain, Outside,
     Labels, ServiceLabels, CompoundLabels
<1>18. CASE CheckRoadmap(p)
  BY <1>18, CallsGo, PlainControl DEF CheckRoadmap, Here, Plain, Outside,
     Labels, ServiceLabels, CompoundLabels
<1>19. CASE Terminalize(p)
  <2>1. CASE (Goes(p, "release") \/ Goes(p, "receipt")) /\ UNCHANGED job
    BY <1>19, <2>1, PlainControl
    DEF Terminalize, Plain, Labels, ServiceLabels, CompoundLabels, Outside
  <2>2. CASE \E phase \in Phases \ {"compound"} :
               Advance(p, TerminalKey[NextPhase[phase]], "terminalize")
    <3>1. PICK phase \in Phases \ {"compound"} :
            Advance(p, TerminalKey[NextPhase[phase]], "terminalize")
      BY <2>2
    <3>2. TerminalKey[NextPhase[phase]] \in TerminalKeys
      BY TerminalKeyTarget DEF Phases, NextPhase
    <3> QED BY <1>19, <3>1, <3>2, AdvanceControl DEF Terminalize, Conts
  <2> QED BY <1>19, <2>1, <2>2, CallsGo, PersistGoes DEF Terminalize, Here
<1>20. CASE BuildReceipt(p)
  BY <1>20, CallsGo, PlainControl DEF BuildReceipt, Here, Plain, Outside,
     Labels, ServiceLabels, CompoundLabels
<1>21. CASE SaveReceipt(p)
  BY <1>21, PersistGoes, PlainControl DEF SaveReceipt, Here, Plain, Outside,
     Labels, ServiceLabels, CompoundLabels
<1>22. CASE FindReceipt(p)
  BY <1>22, CallsGo, PlainControl DEF FindReceipt, Here, Plain, Outside,
     Labels, ServiceLabels, CompoundLabels
<1>23. CASE EmitReceipt(p)
  BY <1>23, CallsGo, PlainControl DEF EmitReceipt, Here, Plain, Outside,
     Labels, ServiceLabels, CompoundLabels
<1>24. CASE AcceptReceipt(p)
  BY <1>24, CallsGo, PlainControl DEF AcceptReceipt, Here, Plain, Outside,
     Labels, ServiceLabels, CompoundLabels
<1>25. CASE SaveSignature(p)
  BY <1>25, PersistGoes, PlainControl DEF SaveSignature, Here, Plain, Outside,
     Labels, ServiceLabels, CompoundLabels
<1>26. CASE Complete(p)
  <2>1. CASE Goes(p, "release") /\ UNCHANGED job
    BY <1>26, <2>1, PlainControl DEF Complete, Plain, Labels, ServiceLabels, CompoundLabels, Outside
  <2>2. CASE Transition(p, mem[p], "completed", "release")
    BY <1>26, <2>2, TransitionControl DEF Complete, Conts
  <2> QED BY <1>26, <2>1, <2>2, CallsGo DEF Complete, Here
<1> QED
  BY <1>1, <1>2, <1>3, <1>4, <1>5, <1>6, <1>7, <1>8, <1>9, <1>10, <1>11,
     <1>12, <1>13, <1>14, <1>15, <1>16, <1>17, <1>18, <1>19, <1>20, <1>21,
     <1>22, <1>23, <1>24, <1>25, <1>26 DEF CompoundStep
=============================================================================
