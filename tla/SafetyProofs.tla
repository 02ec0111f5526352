---------------------------- MODULE SafetyProofs ----------------------------
(***************************************************************************)
(* That nothing is done twice, nothing without authority or evidence, and  *)
(* one receipt is signed at most: the first invariants of CycleClaims are  *)
(* inductive, for every set of cycles and of invocations and every number  *)
(* of faults, and the safety properties follow from them.                  *)
(***************************************************************************)
EXTENDS CycleProofs, SequenceTheorems

-----------------------------------------------------------------------------
(* Facts the proofs share. *)

\* persist that went on wrote the document it was given.
LEMMA Persisted ==
  ASSUME NEW p \in Procs, Here(p), NEW m, NEW next, NEW onError,
         Persist(p, m, next, onError)
  PROVE  /\ mem'[p] = m
         /\ pc'[p] \in {next, onError}
         /\ pc'[p] # onError => pc'[p] = next /\ doc'[Cyc(p)] = m
         /\ doc'[Cyc(p)] \in {doc[Cyc(p)], m}
BY DEF Here, TypeOK, Persist, Remember, Continue, Raise, Goto

\* A step that only branches.
LEMMA Jumped ==
  ASSUME NEW p \in Procs, Here(p), NEW l, Jump(p, l)
  PROVE  pc'[p] = l /\ mem'[p] = mem[p] /\ doc' = doc
BY DEF Here, TypeOK, Jump, Continue, Goto

\* Going on or raising an error.
LEMMA Went ==
  ASSUME NEW p \in Procs, Here(p), NEW l
  PROVE  /\ Continue(p, l) => pc'[p] = l
         /\ Raise(p, l) => pc'[p] = l
         /\ Goto(p, l) => pc'[p] = l
BY DEF Here, TypeOK, Continue, Raise, Goto

\* A transition with a continuation: the new stage is written, or p leaves.
LEMMA Transited ==
  ASSUME NEW p \in Procs, Here(p), NEW m \in CycleDoc, NEW next, NEW k, Transition(p, m, next, k)
  PROVE  /\ pc'[p] \in {"event", "release"}
         /\ mem'[p] \in {m, [m EXCEPT !.stage = next]}
         /\ pc'[p] = "event" =>
              /\ mem'[p] = [m EXCEPT !.stage = next] /\ doc'[Cyc(p)] = mem'[p]
              /\ job'[p].ret = k
<1>1. CASE ValidateTransition(m.stage, next)
  <2>1. /\ Persist(p, [m EXCEPT !.stage = next], "event", "release")
        /\ job' = [job EXCEPT ![p].ret = k]
    BY <1>1 DEF Transition
  <2>2. job'[p].ret = k
    BY <2>1 DEF Here, TypeOK, Jobs
  <2> QED BY <2>1, <2>2, Persisted
<1>2. CASE ~ValidateTransition(m.stage, next)
  BY <1>2 DEF Transition, Here, TypeOK, Remember, Continue, Goto
<1> QED BY <1>1, <1>2

\* What SetKey leaves of a document.
LEMMA KeySet ==
  ASSUME NEW m \in CycleDoc, NEW k \in Keys, NEW v
  PROVE  LET n == SetKey(m, k, v)
         IN /\ n.key[k] = v /\ \A j \in Keys \ {k} : n.key[j] = m.key[j]
            /\ n.stage = m.stage /\ n.mode = m.mode /\ n.observed = m.observed
            /\ n.judged = m.judged /\ n.approved = m.approved /\ n.declined = m.declined
            /\ n.transcript = m.transcript /\ n.measured = m.measured /\ n.review = m.review
            /\ n.final = m.final /\ n.roadmap = m.roadmap /\ n.signed = m.signed
            /\ n.digest = m.digest /\ n.feedback = m.feedback /\ n.events = m.events
BY DEF CycleDoc, SetKey

\* The records of the cycle p works on.
LEMMA WorkTypes ==
  ASSUME NEW p \in Procs, Works(p)
  PROVE  /\ p \in Procs /\ Cyc(p) \in Cycles /\ Running(p) /\ TypeOK
         /\ mem[p] \in CycleDoc /\ mem'[p] \in CycleDoc
         /\ doc[Cyc(p)] \in CycleDoc /\ doc'[Cyc(p)] \in CycleDoc
         /\ kernel[Cyc(p)] \in KernelType /\ backlog[Cyc(p)] \in BacklogType
         /\ files[Cyc(p)] \in FilesType /\ calls[Cyc(p)] \in CallsType
         /\ mem[p].stage = doc[Cyc(p)].stage /\ mem[p].stage \in Stages
         /\ doc'[Cyc(p)] \in {doc[Cyc(p)], mem'[p]}
<1>1. Here(p) /\ Data(p) /\ Saves(p)
  BY DEF Works
<1>2. TypeOK /\ Cyc(p) \in Cycles /\ Running(p) /\ Coherent(p)
  BY <1>1 DEF Here
<1> QED BY <1>1, <1>2, HereTypes DEF TypeOK, Data, Saves, Coherent

-----------------------------------------------------------------------------
(* A cycle nobody has started; the copy and the document. *)

\* A step keeps a cycle that was started started, and starts one whole.
LEMMA UnbornKept ==
  ASSUME LockInv, CycleInv, Unborn, [Next]_vars
  PROVE  Unborn'
<1>1. ASSUME NEW p \in Procs, Works(p) PROVE Unborn'
  <2>1. doc[Cyc(p)].stage # Absent /\ doc'[Cyc(p)].stage # Absent
    BY <1>1, WorkTypes DEF Works, Data, Stages, Absent
  <2>2. \A c \in Cycles \ {Cyc(p)} :
          /\ doc'[c] = doc[c] /\ kernel'[c] = kernel[c] /\ backlog'[c] = backlog[c]
          /\ files'[c] = files[c] /\ calls'[c] = calls[c]
    BY <1>1 DEF Works, Data, World
  <2> QED BY <2>1, <2>2 DEF Unborn
<1>2. ASSUME NEW p \in Procs, Starts(p) PROVE Unborn'
  <2>1. \A m \in NewDocs : m.stage # Absent
    BY DEF NewDocs, NoDoc, Absent
  <2> QED BY <1>2, <2>1 DEF Starts, Unborn, world
<1>3. CASE Quiet
  BY <1>3 DEF Quiet, Unborn, world
<1> QED BY <1>1, <1>2, <1>3, StepKinds

\* Every reachable state has Unborn.
LEMMA UnbornInvariance == Spec => []Unborn
<1>1. Init => Unborn
  BY DEF Init, ServiceInit, Unborn
<1>2. LockInv /\ CycleInv /\ Unborn /\ [Next]_vars => Unborn'
  BY UnbornKept
<1> QED BY <1>1, <1>2, LockInvariant, CycleInvariance, PTL DEF Spec

\* A step keeps the copy of whoever is inside an operation and the document
\* in agreement.
LEMMA AgreementKept ==
  ASSUME LockInv, CycleInv, Agreement, [Next]_vars
  PROVE  Agreement'
<1>1. ASSUME NEW p \in Procs, Works(p) PROVE Agreement'
  <2>1. ASSUME Running(p)' PROVE Agree(mem'[p], doc'[Cyc(p)])
    <3>1. pc'[p] # "release" /\ Agree(mem[p], doc[Cyc(p)])
      BY <1>1, <2>1, WorkTypes DEF Works, Agreement
    <3>2. CASE doc'[Cyc(p)] = mem'[p]
      BY <3>2 DEF Agree
    <3>3. CASE doc'[Cyc(p)] = doc[Cyc(p)] /\ Agree(mem'[p], mem[p])
      BY <3>1, <3>3 DEF Agree
    <3> QED BY <1>1, <3>1, <3>2, <3>3 DEF Works, Saves
  <2> QED BY <1>1, <2>1 DEF Works, Agreement
<1>2. ASSUME NEW p \in Procs, Starts(p) PROVE Agreement'
  <2>1. Running(p)' => mem'[p] = doc'[Cyc(p)] /\ Cyc(p)' = Cyc(p)
    BY <1>2 DEF Starts, Running, Cyc
  <2> QED BY <1>2, <2>1 DEF Starts, Agreement, Agree
<1>3. CASE Quiet
  <2> SUFFICES ASSUME NEW q \in Procs, Running(q)' PROVE Agree(mem'[q], doc'[Cyc(q)'])
    BY DEF Agreement
  <2>1. CASE Running(q) /\ Stays(q)
    BY <1>3, <2>1 DEF Quiet, Agreement, Stays, Cyc
  <2>2. CASE Enters(q)
    BY <1>3, <2>2 DEF Quiet, Enters, Agree
  <2> QED BY <1>3, <2>1, <2>2 DEF Quiet
<1> QED BY <1>1, <1>2, <1>3, StepKinds

\* Every reachable state has Agreement.
LEMMA AgreementInvariance == Spec => []Agreement
<1>1. Init => Agreement
  BY DEF Init, ServiceInit, Agreement, Running, Critical, Outside
<1>2. LockInv /\ CycleInv /\ Agreement /\ [Next]_vars => Agreement'
  BY AgreementKept
<1> QED BY <1>1, <1>2, LockInvariant, CycleInvariance, PTL DEF Spec

-----------------------------------------------------------------------------
(* Nothing is invoked or registered before it is claimed. *)

\* What an invocation may have added at each place, and what it claimed first.
LEMMA ClaimGround ==
  ASSUME NEW p \in Procs, Works(p), ClaimInv
  PROVE  LET c == Cyc(p)
         IN /\ Edits(pc[p], mem[p], mem'[p])
            /\ KernelEdits(pc[p], kernel[c], kernel'[c]) /\ CallsEdits(pc[p], calls[c], calls'[c])
            /\ Claims(mem[p], kernel[c], calls[c]) /\ Claims(doc[c], kernel[c], calls[c])
            /\ ClaimPlaces(p)
BY WorkTypes DEF Works, Saves, World, ClaimInv

\* The keys that claims speak of.
LEMMA ClaimKeys ==
  {"judgment:attempt1", "judgment:retry", "execution:attempt", "benchmark:attempt",
   "review:attempt", "observation:capture", "replay:observation", "replay:proposal-backlog"}
  \subseteq Keys \ {"roadmap:sync"}
BY DEF Keys

\* The counts after a step, against a document whose claims it keeps.
LEMMA ClaimCounts ==
  ASSUME NEW p \in Procs, Works(p), ClaimInv, NEW d \in {doc[Cyc(p)], mem'[p]}
  PROVE  LET k == kernel'[Cyc(p)]
             n == calls'[Cyc(p)]
         IN /\ d.key["judgment:attempt1"] = "none" => n.judge = 0
            /\ d.key["judgment:retry"] = "none" => n.judge <= 1
            /\ d.key["execution:attempt"] = "none" => n.executor = 0
            /\ d.key["benchmark:attempt"] = "none" => n.benchmark = 0
            /\ d.key["review:attempt"] = "none" => n.reviewer = 0
            /\ d.key["observation:capture"] = "none" => k.replays["components"] = 0
            /\ d.key["replay:observation"] = "none" => k.replays["observation"] = 0
            /\ d.key["replay:proposal-backlog"] = "none" => k.replays["proposal-backlog"] = 0
<1> DEFINE c == Cyc(p)
           m == mem[p]
           l == pc[p]
           x == kernel'[c]
           u == calls[c]
           v == calls'[c]
<1>1. /\ Edits(l, m, mem'[p]) /\ KernelEdits(l, kernel[c], x) /\ CallsEdits(l, u, v)
      /\ Claims(m, kernel[c], u) /\ Claims(doc[c], kernel[c], u) /\ ClaimPlaces(p)
  BY ClaimGround
<1>2. \A k \in {"judgment:attempt1", "judgment:retry", "execution:attempt", "benchmark:attempt",
                "review:attempt", "observation:capture", "replay:observation",
                "replay:proposal-backlog"} :
        d.key[k] = "none" => doc[c].key[k] = "none" \/ m.key[k] = "none"
  BY <1>1, ClaimKeys DEF Edits
<1>3. u \in CallsType
  BY WorkTypes
<1>4. d.key["judgment:attempt1"] = "none" => v.judge = 0
  BY <1>1, <1>2 DEF Claims, CallsEdits, ClaimPlaces, Claimed, At
<1>5. d.key["judgment:retry"] = "none" => v.judge <= 1
  BY <1>1, <1>2, <1>3 DEF Claims, CallsEdits, ClaimPlaces, Claimed, At, CallsType
<1>6. /\ d.key["execution:attempt"] = "none" => v.executor = 0
      /\ d.key["benchmark:attempt"] = "none" => v.benchmark = 0
      /\ d.key["review:attempt"] = "none" => v.reviewer = 0
  BY <1>1, <1>2 DEF Claims, CallsEdits, ClaimPlaces, Claimed, At
<1>7. /\ d.key["observation:capture"] = "none" => x.replays["components"] = 0
      /\ d.key["replay:observation"] = "none" => x.replays["observation"] = 0
      /\ d.key["replay:proposal-backlog"] = "none" => x.replays["proposal-backlog"] = 0
  BY <1>1, <1>2 DEF Claims, KernelEdits, ClaimPlaces, Claimed, At, Registrations, ReplayKinds
<1> QED BY <1>4, <1>5, <1>6, <1>7

\* The second judgment is claimed after the first.
LEMMA RetryAfterFirst ==
  ASSUME NEW p \in Procs, Works(p), ClaimInv, mem'[p].key["judgment:retry"] # "none"
  PROVE  mem'[p].key["judgment:attempt1"] # "none"
<1> DEFINE m == mem[p]
           n == mem'[p]
<1>1. /\ Edits(pc[p], m, n) /\ Claims(m, kernel[Cyc(p)], calls[Cyc(p)]) /\ ClaimPlaces(p)
  BY ClaimGround
<1>2. Here(p) /\ m \in CycleDoc /\ ObservationActions(p)
  BY WorkTypes DEF Works
<1>3. m.key["judgment:attempt1"] # "none" => n.key["judgment:attempt1"] # "none"
  BY <1>1, ClaimKeys DEF Edits
<1>4. CASE m.key["judgment:retry"] # "none"
  BY <1>1, <1>3, <1>4 DEF Claims
<1>5. CASE m.key["judgment:retry"] = "none"
  <2>1. <<pc[p], "judgment:retry">> \in KeyWriters
    BY <1>1, <1>5, ClaimKeys DEF Edits
  <2>2. pc[p] \in {"judge", "judgeFirst", "judgeAgain", "judgmentReject", "judgmentFilter",
                   "judgmentWrite"}
    BY <2>1 DEF KeyWriters, RunKeys, TerminalKeys
  <2>3. ~RetryOpen(m)
    BY <1>5 DEF RetryOpen
  <2>4. CASE pc[p] = "judge"
    <3>1. ClaimJudgment(p)
      BY <1>2, <2>4 DEF ObservationActions
    <3>2. n \in {m, SetKey(m, "judgment:attempt1", "started")}
      BY <1>2, <2>3, <3>1, Persisted, Jumped DEF ClaimJudgment, Remember, Here, TypeOK
    <3>3. n.key["judgment:retry"] = m.key["judgment:retry"]
      BY <1>2, <3>2, KeySet, ClaimKeys
    <3> QED BY <1>5, <3>3
  <2>5. CASE pc[p] \in {"judgeFirst", "judgeAgain"}
    <3>1. n = m
      BY <1>2, <2>3, <2>5 DEF ObservationActions, JudgeFirst, JudgeAgain, InvokeJudge,
         Remember, Here, TypeOK
    <3> QED BY <1>5, <3>1
  <2>6. CASE pc[p] = "judgmentReject"
    BY <1>1, <1>3, <2>6 DEF ClaimPlaces
  <2>7. CASE pc[p] = "judgmentFilter"
    <3>1. FilterJudgment(p)
      BY <1>2, <2>7 DEF ObservationActions
    <3>2. n = m \/ job[p].got = "invalid"
      BY <1>2, <3>1, Jumped DEF FilterJudgment
    <3> QED BY <1>1, <1>3, <1>5, <2>7, <3>2 DEF ClaimPlaces, At
  <2>8. CASE pc[p] = "judgmentWrite"
    <3>1. n = m
      BY <1>2, <2>3, <2>8 DEF ObservationActions, WriteJudgment, Remember, Here, TypeOK
    <3> QED BY <1>5, <3>1
  <2> QED BY <2>2, <2>4, <2>5, <2>6, <2>7, <2>8
<1> QED BY <1>4, <1>5

\* A completed review and a completed capture left their results.
LEMMA CompletedClaims ==
  ASSUME NEW p \in Procs, Works(p), ClaimInv
  PROVE  LET n == mem'[p]
         IN /\ n.key["review:attempt"] = "completed" => n.review # "none" /\ n.final # "none"
            /\ n.key["observation:capture"] = "completed" => n.observed
<1> DEFINE m == mem[p]
           n == mem'[p]
<1>1. /\ Edits(pc[p], m, n) /\ Claims(m, kernel[Cyc(p)], calls[Cyc(p)]) /\ ClaimPlaces(p)
  BY ClaimGround
<1>2. Here(p) /\ m \in CycleDoc /\ ObservationActions(p) /\ ReviewActions(p)
  BY WorkTypes DEF Works
<1>3. {"review:attempt", "observation:capture", "replay:observation"} \subseteq Keys
  BY ClaimKeys
<1>4. ASSUME n.key["review:attempt"] = "completed" PROVE n.review # "none" /\ n.final # "none"
  <2>1. CASE pc[p] = "resolve"
    <3> DEFINE review == job[p].got
               resolved == [m EXCEPT !.review = review,
                              !.final = IF @ = "none" THEN FinalVerdict(review, m.measured) ELSE @]
    <3>1. Resolve(p) /\ review \in Verdicts \cup {"uncited"}
      BY <1>2, <2>1 DEF ReviewActions, Here, Registers
    <3>2. n = m \/ (n = SetKey(resolved, "review:attempt", "completed") /\ EvidenceHolds(m, review))
      BY <1>2, <3>1, Jumped, Persisted DEF Resolve
    <3>3. EvidenceHolds(m, review) => review \in Verdicts
      BY <3>1 DEF EvidenceHolds
    <3>4. EvidenceHolds(m, review) => resolved.review # "none" /\ resolved.final # "none"
      BY <1>2, <3>3 DEF CycleDoc, FinalVerdict, Verdicts
    <3>5. EvidenceHolds(m, review) => resolved \in CycleDoc
      BY <1>2, <3>3, ZenonT(40) DEF CycleDoc, FinalVerdict, Verdicts, MaybeVerdict
    <3> HIDE DEF resolved
    <3> QED BY <1>1, <1>3, <1>4, <3>2, <3>4, <3>5, KeySet DEF Claims
  <2>2. CASE pc[p] = "review"
    <3>1. ClaimReview(p)
      BY <1>2, <2>2 DEF ReviewActions
    <3>2. n \in {m, SetKey(m, "review:attempt", "started")}
      BY <1>2, <3>1, Jumped, Persisted DEF ClaimReview
    <3> QED BY <1>1, <1>2, <1>3, <1>4, <3>2, KeySet DEF Claims
  <2>3. CASE pc[p] \notin {"resolve", "review"}
    <3>1. <<pc[p], "review:attempt">> \notin KeyWriters
      BY <2>3 DEF KeyWriters, RunKeys, TerminalKeys
    <3>2. n.key["review:attempt"] = m.key["review:attempt"]
      BY <1>1, <1>3, <3>1 DEF Edits
    <3> QED BY <1>1, <1>4, <2>3, <3>2 DEF Edits, Claims
  <2> QED BY <2>1, <2>2, <2>3
<1>5. ASSUME n.key["observation:capture"] = "completed" PROVE n.observed
  <2>1. m.observed => n.observed
    BY <1>1 DEF Edits
  <2>2. CASE pc[p] = "capture"
    <3>1. CaptureObservation(p)
      BY <1>2, <2>2 DEF ObservationActions
    <3>2. n \in {m, SetKey(m, "observation:capture", "started")}
      BY <1>2, <3>1, Jumped, Persisted DEF CaptureObservation
    <3> QED BY <1>1, <1>2, <1>3, <1>5, <3>2, KeySet DEF Claims
  <2>3. CASE pc[p] = "registerDone"
    BY <1>1, <2>1, <2>3 DEF ClaimPlaces
  <2>4. CASE pc[p] \notin {"capture", "registerDone"}
    <3>1. <<pc[p], "observation:capture">> \notin KeyWriters
      BY <2>4 DEF KeyWriters, RunKeys, TerminalKeys
    <3>2. n.key["observation:capture"] = m.key["observation:capture"]
      BY <1>1, <1>3, <3>1 DEF Edits
    <3> QED BY <1>1, <1>5, <2>1, <3>2 DEF Claims
  <2> QED BY <2>2, <2>3, <2>4
<1> QED BY <1>4, <1>5

\* The claims of the copy and of the document after a step.
LEMMA ClaimDocs ==
  ASSUME NEW p \in Procs, Works(p), ClaimInv
  PROVE  /\ Claims(mem'[p], kernel'[Cyc(p)], calls'[Cyc(p)])
         /\ Claims(doc'[Cyc(p)], kernel'[Cyc(p)], calls'[Cyc(p)])
<1>1. Claims(mem'[p], kernel'[Cyc(p)], calls'[Cyc(p)])
  BY ClaimCounts, RetryAfterFirst, CompletedClaims DEF Claims
<1>2. Claims(doc[Cyc(p)], kernel'[Cyc(p)], calls'[Cyc(p)])
  BY ClaimGround, ClaimCounts DEF Claims
<1> QED BY <1>1, <1>2, WorkTypes

\* The places at which something is about to be invoked or registered.
LEMMA ClaimPlacesKept ==
  ASSUME NEW p \in Procs, Works(p), ClaimInv
  PROVE  ClaimPlaces(p)'
<1> DEFINE c == Cyc(p)
           m == mem[p]
           n == mem'[p]
           k == kernel[c]
           u == calls[c]
<1>1. /\ Edits(pc[p], m, n) /\ KernelEdits(pc[p], k, kernel'[c]) /\ CallsEdits(pc[p], u, calls'[c])
      /\ Claims(m, k, u) /\ ClaimPlaces(p)
  BY ClaimGround
<1>2. /\ Here(p) /\ m \in CycleDoc /\ Cyc(p)' = c
      /\ ObservationActions(p) /\ ProposalActions(p) /\ ExecutionActions(p) /\ ReviewActions(p)
  BY WorkTypes DEF Works
<1>3. \A i \in {"judgment:attempt1", "judgment:retry", "execution:attempt", "benchmark:attempt",
                "review:attempt", "observation:capture", "replay:observation",
                "replay:proposal-backlog"} :
        /\ i \in Keys
        /\ m.key[i] # "none" => n.key[i] # "none"
  BY <1>1, ClaimKeys DEF Edits
<1>4. /\ pc[p] \notin {"judgeFirst", "judgeAgain"} => calls'[c].judge = u.judge
      /\ pc[p] # "executor" => calls'[c].executor = u.executor
      /\ pc[p] # "measure" => calls'[c].benchmark = u.benchmark
      /\ pc[p] # "reviewer" => calls'[c].reviewer = u.reviewer
      /\ pc[p] # "observe" => kernel'[c].replays["components"] = k.replays["components"]
      /\ pc[p] # "registerSend" => kernel'[c].replays["observation"] = k.replays["observation"]
      /\ pc[p] # "snapshotSend" =>
           kernel'[c].replays["proposal-backlog"] = k.replays["proposal-backlog"]
  BY <1>1 DEF CallsEdits, KernelEdits, Registrations, ReplayKinds
<1>5. ASSUME pc'[p] = "judgeFirst"
      PROVE  calls'[c].judge = 0 /\ Claimed(p, "judgment:attempt1")'
  <2>1. ClaimJudgment(p)
    BY <1>2, <1>5, Sources DEF ObservationActions
  <2>2. m.key["judgment:attempt1"] = "none"
    BY <1>2, <1>5, <2>1, Jumped, Went DEF ClaimJudgment, FirstCallMade
  <2>3. n = SetKey(m, "judgment:attempt1", "started") /\ doc'[c] = n
    BY <1>2, <1>5, <2>1, Jumped, Went, Persisted DEF ClaimJudgment
  <2> QED BY <1>1, <1>2, <1>3, <1>4, <1>5, <2>2, <2>3, KeySet, Sources DEF Claims, Claimed
<1>6. ASSUME pc'[p] = "judgeAgain"
      PROVE  calls'[c].judge <= 1 /\ Claimed(p, "judgment:retry")'
  <2>1. FilterJudgment(p)
    BY <1>2, <1>6, Sources DEF ObservationActions
  <2>2. m.key["judgment:retry"] = "none"
    BY <1>2, <1>6, <2>1, Jumped DEF FilterJudgment, MayRetry
  <2>3. n = SetKey(m, "judgment:retry", "started") /\ doc'[c] = n
    BY <1>2, <1>6, <2>1, Jumped, Persisted DEF FilterJudgment
  <2> QED BY <1>1, <1>2, <1>3, <1>4, <1>6, <2>2, <2>3, KeySet, Sources DEF Claims, Claimed
<1>7. ASSUME \/ pc'[p] \in {"judgeFirstSave", "judgeAgainSave", "judgmentReject"}
             \/ pc'[p] = "judgmentFilter" /\ job'[p].got = "invalid"
      PROVE  n.key["judgment:attempt1"] # "none"
  <2>1. CASE pc[p] = "judge"
    <3>1. ClaimJudgment(p)
      BY <1>2, <2>1 DEF ObservationActions
    <3>2. pc'[p] = "judgmentFilter" => job'[p].got = files[c].judgment
      BY <1>2, <3>1, Went, Persisted DEF ClaimJudgment, Got, Here, TypeOK, Jobs
    <3>3. files[c].judgment # "invalid"
      BY WorkTypes DEF FilesType, Judged
    <3> QED BY <1>7, <2>1, <3>2, <3>3, Sources
  <2>2. CASE pc[p] \in {"judgeFirst", "judgeAgain", "judgeFirstSave", "judgeAgainSave"}
    BY <1>1, <1>3, <2>2 DEF ClaimPlaces, Claimed, At, Claims
  <2> QED BY <1>7, <2>1, <2>2, Sources
<1>8. ASSUME pc'[p] = "executor"
      PROVE  calls'[c].executor = 0 /\ Claimed(p, "execution:attempt")'
  <2>1. ClaimExecution(p) /\ pc[p] = "executeAttempt"
    BY <1>2, <1>8, Sources DEF ExecutionActions
  <2>2. /\ Unattempted(m, "execution:attempt")
        /\ Persist(p, SetKey(m, "execution:attempt", "started"), "executor", "release")
    BY <1>2, <1>8, <2>1, Jumped, Went DEF ClaimExecution
  <2>3. m.key["execution:attempt"] = "none"
    BY <1>2, <1>3, <2>2 DEF Unattempted, CycleDoc, Marks
  <2>4. n = SetKey(m, "execution:attempt", "started") /\ doc'[c] = n
    BY <1>2, <1>8, <2>2, Persisted
  <2> QED BY <1>1, <1>2, <1>3, <1>4, <2>1, <2>3, <2>4, KeySet DEF Claims, Claimed
<1>9. ASSUME pc'[p] = "measure"
      PROVE  calls'[c].benchmark = 0 /\ Claimed(p, "benchmark:attempt")'
  <2>1. ClaimBenchmark(p) /\ pc[p] = "benchmark"
    BY <1>2, <1>9, Sources DEF ExecutionActions
  <2>2. /\ Unattempted(m, "benchmark:attempt")
        /\ Persist(p, SetKey(m, "benchmark:attempt", "started"), "measure", "release")
    BY <1>2, <1>9, <2>1, Jumped, Went DEF ClaimBenchmark
  <2>3. m.key["benchmark:attempt"] = "none"
    BY <1>2, <1>3, <2>2 DEF Unattempted, CycleDoc, Marks
  <2>4. n = SetKey(m, "benchmark:attempt", "started") /\ doc'[c] = n
    BY <1>2, <1>9, <2>2, Persisted
  <2> QED BY <1>1, <1>2, <1>3, <1>4, <2>1, <2>3, <2>4, KeySet DEF Claims, Claimed
<1>10. ASSUME pc'[p] = "reviewer"
       PROVE  calls'[c].reviewer = 0 /\ Claimed(p, "review:attempt")'
  <2>1. ClaimReview(p) /\ pc[p] = "review"
    BY <1>2, <1>10, Sources DEF ReviewActions
  <2>2. /\ ~(m.key["review:attempt"] = "completed" /\ m.review # "none" /\ m.final # "none")
        /\ m.key["review:attempt"] # "started"
        /\ Persist(p, SetKey(m, "review:attempt", "started"), "reviewer", "release")
    BY <1>2, <1>10, <2>1, Jumped, Went DEF ClaimReview
  <2>3. m.key["review:attempt"] = "none"
    BY <1>1, <1>2, <1>3, <2>2 DEF Claims, CycleDoc, Marks
  <2>4. n = SetKey(m, "review:attempt", "started") /\ doc'[c] = n
    BY <1>2, <1>10, <2>2, Persisted
  <2> QED BY <1>1, <1>2, <1>3, <1>4, <2>1, <2>3, <2>4, KeySet DEF Claims, Claimed
<1>11. ASSUME pc'[p] = "observe"
       PROVE  kernel'[c].replays["components"] = 0 /\ Claimed(p, "observation:capture")'
  <2>1. CaptureObservation(p) /\ pc[p] = "capture"
    BY <1>2, <1>11, Sources DEF ObservationActions
  <2>2. /\ ~m.observed /\ ~CaptureClaimed(m)
        /\ Persist(p, SetKey(m, "observation:capture", "started"), "observe", "fail")
    BY <1>2, <1>11, <2>1, Jumped, Went DEF CaptureObservation
  <2>3. m.key["observation:capture"] = "none"
    BY <1>1, <1>2, <1>3, <2>2 DEF Claims, CaptureClaimed, CycleDoc, Marks
  <2>4. n = SetKey(m, "observation:capture", "started") /\ doc'[c] = n
    BY <1>2, <1>11, <2>2, Persisted
  <2> QED BY <1>1, <1>2, <1>3, <1>4, <2>1, <2>3, <2>4, KeySet DEF Claims, Claimed
<1>12. ASSUME pc'[p] = "registerSend"
       PROVE  /\ kernel'[c].replays["observation"] = 0 /\ Claimed(p, "replay:observation")'
              /\ n.observed
  <2> DEFINE x == [m EXCEPT !.observed = TRUE]
  <2>1. ClaimRegistration(p) /\ pc[p] = "register"
    BY <1>2, <1>12, Sources DEF ObservationActions
  <2>2. /\ x.key["replay:observation"] = "none"
        /\ Persist(p, SetKey(x, "replay:observation", "started"), "registerSend", "fail")
    BY <1>2, <1>12, <2>1, Went DEF ClaimRegistration
  <2>3. x \in CycleDoc /\ x.observed /\ x.key = m.key
    BY <1>2 DEF CycleDoc
  <2> HIDE DEF x
  <2>4. n = SetKey(x, "replay:observation", "started") /\ doc'[c] = n
    BY <1>2, <1>12, <2>2, Persisted
  <2> QED BY <1>1, <1>2, <1>3, <1>4, <2>1, <2>2, <2>3, <2>4, KeySet DEF Claims, Claimed
<1>13. ASSUME pc'[p] = "registerDone" PROVE n.observed
  <2>1. CASE pc[p] = "registerSend"
    BY <1>1, <2>1 DEF ClaimPlaces, Edits
  <2>2. CASE pc[p] = "register"
    <3>1. ClaimRegistration(p)
      BY <1>2, <2>2 DEF ObservationActions
    <3>2. Remember(p, [m EXCEPT !.observed = TRUE])
      BY <1>2, <1>13, <3>1, Persisted, Went DEF ClaimRegistration
    <3>3. n = [m EXCEPT !.observed = TRUE]
      BY <1>2, <3>2 DEF Remember, Here, TypeOK
    <3> QED BY <1>2, <3>3 DEF CycleDoc
  <2> QED BY <1>13, <2>1, <2>2, Sources
<1>14. ASSUME pc'[p] = "snapshotSend"
       PROVE  /\ kernel'[c].replays["proposal-backlog"] = 0
              /\ Claimed(p, "replay:proposal-backlog")'
  <2>1. ClaimSnapshot(p) /\ pc[p] = "snapshotRegister"
    BY <1>2, <1>14, Sources DEF ProposalActions
  <2>2. /\ m.key["replay:proposal-backlog"] = "none"
        /\ Persist(p, SetKey(m, "replay:proposal-backlog", "started"), "snapshotSend", "release")
    BY <1>2, <1>14, <2>1, Jumped DEF ClaimSnapshot
  <2>3. n = SetKey(m, "replay:proposal-backlog", "started") /\ doc'[c] = n
    BY <1>2, <1>14, <2>2, Persisted
  <2> QED BY <1>1, <1>2, <1>3, <1>4, <2>1, <2>2, <2>3, KeySet DEF Claims, Claimed
<1> QED
  BY <1>2, <1>5, <1>6, <1>7, <1>8, <1>9, <1>10, <1>11, <1>12, <1>13, <1>14 DEF ClaimPlaces, At

\* What was counted stays within what was promised.
LEMMA ClaimLimits ==
  ASSUME NEW p \in Procs, Works(p), ClaimInv
  PROVE  LET c == Cyc(p)
         IN /\ calls'[c].executor <= 1 /\ calls'[c].benchmark <= 1 /\ calls'[c].reviewer <= 1
            /\ calls'[c].judge <= 2
            /\ \A i \in ReplayKinds : kernel'[c].replays[i] <= 1
<1> DEFINE c == Cyc(p)
<1>1. /\ KernelEdits(pc[p], kernel[c], kernel'[c]) /\ CallsEdits(pc[p], calls[c], calls'[c])
      /\ ClaimPlaces(p)
  BY ClaimGround
<1>2. calls[c] \in CallsType /\ kernel[c] \in KernelType /\ c \in Cycles
  BY WorkTypes
<1>3. /\ calls[c].executor <= 1 /\ calls[c].benchmark <= 1 /\ calls[c].reviewer <= 1
      /\ calls[c].judge <= 2 /\ \A i \in ReplayKinds : kernel[c].replays[i] <= 1
  BY <1>2 DEF ClaimInv, InvokedAtMostOnce, RegisteredAtMostOnce
<1>4. /\ calls'[c].executor <= 1 /\ calls'[c].benchmark <= 1 /\ calls'[c].reviewer <= 1
      /\ calls'[c].judge <= 2
  BY <1>1, <1>2, <1>3 DEF CallsEdits, CallsType, ClaimPlaces, At
<1>5. \A i \in ReplayKinds : kernel'[c].replays[i] <= 1
  BY <1>1, <1>2, <1>3 DEF KernelEdits, KernelType, ClaimPlaces, At, Registrations, ReplayKinds
<1> QED BY <1>4, <1>5

\* A cycle without a trace, and the places at the start of an operation.
LEMMA ClaimStart ==
  /\ \A d \in NewDocs \cup {NoDoc} : Claims(d, KernelInit, CallsInit)
  /\ KernelInit.replays = [i \in ReplayKinds |-> 0]
<1>1. \A d \in NewDocs \cup {NoDoc} : d.key = NoDoc.key
  BY ZenonT(40) DEF NewDocs, NoDoc
<1>2. \A i \in Keys : NoDoc.key[i] = "none"
  BY DEF NoDoc
<1>3. /\ KernelInit.replays = [i \in ReplayKinds |-> 0]
      /\ CallsInit.judge = 0 /\ CallsInit.executor = 0 /\ CallsInit.benchmark = 0
      /\ CallsInit.reviewer = 0
  BY DEF KernelInit, CallsInit
<1>4. \A d \in NewDocs \cup {NoDoc} : Claims(d, KernelInit, CallsInit)
  BY <1>1, <1>2, <1>3, ClaimKeys DEF Claims, ReplayKinds
<1> QED BY <1>3, <1>4

\* ClaimInv is inductive.
LEMMA ClaimKept ==
  ASSUME LockInv, CycleInv, Unborn, ClaimInv, [Next]_vars
  PROVE  ClaimInv'
<1>1. ASSUME NEW p \in Procs, Works(p) PROVE ClaimInv'
  <2>1. \A c \in Cycles \ {Cyc(p)} :
          doc'[c] = doc[c] /\ kernel'[c] = kernel[c] /\ calls'[c] = calls[c]
    BY <1>1 DEF Works, Data, World
  <2>2. InvokedAtMostOnce' /\ RegisteredAtMostOnce'
    BY <1>1, <2>1, ClaimLimits DEF ClaimInv, InvokedAtMostOnce, RegisteredAtMostOnce
  <2>3. \A c \in Cycles : Claims(doc'[c], kernel'[c], calls'[c])
    BY <1>1, <2>1, ClaimDocs DEF ClaimInv
  <2>4. \A q \in Procs : Running(q)' =>
          Claims(mem'[q], kernel'[Cyc(q)'], calls'[Cyc(q)']) /\ ClaimPlaces(q)'
    BY <1>1, ClaimDocs, ClaimPlacesKept DEF Works
  <2> QED BY <2>2, <2>3, <2>4 DEF ClaimInv
<1>2. ASSUME NEW p \in Procs, Starts(p) PROVE ClaimInv'
  <2>1. /\ Cyc(p) \in Cycles /\ Cyc(p)' = Cyc(p) /\ UNCHANGED <<kernel, calls>>
        /\ doc[Cyc(p)] = NoDoc /\ kernel[Cyc(p)] = KernelInit /\ calls[Cyc(p)] = CallsInit
    BY <1>2 DEF Starts, Unborn, world, Cyc
  <2>2. doc'[Cyc(p)] \in NewDocs \cup {NoDoc} /\ mem'[p] \in NewDocs
    BY <1>2, <2>1 DEF Starts
  <2>3. \A c \in Cycles : Claims(doc'[c], kernel'[c], calls'[c])
    BY <1>2, <2>1, <2>2, ClaimStart DEF Starts, ClaimInv
  <2>4. Running(p)' => Claims(mem'[p], kernel'[Cyc(p)'], calls'[Cyc(p)']) /\ ClaimPlaces(p)'
    BY <1>2, <2>1, <2>2, ClaimStart DEF Starts, Running, ClaimPlaces, At
  <2> QED BY <1>2, <2>1, <2>3, <2>4
      DEF Starts, ClaimInv, InvokedAtMostOnce, RegisteredAtMostOnce
<1>3. CASE Quiet
  <2>1. UNCHANGED <<doc, kernel, calls>>
    BY <1>3 DEF Quiet, world
  <2>2. ASSUME NEW q \in Procs, Running(q)'
        PROVE  Claims(mem'[q], kernel'[Cyc(q)'], calls'[Cyc(q)']) /\ ClaimPlaces(q)'
    <3>1. CASE Running(q) /\ Stays(q)
      BY <2>1, <3>1 DEF ClaimInv, Stays, ClaimPlaces, At, Claimed, Cyc
    <3>2. CASE Enters(q)
      <4>1. pc'[q] \in {"ensureRun", "event"} /\ Cyc(q) \in Cycles
        BY <3>2 DEF Enters, Body, Ops
      <4> QED BY <2>1, <3>2, <4>1 DEF ClaimInv, Enters, ClaimPlaces, At
    <3> QED BY <1>3, <2>2, <3>1, <3>2 DEF Quiet
  <2> QED BY <2>1, <2>2 DEF ClaimInv, InvokedAtMostOnce, RegisteredAtMostOnce
<1> QED BY <1>1, <1>2, <1>3, StepKinds


\* Every reachable state has ClaimInv.
LEMMA ClaimInvariance == Spec => []ClaimInv
<1>1. Init => ClaimInv
  <2> SUFFICES ASSUME Init PROVE ClaimInv
    OBVIOUS
  <2>1. \A c \in Cycles : doc[c] = NoDoc /\ kernel[c] = KernelInit /\ calls[c] = CallsInit
    BY DEF Init, ServiceInit
  <2>2. \A p \in Procs : ~Running(p)
    BY DEF Init, ServiceInit, Running, Critical, Outside
  <2>3. /\ CallsInit.executor <= 1 /\ CallsInit.benchmark <= 1 /\ CallsInit.reviewer <= 1
        /\ CallsInit.judge <= 2
    BY DEF CallsInit
  <2> QED BY <2>1, <2>2, <2>3, ClaimStart DEF ClaimInv, InvokedAtMostOnce, RegisteredAtMostOnce
<1>2. LockInv /\ CycleInv /\ Unborn /\ ClaimInv /\ [Next]_vars => ClaimInv'
  BY ClaimKept
<1> QED BY <1>1, <1>2, LockInvariant, CycleInvariance, UnbornInvariance, PTL DEF Spec

\* However often a cycle is interrupted and resumed, and by however many
\* invocations: one run of the executor, of the benchmark and of the reviewer,
\* and two judgments at most (the claims of Execute, Review and
\* loadOrRunJudgment).
THEOREM AtMostOnce == Spec => []InvokedAtMostOnce
<1>1. ClaimInv => InvokedAtMostOnce
  BY DEF ClaimInv
<1> QED BY <1>1, ClaimInvariance, PTL

\* Each replay input is registered at most once, though RecordReplayInput has
\* no idempotency key.
THEOREM RegisteredOnce == Spec => []RegisteredAtMostOnce
<1>1. ClaimInv => RegisteredAtMostOnce
  BY DEF ClaimInv
<1> QED BY <1>1, ClaimInvariance, PTL

-----------------------------------------------------------------------------
(* No bead is created twice. *)

\* A step keeps what the backlog was seen not to hold.
LEMMA BeadPlacesKept ==
  ASSUME NEW p \in Procs, Works(p)
  PROVE  BeadPlaces(p)'
<1>1. Here(p) /\ Cyc(p)' = Cyc(p) /\ ProposalActions(p) /\ CompoundActions(p)
  BY DEF Works
<1>2. ASSUME pc'[p] = "proposalCreate"
      PROVE  ~ExperimentExists(Cyc(p))' /\ ~SiblingExists(Cyc(p))'
  <2>1. ListBacklog(p)
    BY <1>1, <1>2, Sources DEF ProposalActions
  <2>2. ~ExperimentExists(Cyc(p)) /\ ~SiblingExists(Cyc(p))
    BY <1>1, <1>2, <2>1, Went DEF ListBacklog
  <2> QED BY <1>1, <2>1, <2>2 DEF ListBacklog, world, ExperimentExists, SiblingExists
<1>3. ASSUME pc'[p] = "promoteCreate" PROVE ~PromotionExists(Cyc(p))'
  <2>1. FindPromotion(p)
    BY <1>1, <1>3, Sources DEF CompoundActions
  <2>2. ~PromotionExists(Cyc(p))
    BY <1>1, <1>3, <2>1, Jumped, Went DEF FindPromotion
  <2> QED BY <1>1, <2>1, <2>2 DEF FindPromotion, world, PromotionExists
<1> QED BY <1>1, <1>2, <1>3 DEF BeadPlaces, At, ExperimentExists, SiblingExists, PromotionExists

\* BeadInv is inductive.
LEMMA BeadKept ==
  ASSUME LockInv, CycleInv, BeadInv, [Next]_vars
  PROVE  BeadInv'
<1>1. ASSUME NEW p \in Procs, Works(p) PROVE BeadInv'
  <2> DEFINE c == Cyc(p)
  <2>1. \A d \in Cycles \ {c} : backlog'[d] = backlog[d]
    BY <1>1 DEF Works, World
  <2>2. /\ c \in Cycles /\ backlog[c] \in BacklogType /\ BeadPlaces(p)
        /\ BacklogEdits(pc[p], backlog[c], backlog'[c])
    BY <1>1, WorkTypes DEF Works, World, BeadInv
  <2>3. OneBeadEach'
    <3>1. backlog[c].experiments <= 1 /\ backlog[c].promotions <= 1
      BY <2>2 DEF BeadInv, OneBeadEach
    <3>2. backlog'[c].experiments <= 1 /\ backlog'[c].promotions <= 1
      BY <2>2, <3>1 DEF BacklogEdits, BacklogType, BeadPlaces, At, ExperimentExists, PromotionExists
    <3> QED BY <2>1, <3>2 DEF BeadInv, OneBeadEach
  <2>4. OneExperimentPerFingerprint'
    <3>1. CASE pc[p] = "proposalCreate"
      <4>1. \A d \in Cycles \ {c} : Fingerprint[d] = Fingerprint[c] => ~(backlog[d].experiments > 0)
        BY <2>2, <3>1 DEF BeadPlaces, At, SiblingExists, ExperimentExists
      <4>2. \A d, e \in Cycles \ {c} :
              /\ Fingerprint[d] = Fingerprint[e]
              /\ backlog[d].experiments > 0 /\ backlog[e].experiments > 0
              => d = e
        BY DEF BeadInv, OneExperimentPerFingerprint, ExperimentExists
      <4> HIDE DEF c
      <4> QED BY <2>1, <4>1, <4>2 DEF OneExperimentPerFingerprint, ExperimentExists
    <3>2. CASE pc[p] # "proposalCreate"
      <4>1. \A d \in Cycles : backlog'[d].experiments = backlog[d].experiments
        BY <2>1, <2>2, <3>2 DEF BacklogEdits
      <4> QED BY <4>1 DEF BeadInv, OneExperimentPerFingerprint, ExperimentExists
    <3> QED BY <3>1, <3>2
  <2>5. \A q \in Procs : Running(q)' => BeadPlaces(q)'
    BY <1>1, BeadPlacesKept DEF Works
  <2> QED BY <2>3, <2>4, <2>5 DEF BeadInv
<1>2. ASSUME NEW p \in Procs, Starts(p) PROVE BeadInv'
  <2>1. backlog' = backlog /\ pc'[p] \notin {"proposalCreate", "promoteCreate"}
    BY <1>2 DEF Starts, world
  <2> QED BY <1>2, <2>1 DEF Starts, BeadInv, BeadPlaces, At, OneBeadEach,
       OneExperimentPerFingerprint, ExperimentExists
<1>3. CASE Quiet
  <2>1. backlog' = backlog
    BY <1>3 DEF Quiet, world
  <2>2. ASSUME NEW q \in Procs, Running(q)' PROVE BeadPlaces(q)'
    <3>1. CASE Running(q) /\ Stays(q)
      BY <2>1, <3>1 DEF BeadInv, Stays, BeadPlaces, At, Cyc, ExperimentExists, SiblingExists,
         PromotionExists
    <3>2. CASE Enters(q)
      BY <3>2 DEF Enters, Body, Ops, BeadPlaces, At
    <3> QED BY <1>3, <2>2, <3>1, <3>2 DEF Quiet
  <2> QED BY <2>1, <2>2 DEF BeadInv, OneBeadEach, OneExperimentPerFingerprint, ExperimentExists
<1> QED BY <1>1, <1>2, <1>3, StepKinds

\* Every reachable state has BeadInv.
LEMMA BeadInvariance == Spec => []BeadInv
<1>1. Init => BeadInv
  BY DEF Init, ServiceInit, BacklogInit, BeadInv, OneBeadEach, OneExperimentPerFingerprint,
     ExperimentExists, Running, Critical, Outside
<1>2. LockInv /\ CycleInv /\ BeadInv /\ [Next]_vars => BeadInv'
  BY BeadKept
<1> QED BY <1>1, <1>2, LockInvariant, CycleInvariance, PTL DEF Spec

\* A cycle has at most one experiment and one promotion bead, also when the
\* answer of bd create is lost (ensureProposal, compoundBacklog).
THEOREM OneBead == Spec => []OneBeadEach
<1>1. BeadInv => OneBeadEach
  BY DEF BeadInv
<1> QED BY <1>1, BeadInvariance, PTL

\* The whole backlog never holds two experiments of one fingerprint, although
\* ensureProposal lists and creates in two calls: the portfolio lock is held.
THEOREM OneExperiment == Spec => []OneExperimentPerFingerprint
<1>1. BeadInv => OneExperimentPerFingerprint
  BY DEF BeadInv
<1> QED BY <1>1, BeadInvariance, PTL

-----------------------------------------------------------------------------
(* Every stage is reported before it is left. *)

\* From the places at which the stage may be unreported p goes on to such
\* places, or out, or looks at its event.
LEMMA UnreportedLeft ==
  ASSUME NEW p \in Procs, Works(p), pc[p] \in Unreported \ {"event"}
  PROVE  pc'[p] \in Unreported \cup {"release"}
<1>1. Here(p) /\ mem[p] \in CycleDoc /\ ObservationActions(p)
  BY WorkTypes DEF Works
<1> USE DEF Unreported
<1>2. CASE pc[p] = "startLatest"
  BY <1>1, <1>2, Went DEF ObservationActions, StartLatest
<1>3. CASE pc[p] = "ensureRun"
  BY <1>1, <1>3, Went DEF ObservationActions, EnsureCycleRun
<1>4. CASE pc[p] = "ensureRunSave"
  <2>1. Persist(p, [mem[p] EXCEPT !.run = TRUE], "continue", "release")
    BY <1>1, <1>4 DEF ObservationActions, SaveCycleRun
  <2> QED BY <1>1, <2>1, Persisted
<1>5. CASE pc[p] = "continue"
  BY <1>1, <1>5, Went DEF ObservationActions, ContinueObservation, Call
<1>6. CASE pc[p] = "observing"
  <2>1. EnterObserving(p)
    BY <1>1, <1>6 DEF ObservationActions
  <2> QED BY <1>1, <2>1, Went, Transited DEF EnterObserving, Call
<1> QED BY <1>2, <1>3, <1>4, <1>5, <1>6

\* What a step of p does to the events of its copy, its document and Intercore.
LEMMA ReportDocs ==
  ASSUME NEW p \in Procs, Works(p), ReportInv
  PROVE  LET c == Cyc(p)
         IN /\ mem'[p].events \subseteq kernel'[c].events
            /\ doc'[c].events \subseteq kernel'[c].events
            /\ kernel[c].events \subseteq kernel'[c].events
<1>1. /\ Edits(pc[p], mem[p], mem'[p])
      /\ KernelEdits(pc[p], kernel[Cyc(p)], kernel'[Cyc(p)])
      /\ mem[p].events \subseteq kernel[Cyc(p)].events
      /\ doc[Cyc(p)].events \subseteq kernel[Cyc(p)].events /\ ReportPlaces(p)
  BY WorkTypes DEF Works, Saves, World, ReportInv
<1>2. mem'[p].events \subseteq kernel'[Cyc(p)].events
  BY <1>1 DEF Edits, KernelEdits, ReportPlaces, At
<1> QED BY <1>1, <1>2, WorkTypes DEF KernelEdits

\* The stage of whoever is past the look at its event is reported.
LEMMA ReportPlacesKept ==
  ASSUME NEW p \in Procs, Works(p), ReportInv, Running(p)'
  PROVE  ReportPlaces(p)'
<1> DEFINE c == Cyc(p)
           m == mem[p]
           n == mem'[p]
<1>1. /\ Here(p) /\ Cyc(p)' = c /\ ServiceActions(p) /\ ObservationActions(p)
      /\ m.events \subseteq kernel[c].events /\ ReportPlaces(p) /\ pc'[p] # "release"
      /\ c \in Cycles /\ TypeOK
  BY WorkTypes DEF Works, ReportInv
<1>2. kernel[c].events \subseteq kernel'[c].events
  BY ReportDocs
<1>3. n.stage = m.stage \/ pc'[p] = "event"
  BY <1>1 DEF Works, Saves
<1>4. ASSUME pc[p] = "event", pc'[p] \notin Unreported
      PROVE  /\ n.stage \in kernel'[c].events \cup {"new"}
             /\ pc'[p] = "eventSave" => n.stage \in kernel'[c].events
  <2>1. EnsureStageEvent(p) /\ n = m
    BY <1>1, <1>4 DEF ServiceActions, EnsureStageEvent
  <2>2. CASE EventRecorded(m) /\ Continue(p, job[p].ret)
    <3>1. m.stage \in kernel[c].events \cup {"new"}
      BY <1>1, <2>2 DEF EventRecorded
    <3>2. pc'[p] # "eventSave"
      BY <1>1, <1>4, <2>2, Went DEF Here, Registers, Conts
    <3> QED BY <1>2, <2>1, <3>1, <3>2
  <2>3. CASE kernel' = [kernel EXCEPT ![c].events = @ \cup {m.stage}]
    <3>1. m.stage \in kernel'[c].events
      BY <1>1, <2>3 DEF TypeOK, KernelType
    <3> QED BY <2>1, <3>1
  <2> QED BY <1>1, <1>4, <2>1, <2>2, <2>3, Went DEF EnsureStageEvent
<1>5. ASSUME pc'[p] \notin Unreported PROVE n.stage \in kernel'[c].events \cup {"new"}
  <2>1. CASE pc[p] = "event"
    BY <1>4, <1>5, <2>1
  <2>2. CASE pc[p] \in Unreported \ {"event"}
    BY <1>1, <1>5, <2>2, UnreportedLeft
  <2>3. CASE pc[p] \notin Unreported
    BY <1>1, <1>2, <1>3, <1>5, <2>3 DEF ReportPlaces, Unreported
  <2> QED BY <2>1, <2>2, <2>3
<1>6. ASSUME pc'[p] = "eventSave" PROVE n.stage \in kernel'[c].events
  <2>1. pc[p] = "event"
    BY <1>6, Inwards DEF Shared
  <2> QED BY <1>4, <1>6, <2>1 DEF Unreported
<1>7. ASSUME pc'[p] = "observing" PROVE n.stage \in {"new", "observing"}
  <2>1. ContinueObservation(p)
    BY <1>1, <1>7, Sources DEF ObservationActions
  <2> QED BY <1>1, <1>7, <2>1, Went DEF ContinueObservation, Call
<1> QED BY <1>1, <1>5, <1>6, <1>7 DEF ReportPlaces, At

\* ReportInv is inductive.
LEMMA ReportKept ==
  ASSUME LockInv, CycleInv, Unborn, ReportInv, [Next]_vars
  PROVE  ReportInv'
<1>1. ASSUME NEW p \in Procs, Works(p) PROVE ReportInv'
  <2>1. \A c \in Cycles \ {Cyc(p)} : doc'[c] = doc[c] /\ kernel'[c] = kernel[c]
    BY <1>1 DEF Works, Data, World
  <2>2. \A c \in Cycles : doc'[c].events \subseteq kernel'[c].events
    BY <1>1, <2>1, ReportDocs DEF ReportInv
  <2>3. \A q \in Procs : Running(q)' =>
          mem'[q].events \subseteq kernel'[Cyc(q)'].events /\ ReportPlaces(q)'
    BY <1>1, ReportDocs, ReportPlacesKept DEF Works
  <2> QED BY <2>2, <2>3 DEF ReportInv
<1>2. ASSUME NEW p \in Procs, Starts(p) PROVE ReportInv'
  <2>1. kernel' = kernel /\ Cyc(p)' = Cyc(p) /\ mem'[p].events = {}
    BY <1>2 DEF Starts, world, Cyc, NewDocs, NoDoc
  <2>2. \A c \in Cycles : doc'[c].events \subseteq kernel'[c].events
    BY <1>2, <2>1 DEF Starts, ReportInv
  <2>3. Running(p)' => mem'[p].events \subseteq kernel'[Cyc(p)'].events /\ ReportPlaces(p)'
    BY <1>2, <2>1 DEF Starts, Running, ReportPlaces, At, Unreported
  <2> QED BY <1>2, <2>2, <2>3 DEF Starts, ReportInv
<1>3. CASE Quiet
  <2>1. doc' = doc /\ kernel' = kernel
    BY <1>3 DEF Quiet, world
  <2>2. ASSUME NEW q \in Procs, Running(q)'
        PROVE  mem'[q].events \subseteq kernel'[Cyc(q)'].events /\ ReportPlaces(q)'
    <3>1. CASE Running(q) /\ Stays(q)
      BY <2>1, <3>1 DEF ReportInv, Stays, ReportPlaces, At, Cyc
    <3>2. CASE Enters(q)
      <4>1. pc'[q] \in {"ensureRun", "event"} /\ Cyc(q) \in Cycles
        BY <3>2 DEF Enters, Body, Ops
      <4> QED BY <2>1, <3>2, <4>1 DEF ReportInv, Enters, ReportPlaces, At, Unreported
    <3> QED BY <1>3, <2>2, <3>1, <3>2 DEF Quiet
  <2> QED BY <2>1, <2>2 DEF ReportInv
<1> QED BY <1>1, <1>2, <1>3, StepKinds

\* Every reachable state has ReportInv.
LEMMA ReportInvariance == Spec => []ReportInv
<1>1. Init => ReportInv
  BY DEF Init, ServiceInit, NoDoc, ReportInv, Running, Critical, Outside
<1>2. LockInv /\ CycleInv /\ Unborn /\ ReportInv /\ [Next]_vars => ReportInv'
  BY ReportKept
<1> QED BY <1>1, <1>2, LockInvariant, CycleInvariance, UnbornInvariance, PTL DEF Spec

\* The stage a step leaves is reported.
LEMMA ReportedWhenLeft ==
  ASSUME LockInv, CycleInv, ReportInv, [Next]_vars, NEW c \in Cycles,
         doc'[c].stage # doc[c].stage
  PROVE  doc[c].stage \in kernel[c].events \cup {Absent, "new"}
<1>1. ASSUME NEW p \in Procs, Works(p) PROVE doc[c].stage \in kernel[c].events \cup {"new"}
  <2> DEFINE m == mem[p]
             n == mem'[p]
  <2>1. c = Cyc(p) /\ m.stage = doc[c].stage /\ doc'[c] = n
    BY <1>1, WorkTypes DEF Works, Data
  <2>2. <<pc[p], n.stage>> \in StageWriters /\ ValidateTransition(m.stage, n.stage)
    BY <1>1, <2>1 DEF Works, Saves
  <2>3. ReportPlaces(p)
    BY <1>1, WorkTypes DEF ReportInv
  <2>4. CASE pc[p] = "observing"
    BY <2>1, <2>2, <2>3, <2>4 DEF StageWriters, ReportPlaces, At
  <2>5. CASE pc[p] # "observing"
    <3>1. pc[p] \notin Unreported
      BY <2>2, <2>5 DEF StageWriters, Unreported
    <3> QED BY <2>1, <2>3, <3>1 DEF ReportPlaces
  <2> QED BY <2>4, <2>5
<1>2. ASSUME NEW p \in Procs, Starts(p) PROVE doc[c].stage = Absent
  BY <1>2 DEF Starts
<1>3. CASE Quiet
  BY <1>3 DEF Quiet
<1> QED BY <1>1, <1>2, <1>3, StepKinds

\* No stage is left without its event in Intercore: transition records the
\* event after the document, and every operation repairs a missing one first.
THEOREM EveryLeftStageReported == Spec => StagesReported
<1> DEFINE Reported == \A c \in Cycles :
             doc'[c].stage # doc[c].stage =>
               doc[c].stage \in kernel[c].events \cup {Absent, "new"}
<1>1. LockInv /\ CycleInv /\ ReportInv /\ [Next]_vars => Reported
  BY ReportedWhenLeft
<1>2. Spec => [][Reported]_vars
  <2> HIDE DEF Reported
  <2> QED BY <1>1, LockInvariant, CycleInvariance, ReportInvariance, PTL DEF Spec
<1> QED BY <1>2 DEF StagesReported

-----------------------------------------------------------------------------
(* Authority and evidence, which are proved together. *)

Footing == ClaimInv /\ Agreement /\ AuthorityInv /\ EvidenceInv

\* What holds of the cycle p works on, and what a step of p makes of it.
LEMMA FootingGround ==
  ASSUME NEW p \in Procs, Works(p), Footing
  PROVE  LET c == Cyc(p)
             m == mem[p]
         IN /\ Here(p) /\ m \in CycleDoc /\ doc[c] \in CycleDoc /\ Cyc(p)' = c
            /\ m.stage = doc[c].stage /\ doc'[c] \in {doc[c], mem'[p]}
            /\ Edits(pc[p], m, mem'[p]) /\ Agree(m, doc[c])
            /\ BacklogEdits(pc[p], backlog[c], backlog'[c])
            /\ FilesEdits(pc[p], files[c], files'[c]) /\ CallsEdits(pc[p], calls[c], calls'[c])
            /\ Authority(m, backlog[c], files[c]) /\ Authority(doc[c], backlog[c], files[c])
            /\ OpPlaces(p) /\ AuthorityPlaces(p) /\ Chosen(job[p].op, doc[c])
            /\ Evidence(m, backlog[c], files[c], calls[c])
            /\ Evidence(doc[c], backlog[c], files[c], calls[c]) /\ EvidencePlaces(p)
            /\ Claims(m, kernel[c], calls[c])
<1>1. Running(p) => pc[p] # "idle"
  BY DEF Running, Critical, Outside
<1> QED BY <1>1, WorkTypes DEF Works, Saves, World, Footing, ClaimInv, Agreement, AuthorityInv,
     EvidenceInv

\* The stage changes only by transition, on the way to its event or out.
LEMMA StageStep ==
  ASSUME NEW p \in Procs, Works(p)
  PROVE  LET m == mem[p]
             n == mem'[p]
         IN /\ n.stage # m.stage =>
                 /\ <<pc[p], n.stage>> \in StageWriters /\ ValidateTransition(m.stage, n.stage)
                 /\ pc'[p] \in {"event", "release"} /\ pc[p] \notin Shared
            /\ m.stage \in Stages
<1>1. \A s : <<pc[p], s>> \in StageWriters => pc[p] \notin Shared
  BY DEF StageWriters, Shared
<1> QED BY <1>1, WorkTypes DEF Works, Saves

\* The keys that speak of evidence.
LEMMA EvidenceKeys ==
  /\ {"execution:attempt", "benchmark:attempt", "review:attempt"} \subseteq Keys \ LooseKeys
  /\ {"execution:attempt", "benchmark:attempt", "review:attempt"} \subseteq Keys \ {"roadmap:sync"}
  /\ {"execution:attempt", "benchmark:attempt"} \subseteq Lasting
  /\ \A l : /\ <<l, "execution:attempt">> \in KeyWriters => l \in {"executeAttempt", "collect"}
            /\ <<l, "benchmark:attempt">> \in KeyWriters => l \in {"benchmark", "measured"}
            /\ <<l, "review:attempt">> \in KeyWriters => l \in {"review", "resolve"}
<1>1. \A l : /\ <<l, "execution:attempt">> \in KeyWriters => l \in {"executeAttempt", "collect"}
             /\ <<l, "benchmark:attempt">> \in KeyWriters => l \in {"benchmark", "measured"}
             /\ <<l, "review:attempt">> \in KeyWriters => l \in {"review", "resolve"}
  BY DEF KeyWriters, RunKeys, TerminalKeys
<1> QED BY <1>1 DEF Keys, LooseKeys, Lasting

\* The keys after a step.
LEMMA EvidenceMarks ==
  ASSUME NEW p \in Procs, Works(p), Footing
  PROVE  LET m == mem[p]
             n == mem'[p]
             d == doc[Cyc(p)]
         IN /\ \A k \in {"execution:attempt", "benchmark:attempt", "review:attempt"} :
                 /\ d.key[k] = m.key[k]
                 /\ m.key[k] # "none" => n.key[k] # "none"
                 /\ m.key[k] = "completed" => n.key[k] = "completed"
            /\ pc[p] \notin {"executeAttempt", "collect"} =>
                 n.key["execution:attempt"] = m.key["execution:attempt"]
            /\ pc[p] \notin {"benchmark", "measured"} =>
                 n.key["benchmark:attempt"] = m.key["benchmark:attempt"]
            /\ pc[p] \notin {"review", "resolve"} =>
                 n.key["review:attempt"] = m.key["review:attempt"]
<1> DEFINE m == mem[p]
           n == mem'[p]
<1>1. /\ Edits(pc[p], m, n) /\ Agree(m, doc[Cyc(p)]) /\ Here(p) /\ m \in CycleDoc
      /\ Claims(m, kernel[Cyc(p)], calls[Cyc(p)]) /\ ReviewActions(p) /\ EvidencePlaces(p)
  BY FootingGround DEF Works
<1>2. ASSUME m.key["review:attempt"] = "completed" PROVE n.key["review:attempt"] = "completed"
  <2>1. CASE pc[p] = "review"
    <3>1. m.review # "none" /\ m.final # "none"
      BY <1>1, <1>2 DEF Claims
    <3>2. n = m
      BY <1>1, <1>2, <2>1, <3>1, Jumped DEF ReviewActions, ClaimReview
    <3> QED BY <1>2, <3>2
  <2>2. CASE pc[p] = "resolve"
    <3> DEFINE review == job[p].got
               resolved == [m EXCEPT !.review = review,
                              !.final = IF @ = "none" THEN FinalVerdict(review, m.measured) ELSE @]
    <3>1. n = m \/ n = SetKey(resolved, "review:attempt", "completed")
      BY <1>1, <2>2, Jumped, Persisted DEF ReviewActions, Resolve
    <3>2. resolved.key = m.key
      OBVIOUS
    <3> HIDE DEF resolved
    <3> QED BY <1>1, <1>2, <3>1, <3>2, EvidenceKeys DEF SetKey, CycleDoc, Edits
  <2>3. CASE pc[p] \notin {"review", "resolve"}
    BY <1>1, <1>2, <2>3, EvidenceKeys DEF Edits
  <2> QED BY <2>1, <2>2, <2>3
<1>3. \A k \in {"execution:attempt", "benchmark:attempt", "review:attempt"} :
        /\ doc[Cyc(p)].key[k] = m.key[k]
        /\ m.key[k] # "none" => n.key[k] # "none"
  BY <1>1, EvidenceKeys DEF Edits, Agree
<1>4. \A k \in {"execution:attempt", "benchmark:attempt"} :
        m.key[k] = "completed" => n.key[k] = "completed"
  BY <1>1, EvidenceKeys DEF Edits
<1>5. /\ pc[p] \notin {"executeAttempt", "collect"} =>
           n.key["execution:attempt"] = m.key["execution:attempt"]
      /\ pc[p] \notin {"benchmark", "measured"} =>
           n.key["benchmark:attempt"] = m.key["benchmark:attempt"]
      /\ pc[p] \notin {"review", "resolve"} =>
           n.key["review:attempt"] = m.key["review:attempt"]
  BY <1>1, EvidenceKeys DEF Edits
<1>6. \A k \in {"execution:attempt", "benchmark:attempt", "review:attempt"} :
        m.key[k] = "completed" => n.key[k] = "completed"
  BY <1>2, <1>4
<1> QED BY <1>3, <1>5, <1>6

\* Who is not approved or declined yet may only become so.
LEMMA DecisionsLast ==
  ASSUME NEW p \in Procs, Works(p), Footing
  PROVE  /\ mem'[p].mode = mem[p].mode /\ doc[Cyc(p)].mode = mem[p].mode
         /\ doc[Cyc(p)].approved = mem[p].approved /\ doc[Cyc(p)].declined = mem[p].declined
         /\ mem[p].approved => mem'[p].approved
         /\ mem[p].declined => mem'[p].declined
         /\ backlog[Cyc(p)].experiments > 0 => backlog'[Cyc(p)].experiments > 0
BY FootingGround, WorkTypes DEF Edits, Agree, BacklogEdits, BacklogType

\* A stage only a proposal reaches is entered with its bead.
LEMMA CommittedDocs ==
  ASSUME NEW p \in Procs, Works(p), Footing, NEW d \in {doc[Cyc(p)], mem'[p]},
         d.stage \in Committed
  PROVE  d.mode = "proposal" /\ backlog'[Cyc(p)].experiments > 0
<1> DEFINE m == mem[p]
           n == mem'[p]
           b == backlog[Cyc(p)]
<1>1. /\ Authority(m, b, files[Cyc(p)]) /\ Authority(doc[Cyc(p)], b, files[Cyc(p)])
      /\ AuthorityPlaces(p)
  BY FootingGround
<1>2. CASE d = doc[Cyc(p)] \/ m.stage \in Committed
  BY <1>1, <1>2, DecisionsLast DEF Authority
<1>3. CASE d = n /\ m.stage \notin Committed
  <2>1. <<pc[p], n.stage>> \in StageWriters /\ ValidateTransition(m.stage, n.stage)
    BY <1>3, StageStep
  <2>2. n.stage = "proposed"
    BY <1>3, <2>1 DEF ValidateTransition, ForwardEdges, Committed
  <2>3. pc[p] = "proposeEnter"
    BY <2>1, <2>2 DEF StageWriters
  <2>4. m.mode = "proposal" /\ b.experiments > 0
    BY <1>1, <2>3 DEF AuthorityPlaces, Toward, Heading, Shared, ExperimentExists
  <2> QED BY <1>3, <2>4, DecisionsLast
<1> QED BY <1>2, <1>3

\* The stages an approved cycle may be in.
Approvable == {"approved", "executing", "reviewing", "compounding", "completed", "failed"}

\* An approval is recorded with the stage it leads to.
LEMMA ApprovedDocs ==
  ASSUME NEW p \in Procs, Works(p), Footing, NEW d \in {doc[Cyc(p)], mem'[p]}, d.approved
  PROVE  d.mode = "proposal" /\ backlog'[Cyc(p)].experiments > 0 /\ d.stage \in Approvable
<1> DEFINE m == mem[p]
           n == mem'[p]
           b == backlog[Cyc(p)]
<1>1. /\ Authority(m, b, files[Cyc(p)]) /\ Authority(doc[Cyc(p)], b, files[Cyc(p)])
      /\ Edits(pc[p], m, n) /\ Here(p) /\ m \in CycleDoc /\ m.stage = doc[Cyc(p)].stage
  BY FootingGround
<1>2. CASE m.approved
  <2>1. m.mode = "proposal" /\ b.experiments > 0 /\ m.stage \in Approvable
    BY <1>1, <1>2 DEF Authority, Approvable
  <2>2. n.stage \in Approvable
    BY <2>1, StageStep DEF ValidateTransition, ForwardEdges, Approvable
  <2> QED BY <1>1, <2>1, <2>2, DecisionsLast
<1>3. CASE ~m.approved
  <2>1. d = n /\ d # doc[Cyc(p)] /\ n.approved # m.approved
    BY <1>3, DecisionsLast
  <2>2. Approve(p)
    BY <1>1, <2>1 DEF Edits, Works, DecisionActions
  <2>3. Transition(p, [m EXCEPT !.approved = TRUE], "approved", "release") /\ MayApprove(m)
    BY <1>1, <2>1, <2>2, Jumped DEF Approve
  <2>4. m.stage = "awaiting_approval"
    BY <2>3 DEF MayApprove
  <2>5. Persist(p, [[m EXCEPT !.approved = TRUE] EXCEPT !.stage = "approved"], "event", "release")
    BY <1>1, <2>3, <2>4 DEF Transition, ValidateTransition, ForwardEdges, CycleDoc
  <2>6. n.stage = "approved"
    <3> DEFINE approved == [m EXCEPT !.approved = TRUE]
    <3>1. approved \in CycleDoc
      BY <1>1 DEF CycleDoc
    <3> HIDE DEF approved
    <3>2. n = [approved EXCEPT !.stage = "approved"]
      BY <1>1, <2>5, Persisted DEF approved
    <3> QED BY <3>1, <3>2 DEF CycleDoc
  <2>7. m.mode = "proposal" /\ b.experiments > 0
    BY <1>1, <2>4 DEF Authority, Committed
  <2> QED BY <2>1, <2>6, <2>7, DecisionsLast DEF Approvable
<1> QED BY <1>2, <1>3

\* No attempt is opened without the approval.
LEMMA AttemptDocs ==
  ASSUME NEW p \in Procs, Works(p), Footing, NEW d \in {doc[Cyc(p)], mem'[p]}
  PROVE  /\ d.key["execution:attempt"] # "none" => d.approved
         /\ d.key["review:attempt"] # "none" => d.approved
<1> DEFINE m == mem[p]
           n == mem'[p]
<1>1. /\ Authority(m, backlog[Cyc(p)], files[Cyc(p)]) /\ Here(p) /\ m \in CycleDoc
      /\ Authority(doc[Cyc(p)], backlog[Cyc(p)], files[Cyc(p)])
      /\ AuthorityPlaces(p) /\ EvidencePlaces(p) /\ ReviewActions(p)
  BY FootingGround DEF Works
<1>2. ASSUME n.key["execution:attempt"] # "none" PROVE n.approved
  <2>1. CASE m.key["execution:attempt"] # "none"
    BY <1>1, <2>1, DecisionsLast DEF Authority
  <2>2. CASE m.key["execution:attempt"] = "none"
    <3>1. pc[p] \in {"executeAttempt", "collect"}
      BY <1>2, <2>2, EvidenceMarks
    <3>2. pc[p] = "executeAttempt"
      BY <1>1, <2>2, <3>1 DEF EvidencePlaces
    <3>3. m.approved
      BY <1>1, <3>2 DEF AuthorityPlaces, Toward, Heading, Shared
    <3> QED BY <3>3, DecisionsLast
  <2> QED BY <2>1, <2>2
<1>3. ASSUME n.key["review:attempt"] # "none" PROVE n.approved
  <2>1. CASE m.key["review:attempt"] # "none"
    BY <1>1, <2>1, DecisionsLast DEF Authority
  <2>2. CASE m.key["review:attempt"] = "none"
    <3>1. pc[p] \in {"review", "resolve"}
      BY <1>3, <2>2, EvidenceMarks
    <3>2. pc[p] = "review"
      BY <1>1, <2>2, <3>1 DEF EvidencePlaces, At
    <3>3. n = m \/ m.approved
      BY <1>1, <3>2, Jumped DEF ReviewActions, ClaimReview
    <3> QED BY <1>3, <2>2, <3>3, DecisionsLast
  <2> QED BY <2>1, <2>2
<1> QED BY <1>1, <1>2, <1>3 DEF Authority

\* Nothing happens to the backlog or a worktree in shadow mode.
LEMMA ShadowDocs ==
  ASSUME NEW p \in Procs, Works(p), Footing, mem[p].mode = "shadow"
  PROVE  backlog'[Cyc(p)] = BacklogInit /\ files'[Cyc(p)].worktree = "clean"
<1> DEFINE m == mem[p]
           b == backlog[Cyc(p)]
           f == files[Cyc(p)]
<1>1. /\ Authority(m, b, f) /\ AuthorityPlaces(p) /\ EvidencePlaces(p)
      /\ BacklogEdits(pc[p], b, backlog'[Cyc(p)]) /\ FilesEdits(pc[p], f, files'[Cyc(p)])
  BY FootingGround
<1>2. pc[p] # "proposalCreate"
  BY <1>1 DEF AuthorityPlaces, Toward, Heading, Shared
<1>3. pc[p] # "executor"
  BY <1>1 DEF Authority, AuthorityPlaces, Toward, Heading, Shared
<1>4. pc[p] # "declineClose"
  BY <1>1 DEF Authority, AuthorityPlaces, Toward, Heading, Shared, Committed
<1>5. pc[p] \notin {"promoteCreate", "close", "roadmapSync"}
  BY <1>1 DEF Authority, EvidencePlaces, Consequent, Committed
<1>6. /\ backlog'[Cyc(p)].experiments = b.experiments /\ backlog'[Cyc(p)].closed = b.closed
      /\ backlog'[Cyc(p)].promotions = b.promotions /\ backlog'[Cyc(p)].roadmap = b.roadmap
  BY <1>1, <1>2, <1>4, <1>5 DEF BacklogEdits
<1>7. backlog'[Cyc(p)] = b
  BY <1>1, <1>6, WorkTypes DEF BacklogEdits, BacklogType
<1>8. b = BacklogInit /\ f.worktree = "clean"
  BY <1>1 DEF Authority
<1> QED BY <1>1, <1>3, <1>7, <1>8 DEF FilesEdits

\* The authority of the copy and of the document after a step.
LEMMA AuthorityDocs ==
  ASSUME NEW p \in Procs, Works(p), Footing, NEW d \in {doc[Cyc(p)], mem'[p]}
  PROVE  Authority(d, backlog'[Cyc(p)], files'[Cyc(p)])
<1>1. d.stage = "declined" => d.declined
  <2>1. /\ Authority(mem[p], backlog[Cyc(p)], files[Cyc(p)]) /\ AuthorityPlaces(p)
        /\ mem[p].stage = doc[Cyc(p)].stage
    BY FootingGround
  <2>2. CASE mem[p].stage = "declined"
    BY <2>1, <2>2, DecisionsLast DEF Authority
  <2>3. CASE d.stage = "declined" /\ mem[p].stage # "declined"
    <3>1. d = mem'[p] /\ <<pc[p], "declined">> \in StageWriters
      BY <2>1, <2>3, StageStep
    <3>2. pc[p] = "declineStage"
      BY <3>1 DEF StageWriters
    <3> QED BY <2>1, <3>1, <3>2, DecisionsLast DEF AuthorityPlaces, At
  <2> QED BY <2>2, <2>3
<1>2. d.mode = mem[p].mode
  BY DecisionsLast
<1> QED BY <1>1, <1>2, CommittedDocs, ApprovedDocs, AttemptDocs, ShadowDocs
     DEF Authority, Approvable

\* Only the places of Conts are headed for from inside a shared procedure.
LEMMA Standing ==
  ASSUME NEW p \in Procs, Works(p), Heading(p)' \notin Conts
  PROVE  pc'[p] = Heading(p)'
BY DEF Works, Control, Registers, Heading, Shared

\* The places of one operation are reached from its other places only.
LEMMA OpPlacesKept ==
  ASSUME NEW p \in Procs, Works(p), OpPlaces(p), Running(p)'
  PROVE  OpPlaces(p)'
<1> DEFINE Executing == {"execute", "executeAdvance", "executeEnter", "executeAttempt",
                         "executor", "report", "collect", "benchmark", "measure",
                         "measureWrite", "measured", "reviewAdvance", "reviewEnter"}
           Reviewing == {"review", "reviewer", "reviewWrite", "resolve", "compoundAdvance",
                         "compoundEnter"}
           Compounding == {"compound", "compoundStage"}
<1>1. \A l, k : <<l, k>> \in Edges =>
        /\ k \in Executing => l \in Executing
        /\ k \in Reviewing => l \in Reviewing
        /\ k \in Compounding => l \in Compounding
        /\ k # "propose"
  BY DEF Edges, ObservationEdges, ProposalEdges, DecisionEdges, ExecutionEdges, ReviewEdges,
     CompoundEdges
<1>2. job'[p].op = job[p].op
  BY DEF Works
<1>3. CASE Heading(p)' = Heading(p)
  BY <1>2, <1>3 DEF OpPlaces, Toward
<1>4. CASE <<pc[p], Heading(p)'>> \in Edges /\ Heading(p) = pc[p]
  BY <1>1, <1>2, <1>4 DEF OpPlaces, Toward
<1>5. CASE Heading(p)' \in {"fail", "release"}
  BY <1>5 DEF OpPlaces, Toward
<1> QED BY <1>3, <1>4, <1>5, Headed DEF Heading

\* The stage stays, unless p goes to record its event.
LEMMA StageKept ==
  ASSUME NEW p \in Procs, Works(p), Running(p)'
  PROVE  mem'[p].stage = mem[p].stage \/ (pc'[p] = "event" /\ pc[p] \notin Shared)
BY StageStep DEF Works

\* A step keeps what a place says of the mode, the experiment, the approval
\* and the decline.
LEMMA AuthorityPlacesKept ==
  ASSUME NEW p \in Procs, Works(p), Footing, Running(p)'
  PROVE  AuthorityPlaces(p)'
<1> DEFINE m == mem[p]
           n == mem'[p]
           c == Cyc(p)
<1>1. /\ Here(p) /\ Cyc(p)' = c /\ m \in CycleDoc /\ m.stage = doc[c].stage
      /\ Authority(m, backlog[c], files[c]) /\ Authority(doc[c], backlog[c], files[c])
      /\ AuthorityPlaces(p) /\ OpPlaces(p) /\ Chosen(job[p].op, doc[c]) /\ pc'[p] # "release"
      /\ ProposalActions(p) /\ DecisionActions(p) /\ ExecutionActions(p) /\ ObservationActions(p)
      /\ c \in Cycles /\ TypeOK
  BY FootingGround, WorkTypes DEF Works
<1>2. ASSUME Toward(p, {"proposal", "proposalList", "proposalCreate", "proposeAdvance",
                        "proposeEnter", "awaitEnter"})'
      PROVE  m.mode = "proposal"
  <2>1. CASE pc[p] \in Shared
    <3>1. Heading(p)' = Heading(p)
      BY <1>2, <2>1, Headed DEF Toward
    <3> QED BY <1>1, <1>2, <3>1 DEF AuthorityPlaces, Toward
  <2>2. CASE pc[p] \notin Shared
    <3>1. <<pc[p], Heading(p)'>> \in Edges
      BY <1>2, <2>2, Headed DEF Toward
    <3>2. pc[p] \in {"propose", "finishRanked", "proposal", "proposalList", "proposalCreate",
                     "proposeAdvance", "proposeEnter"}
      BY <1>2, <3>1 DEF Toward, Edges, ObservationEdges, ProposalEdges, DecisionEdges,
         ExecutionEdges, ReviewEdges, CompoundEdges
    <3>3. CASE pc[p] = "propose"
      <4>1. m.stage \in Committed \cup {"completed", "failed"}
        BY <1>1, <3>3 DEF OpPlaces, Toward, Heading, Shared, Chosen
      <4>2. m.stage \in {"ranked", "proposed"}
        BY <1>1, <3>3, Jumped DEF ProposalActions, ResumeProposal
      <4> QED BY <1>1, <4>1, <4>2 DEF Authority, Committed
    <3>4. CASE pc[p] = "finishRanked"
      <4>1. Heading(p)' \in {"proposal", "noop"}
        BY <3>1, <3>4 DEF Edges, ObservationEdges, ProposalEdges, DecisionEdges, ExecutionEdges,
           ReviewEdges, CompoundEdges
      <4>2. pc'[p] = "proposal"
        BY <1>2, <4>1, Standing DEF Toward, Conts
      <4>3. Proposes(m)
        BY <1>1, <3>4, <4>2, Jumped DEF ObservationActions, FinishRanked
      <4> QED BY <1>1, <4>3 DEF Proposes, CycleDoc
    <3>5. CASE pc[p] \notin {"propose", "finishRanked"}
      BY <1>1, <2>2, <3>2, <3>5 DEF AuthorityPlaces, Toward, Heading
    <3> QED BY <3>3, <3>4, <3>5
  <2> QED BY <2>1, <2>2
<1>3. ASSUME Toward(p, {"proposeAdvance", "proposeEnter", "awaitEnter"})'
      PROVE  ExperimentExists(c)'
  <2>1. CASE pc[p] = "proposalCreate"
    <3>1. pc'[p] = "proposeAdvance"
      BY <1>1, <2>1, Went DEF ProposalActions, CreateExperiment
    <3>2. backlog' = [backlog EXCEPT ![c].experiments = @ + 1]
      BY <1>1, <2>1, <3>1, Went DEF ProposalActions, CreateExperiment
    <3>3. backlog[c] \in BacklogType
      BY <1>1 DEF TypeOK
    <3>4. backlog[c].experiments \in Nat
      BY <3>3 DEF BacklogType
    <3>5. backlog'[c].experiments = backlog[c].experiments + 1
      BY <1>1, <3>2, <3>3 DEF TypeOK, BacklogType
    <3> QED BY <1>1, <3>4, <3>5 DEF ExperimentExists
  <2>2. CASE pc[p] = "proposalList"
    <3>1. pc'[p] \in {"proposeAdvance", "awaitEnter"}
      <4>1. Heading(p)' # "proposeEnter"
        BY <2>2, Returns DEF Bound, Shared
      <4>2. pc'[p] \in {"proposeAdvance", "awaitEnter", "snapshotWrite", "proposalCreate"}
        BY <1>1, <2>2, Went DEF ProposalActions, ListBacklog
      <4> QED BY <1>3, <4>1, <4>2 DEF Toward, Heading, Shared
    <3>2. ExperimentExists(c)
      BY <1>1, <2>2, <3>1, Went DEF ProposalActions, ListBacklog
    <3> QED BY <1>1, <3>2, DecisionsLast DEF ExperimentExists
  <2>3. CASE pc[p] \notin {"proposalCreate", "proposalList"}
    <3>1. Toward(p, {"proposeAdvance", "proposeEnter", "awaitEnter"})
      <4>1. CASE pc[p] \in Shared
        <5>1. Heading(p)' = Heading(p)
          BY <1>3, <4>1, Headed DEF Toward
        <5> QED BY <1>3, <5>1 DEF Toward
      <4>2. CASE pc[p] \notin Shared
        <5>1. <<pc[p], Heading(p)'>> \in Edges
          BY <1>3, <4>2, Headed DEF Toward
        <5>2. pc[p] \in {"proposeAdvance", "proposeEnter"}
          BY <1>3, <2>3, <5>1 DEF Toward, Edges, ObservationEdges, ProposalEdges, DecisionEdges,
             ExecutionEdges, ReviewEdges, CompoundEdges
        <5> QED BY <4>2, <5>2 DEF Toward, Heading
      <4> QED BY <4>1, <4>2
    <3>2. ExperimentExists(c)
      BY <1>1, <3>1 DEF AuthorityPlaces
    <3> QED BY <1>1, <3>2, DecisionsLast DEF ExperimentExists
  <2> QED BY <2>1, <2>2, <2>3
<1>4. ASSUME Toward(p, {"executeAdvance", "executeEnter", "executeAttempt", "executor"})'
      PROVE  n.approved
  <2>1. CASE pc[p] = "execute"
    <3>1. m.approved
      <4>1. Heading(p)' \notin {"fail", "release"}
        BY <1>4 DEF Toward
      <4>2. pc'[p] \notin {"fail", "release"}
        BY <4>1 DEF Heading, Shared
      <4> QED BY <1>1, <2>1, <4>2, Jumped, Went DEF ExecutionActions, PrepareExecution
    <3> QED BY <3>1, DecisionsLast
  <2>2. CASE pc[p] # "execute"
    <3>1. Toward(p, {"executeAdvance", "executeEnter", "executeAttempt", "executor"})
      <4>1. CASE pc[p] \in Shared
        <5>1. Heading(p)' = Heading(p)
          BY <1>4, <4>1, Headed DEF Toward
        <5> QED BY <1>4, <5>1 DEF Toward
      <4>2. CASE pc[p] \notin Shared
        <5>1. <<pc[p], Heading(p)'>> \in Edges
          BY <1>4, <4>2, Headed DEF Toward
        <5>2. pc[p] \in {"executeAdvance", "executeEnter", "executeAttempt"}
          BY <1>4, <2>2, <5>1 DEF Toward, Edges, ObservationEdges, ProposalEdges, DecisionEdges,
             ExecutionEdges, ReviewEdges, CompoundEdges
        <5> QED BY <4>2, <5>2 DEF Toward, Heading
      <4> QED BY <4>1, <4>2
    <3> QED BY <1>1, <3>1, DecisionsLast DEF AuthorityPlaces
  <2> QED BY <2>1, <2>2
<1>5. ASSUME pc'[p] = "declineStage"
      PROVE  n.stage \in {"awaiting_approval", "declined"} /\ n.declined
  <2>1. Decline(p)
    BY <1>1, <1>5, Sources DEF DecisionActions
  <2>2. /\ (n = m /\ m.declined) \/ n = [m EXCEPT !.declined = TRUE]
        /\ MayDecline(m)
    BY <1>1, <1>5, <2>1, Jumped, Persisted, Went DEF Decline
  <2> QED BY <1>1, <2>2 DEF MayDecline, CycleDoc
<1>6. ASSUME Toward(p, {"declineClose", "declineSave", "declineDone"})'
      PROVE  n.stage = "declined"
  <2>1. CASE pc[p] = "declineStage"
    <3>1. EnterDeclined(p) /\ m.stage \in {"awaiting_approval", "declined"}
      BY <1>1, <2>1 DEF DecisionActions, AuthorityPlaces, At
    <3>2. CASE m.stage = "declined"
      BY <1>1, <3>1, <3>2, Jumped DEF EnterDeclined
    <3>3. CASE m.stage = "awaiting_approval"
      <4>1. Transition(p, m, "declined", "declineClose")
        BY <3>1, <3>3 DEF EnterDeclined
      <4>2. n = [m EXCEPT !.stage = "declined"]
        BY <1>1, <4>1, Transited
      <4> QED BY <1>1, <4>2 DEF CycleDoc
    <3> QED BY <3>1, <3>2, <3>3
  <2>2. CASE pc[p] # "declineStage"
    <3>1. Toward(p, {"declineClose", "declineSave", "declineDone"})
      <4>1. CASE pc[p] \in Shared
        <5>1. Heading(p)' = Heading(p)
          BY <1>6, <4>1, Headed DEF Toward
        <5> QED BY <1>6, <5>1 DEF Toward
      <4>2. CASE pc[p] \notin Shared
        <5>1. <<pc[p], Heading(p)'>> \in Edges
          BY <1>6, <4>2, Headed DEF Toward
        <5>2. pc[p] \in {"declineClose", "declineSave"}
          BY <1>6, <2>2, <5>1 DEF Toward, Edges, ObservationEdges, ProposalEdges, DecisionEdges,
             ExecutionEdges, ReviewEdges, CompoundEdges
        <5> QED BY <4>2, <5>2 DEF Toward, Heading
      <4> QED BY <4>1, <4>2
    <3>2. m.stage = "declined"
      BY <1>1, <3>1 DEF AuthorityPlaces
    <3>3. n.stage = m.stage
      <4>1. CASE pc[p] \in Shared
        BY <4>1, StageKept
      <4>2. CASE pc[p] \notin Shared
        <5>1. <<pc[p], Heading(p)'>> \in Edges
          BY <1>6, <4>2, Headed DEF Toward
        <5>2. pc[p] \in {"declineClose", "declineSave"}
          BY <1>6, <2>2, <5>1 DEF Toward, Edges, ObservationEdges, ProposalEdges, DecisionEdges,
             ExecutionEdges, ReviewEdges, CompoundEdges
        <5> QED BY <5>2, StageStep DEF StageWriters
      <4> QED BY <4>1, <4>2
    <3> QED BY <3>2, <3>3
  <2> QED BY <2>1, <2>2
<1>7. n.mode = m.mode
  BY DecisionsLast
<1> QED BY <1>2, <1>3, <1>4, <1>5, <1>6, <1>7 DEF AuthorityPlaces, At

\* What a review leaves at its resolution.
LEMMA Resolved ==
  ASSUME NEW p \in Procs, Works(p), Footing, pc[p] = "resolve"
  PROVE  LET m == mem[p]
             n == mem'[p]
         IN \/ n = m
            \/ /\ EvidenceHolds(m, job[p].got) /\ n.review = job[p].got
               /\ n.final = IF m.final = "none" THEN FinalVerdict(job[p].got, m.measured)
                                                ELSE m.final
               /\ n.key["review:attempt"] = "completed"
               /\ n.measured = m.measured /\ n.transcript = m.transcript /\ n.stage = m.stage
<1> DEFINE m == mem[p]
           review == job[p].got
           resolved == [m EXCEPT !.review = review,
                          !.final = IF @ = "none" THEN FinalVerdict(review, m.measured) ELSE @]
<1>1. Here(p) /\ m \in CycleDoc /\ Resolve(p) /\ review \in Verdicts \cup {"uncited"}
  BY FootingGround DEF Works, ReviewActions, Here, Registers
<1>2. \/ mem'[p] = m
      \/ mem'[p] = SetKey(resolved, "review:attempt", "completed") /\ EvidenceHolds(m, review)
  BY <1>1, Jumped, Persisted DEF Resolve
<1>3. CASE mem'[p] = SetKey(resolved, "review:attempt", "completed") /\ EvidenceHolds(m, review)
  <2>1. review \in Verdicts
    BY <1>1, <1>3 DEF EvidenceHolds
  <2>2. resolved \in CycleDoc
    BY <1>1, <2>1 DEF CycleDoc, FinalVerdict, Verdicts, MaybeVerdict
  <2>3. /\ resolved.review = review /\ resolved.measured = m.measured
        /\ resolved.final = IF m.final = "none" THEN FinalVerdict(review, m.measured) ELSE m.final
        /\ resolved.transcript = m.transcript /\ resolved.stage = m.stage
    BY <1>1 DEF CycleDoc
  <2> HIDE DEF resolved
  <2> QED BY <1>3, <2>2, <2>3, KeySet, EvidenceKeys
<1> QED BY <1>2, <1>3

\* What was measured, reviewed and decided is not changed any more.
LEMMA ResultsKept ==
  ASSUME NEW p \in Procs, Works(p), Footing
  PROVE  LET m == mem[p]
             n == mem'[p]
         IN /\ m.key["benchmark:attempt"] = "completed" => n.measured = m.measured
            /\ m.key["execution:attempt"] = "completed" => n.transcript = m.transcript
            /\ m.final # "none" => n.final = m.final
            /\ m.key["review:attempt"] = "completed" => n.review = m.review
<1> DEFINE m == mem[p]
           n == mem'[p]
           f == files[Cyc(p)]
<1>1. /\ Edits(pc[p], m, n) /\ EvidencePlaces(p) /\ Here(p) /\ ExecutionActions(p)
      /\ Evidence(m, backlog[Cyc(p)], f, calls[Cyc(p)])
  BY FootingGround DEF Works
<1>2. ASSUME m.key["benchmark:attempt"] = "completed" PROVE n.measured = m.measured
  <2>1. pc[p] # "measure"
    BY <1>1, <1>2 DEF EvidencePlaces
  <2>2. pc[p] = "benchmark" => n = m
    BY <1>1, <1>2, Jumped DEF ExecutionActions, ClaimBenchmark, Unattempted
  <2> QED BY <1>1, <2>1, <2>2 DEF Edits
<1>3. ASSUME m.key["execution:attempt"] = "completed" PROVE n.transcript = m.transcript
  <2>1. pc[p] # "collect"
    BY <1>1, <1>3 DEF EvidencePlaces
  <2> QED BY <1>1, <2>1 DEF Edits
<1>4. m.final # "none" => n.final = m.final
  BY <1>1 DEF Edits
<1>5. ASSUME m.key["review:attempt"] = "completed" PROVE n.review = m.review
  <2>1. CASE pc[p] = "resolve"
    <3>1. f.review = m.review /\ f.review = job[p].got
      BY <1>1, <1>5, <2>1 DEF Evidence, EvidencePlaces, At
    <3> QED BY <2>1, <3>1, Resolved
  <2>2. CASE pc[p] # "resolve"
    BY <1>1, <2>2 DEF Edits
  <2> QED BY <2>1, <2>2
<1> QED BY <1>2, <1>3, <1>4, <1>5

\* A cycle reaches its review, its verdict and its compounding with evidence.
LEMMA StageEvidence ==
  ASSUME NEW p \in Procs, Works(p), Footing
  PROVE  LET n == mem'[p]
         IN /\ n.stage \in {"reviewing", "compounding"} => Executed(n)
            /\ n.stage = "compounding" => n.final # "none"
            /\ n.final # "none" =>
                 /\ n.stage \in {"reviewing", "compounding", "completed", "failed"}
                 /\ Executed(n) /\ n.key["review:attempt"] = "completed"
<1> DEFINE m == mem[p]
           n == mem'[p]
<1>1. /\ Edits(pc[p], m, n) /\ EvidencePlaces(p) /\ m.stage = doc[Cyc(p)].stage
      /\ Evidence(m, backlog[Cyc(p)], files[Cyc(p)], calls[Cyc(p)])
      /\ OpPlaces(p) /\ Chosen(job[p].op, doc[Cyc(p)])
  BY FootingGround
<1>2. Executed(m) => Executed(n)
  BY EvidenceMarks DEF Executed
<1>3. ASSUME n.stage \in {"reviewing", "compounding"} PROVE Executed(m)
  <2>1. CASE m.stage \in {"reviewing", "compounding"}
    BY <1>1, <2>1 DEF Evidence
  <2>2. CASE m.stage \notin {"reviewing", "compounding"}
    <3>1. <<pc[p], n.stage>> \in StageWriters /\ ValidateTransition(m.stage, n.stage)
      BY <1>3, <2>2, StageStep
    <3>2. pc[p] = "reviewEnter"
      BY <1>3, <2>2, <3>1 DEF ValidateTransition, ForwardEdges, StageWriters
    <3> QED BY <1>1, <3>2 DEF EvidencePlaces, Toward, Heading, Shared
  <2> QED BY <2>1, <2>2
<1>4. ASSUME n.stage = "compounding" PROVE n.final # "none"
  <2>1. CASE m.stage = "compounding"
    BY <1>1, <2>1, ResultsKept DEF Evidence
  <2>2. CASE m.stage # "compounding"
    <3>1. <<pc[p], "compounding">> \in StageWriters
      BY <1>4, <2>2, StageStep
    <3>2. pc[p] = "compoundEnter"
      BY <3>1 DEF StageWriters
    <3>3. m.final # "none"
      BY <1>1, <3>2 DEF EvidencePlaces, Toward, Heading, Shared
    <3> QED BY <3>3, ResultsKept
  <2> QED BY <2>1, <2>2
<1>5. ASSUME n.final # "none"
      PROVE  /\ m.stage \in {"reviewing", "compounding", "completed", "failed"} /\ Executed(m)
             /\ n.key["review:attempt"] = "completed"
  <2>1. CASE m.final # "none"
    BY <1>1, <2>1, EvidenceMarks DEF Evidence
  <2>2. CASE m.final = "none"
    <3>1. pc[p] = "resolve"
      BY <1>1, <1>5, <2>2 DEF Edits
    <3>2. job[p].op = "review"
      BY <1>1, <3>1 DEF OpPlaces, Toward, Heading, Shared
    <3>3. /\ m.stage \in {"reviewing", "compounding", "completed", "failed"}
          /\ Executed(doc[Cyc(p)])
      BY <1>1, <3>2 DEF Chosen, Executed
    <3> QED BY <1>5, <2>2, <3>1, <3>3, Resolved, EvidenceMarks DEF Executed
  <2> QED BY <2>1, <2>2
<1>6. m.stage \in {"reviewing", "compounding", "completed", "failed"} =>
        n.stage \in {"reviewing", "compounding", "completed", "failed"}
  BY StageStep DEF ValidateTransition, ForwardEdges
<1> QED BY <1>2, <1>3, <1>4, <1>5, <1>6

\* The transcript is that of an attempt within paths and budget.
LEMMA TranscriptDocs ==
  ASSUME NEW p \in Procs, Works(p), Footing, NEW d \in {doc[Cyc(p)], mem'[p]}, d.transcript
  PROVE  /\ d.key["execution:attempt"] = "completed"
         /\ files'[Cyc(p)].worktree = "allowed" /\ ~calls'[Cyc(p)].overBudget
<1> DEFINE m == mem[p]
           n == mem'[p]
           f == files[Cyc(p)]
           u == calls[Cyc(p)]
<1>1. /\ Edits(pc[p], m, n) /\ Agree(m, doc[Cyc(p)]) /\ EvidencePlaces(p) /\ Here(p)
      /\ FilesEdits(pc[p], f, files'[Cyc(p)]) /\ CallsEdits(pc[p], u, calls'[Cyc(p)])
      /\ Evidence(m, backlog[Cyc(p)], f, u) /\ ExecutionActions(p) /\ m \in CycleDoc
  BY FootingGround DEF Works
<1>2. CASE m.transcript
  <2>1. m.key["execution:attempt"] = "completed" /\ f.worktree = "allowed" /\ ~u.overBudget
    BY <1>1, <1>2 DEF Evidence
  <2>2. pc[p] # "executor"
    BY <1>1, <2>1 DEF EvidencePlaces
  <2>3. d.key["execution:attempt"] = "completed"
    BY <2>1, EvidenceMarks
  <2> QED BY <1>1, <2>1, <2>2, <2>3 DEF FilesEdits, CallsEdits
<1>3. CASE ~m.transcript
  <2>1. d = n /\ n.transcript
    BY <1>1, <1>3 DEF Agree
  <2>2. pc[p] = "collect"
    BY <1>1, <1>3, <2>1 DEF Edits
  <2> DEFINE kept == [m EXCEPT !.transcript = job[p].got # "unknown"]
             collected == SetKey(kept, "execution:attempt", "completed")
  <2>3. /\ ~OverBudget(job[p].got) /\ WithinPaths(f.worktree) /\ n = collected
    BY <1>1, <1>3, <2>1, <2>2, Jumped, Persisted DEF ExecutionActions, CollectExecution
  <2>4. kept \in CycleDoc /\ (kept.transcript => job[p].got # "unknown")
    BY <1>1 DEF CycleDoc
  <2> HIDE DEF kept
  <2>5. n.key["execution:attempt"] = "completed" /\ job[p].got # "unknown"
    BY <2>1, <2>3, <2>4, KeySet, EvidenceKeys
  <2>6. job[p].got = "within"
    BY <1>1, <2>2, <2>3, <2>5 DEF EvidencePlaces, At, OverBudget
  <2>7. ~u.overBudget /\ f.worktree = "allowed"
    BY <1>1, <2>2, <2>3, <2>6 DEF EvidencePlaces, WithinPaths
  <2> QED BY <1>1, <2>1, <2>2, <2>5, <2>7 DEF FilesEdits, CallsEdits
<1> QED BY <1>2, <1>3

\* The measurement and the review of the document are those on disk.
LEMMA RecordedDocs ==
  ASSUME NEW p \in Procs, Works(p), Footing, NEW d \in {doc[Cyc(p)], mem'[p]}
  PROVE  /\ d.key["benchmark:attempt"] = "completed" =>
              files'[Cyc(p)].measurement = d.measured
         /\ d.key["review:attempt"] = "completed" => files'[Cyc(p)].review = d.review
<1> DEFINE m == mem[p]
           n == mem'[p]
           f == files[Cyc(p)]
           x == files'[Cyc(p)]
<1>1. /\ EvidencePlaces(p) /\ Here(p) /\ m \in CycleDoc /\ ExecutionActions(p) /\ ReviewActions(p)
      /\ FilesEdits(pc[p], f, x) /\ Edits(pc[p], m, n)
      /\ Evidence(m, backlog[Cyc(p)], f, calls[Cyc(p)])
      /\ Evidence(doc[Cyc(p)], backlog[Cyc(p)], f, calls[Cyc(p)])
  BY FootingGround DEF Works
<1>2. ASSUME d.key["benchmark:attempt"] = "completed" PROVE x.measurement = d.measured
  <2>1. CASE m.key["benchmark:attempt"] = "completed"
    <3>1. pc[p] # "measureWrite"
      BY <1>1, <2>1 DEF EvidencePlaces
    <3>2. x.measurement = f.measurement
      BY <1>1, <3>1 DEF FilesEdits
    <3>3. d = doc[Cyc(p)] \/ d.measured = m.measured
      BY <2>1, ResultsKept
    <3> QED BY <1>1, <1>2, <2>1, <3>2, <3>3 DEF Evidence
  <2>2. CASE m.key["benchmark:attempt"] # "completed"
    <3>1. d = n
      BY <1>2, <2>2, EvidenceMarks
    <3>2. pc[p] \in {"benchmark", "measured"}
      BY <1>2, <2>2, <3>1, EvidenceMarks
    <3>3. CASE pc[p] = "benchmark"
      <4>1. \/ n \in {m, [m EXCEPT !.measured = f.measurement]}
            \/ n = SetKey(m, "benchmark:attempt", "started")
        BY <1>1, <3>3, Jumped, Persisted DEF ExecutionActions, ClaimBenchmark, Remember,
           Here, TypeOK
      <4>2. [m EXCEPT !.measured = f.measurement].key = m.key
        BY <1>1 DEF CycleDoc
      <4>3. SetKey(m, "benchmark:attempt", "started").key["benchmark:attempt"] = "started"
        BY <1>1, KeySet, EvidenceKeys
      <4> QED BY <1>2, <2>2, <3>1, <4>1, <4>2, <4>3
    <3>4. CASE pc[p] = "measured"
      <4>1. n = SetKey(m, "benchmark:attempt", "completed")
        BY <1>1, <3>4, Persisted DEF ExecutionActions, SaveMeasurement
      <4>2. n.measured = m.measured
        BY <1>1, <4>1, KeySet, EvidenceKeys
      <4>3. m.measured = f.measurement
        BY <1>1, <3>4 DEF EvidencePlaces, At
      <4> QED BY <1>1, <3>1, <3>4, <4>2, <4>3 DEF FilesEdits
    <3> QED BY <3>2, <3>3, <3>4
  <2> QED BY <2>1, <2>2
<1>3. ASSUME d.key["review:attempt"] = "completed" PROVE x.review = d.review
  <2>1. CASE m.key["review:attempt"] = "completed"
    <3>1. pc[p] \notin {"reviewer", "reviewWrite"}
      BY <1>1, <2>1 DEF EvidencePlaces
    <3>2. x.review = f.review
      BY <1>1, <3>1 DEF FilesEdits
    <3>3. d = doc[Cyc(p)] \/ d.review = m.review
      BY <2>1, ResultsKept
    <3> QED BY <1>1, <1>3, <2>1, <3>2, <3>3 DEF Evidence
  <2>2. CASE m.key["review:attempt"] # "completed"
    <3>1. d = n
      BY <1>3, <2>2, EvidenceMarks
    <3>2. pc[p] \in {"review", "resolve"}
      BY <1>3, <2>2, <3>1, EvidenceMarks
    <3>3. CASE pc[p] = "review"
      <4>1. n = m \/ n = SetKey(m, "review:attempt", "started")
        BY <1>1, <3>3, Jumped, Persisted DEF ReviewActions, ClaimReview
      <4>2. SetKey(m, "review:attempt", "started").key["review:attempt"] = "started"
        BY <1>1, KeySet, EvidenceKeys
      <4> QED BY <1>3, <2>2, <3>1, <4>1, <4>2
    <3>4. CASE pc[p] = "resolve"
      <4>1. n.review = job[p].got
        BY <1>3, <2>2, <3>1, <3>4, Resolved
      <4>2. f.review = job[p].got
        BY <1>1, <3>4 DEF EvidencePlaces, At
      <4> QED BY <1>1, <3>1, <3>4, <4>1, <4>2 DEF FilesEdits
    <3> QED BY <3>2, <3>3, <3>4
  <2> QED BY <2>1, <2>2
<1> QED BY <1>2, <1>3

\* A promotion is decided on a benchmark that met its target and a review
\* that cites the transcript, and created once it is decided.
LEMMA PromotionDocs ==
  ASSUME NEW p \in Procs, Works(p), Footing, NEW d \in {doc[Cyc(p)], mem'[p]}
  PROVE  /\ d.final = "promote" => d.review = "promote" /\ d.measured = "met" /\ d.transcript
         /\ backlog'[Cyc(p)].promotions > 0 => d.final = "promote"
<1> DEFINE m == mem[p]
           n == mem'[p]
           b == backlog[Cyc(p)]
<1>1. /\ EvidencePlaces(p) /\ Edits(pc[p], m, n) /\ Agree(m, doc[Cyc(p)])
      /\ BacklogEdits(pc[p], b, backlog'[Cyc(p)])
      /\ Evidence(m, b, files[Cyc(p)], calls[Cyc(p)])
      /\ Evidence(doc[Cyc(p)], b, files[Cyc(p)], calls[Cyc(p)])
  BY FootingGround
<1>2. ASSUME n.final = "promote"
      PROVE  n.review = "promote" /\ n.measured = "met" /\ n.transcript
  <2>1. CASE m.final # "none"
    <3>1. /\ Executed(m) /\ m.key["review:attempt"] = "completed"
          /\ m.review = "promote" /\ m.measured = "met" /\ m.transcript
      BY <1>1, <1>2, <2>1, ResultsKept DEF Evidence
    <3> QED BY <3>1, ResultsKept DEF Executed
  <2>2. CASE m.final = "none"
    <3>1. pc[p] = "resolve"
      BY <1>1, <1>2, <2>2 DEF Edits
    <3>2. /\ EvidenceHolds(m, n.review) /\ FinalVerdict(n.review, m.measured) = "promote"
          /\ n.measured = m.measured /\ n.transcript = m.transcript
      BY <1>2, <2>2, <3>1, Resolved
    <3> QED BY <3>2 DEF EvidenceHolds, FinalVerdict
  <2> QED BY <2>1, <2>2
<1>3. ASSUME backlog'[Cyc(p)].promotions > 0 PROVE m.final = "promote"
  <2>1. CASE pc[p] = "promoteCreate"
    BY <1>1, <2>1 DEF EvidencePlaces
  <2>2. CASE pc[p] # "promoteCreate"
    BY <1>1, <1>3, <2>2 DEF BacklogEdits, Evidence
  <2> QED BY <2>1, <2>2
<1>4. doc[Cyc(p)].final = m.final
  BY <1>1 DEF Agree
<1> QED BY <1>1, <1>2, <1>3, <1>4, ResultsKept DEF Evidence

\* The evidence of the copy and of the document after a step.
LEMMA EvidenceDocs ==
  ASSUME NEW p \in Procs, Works(p), Footing, NEW d \in {doc[Cyc(p)], mem'[p]}
  PROVE  Evidence(d, backlog'[Cyc(p)], files'[Cyc(p)], calls'[Cyc(p)])
<1>1. Evidence(doc[Cyc(p)], backlog[Cyc(p)], files[Cyc(p)], calls[Cyc(p)])
  BY FootingGround
<1>2. /\ d.stage \in {"reviewing", "compounding"} => Executed(d)
      /\ d.stage = "compounding" => d.final # "none"
      /\ d.final # "none" =>
           /\ d.stage \in {"reviewing", "compounding", "completed", "failed"}
           /\ Executed(d) /\ d.key["review:attempt"] = "completed"
  <2>1. CASE d = mem'[p]
    BY <2>1, StageEvidence
  <2>2. CASE d = doc[Cyc(p)]
    BY <1>1, <2>2 DEF Evidence
  <2> QED BY <2>1, <2>2
<1> QED BY <1>2, TranscriptDocs, RecordedDocs, PromotionDocs DEF Evidence

\* What holds where the executor runs and its report is collected.
LEMMA ExecutorPlaces ==
  ASSUME NEW p \in Procs, Works(p), Footing
  PROVE  LET n == mem'[p]
             v == calls'[Cyc(p)]
         IN /\ pc'[p] \in {"executor", "report", "collect"} =>
                 n.key["execution:attempt"] = "started"
            /\ pc'[p] = "report" => job'[p].got \in {"within", "over"}
            /\ pc'[p] = "collect" => job'[p].got \in {"within", "over", "unknown"}
            /\ pc'[p] \in {"report", "collect"} /\ job'[p].got = "within" => ~v.overBudget
<1> DEFINE m == mem[p]
           n == mem'[p]
           v == calls'[Cyc(p)]
<1>1. /\ Here(p) /\ m \in CycleDoc /\ EvidencePlaces(p) /\ ExecutionActions(p)
      /\ Cyc(p) \in Cycles /\ calls \in [Cycles -> CallsType] /\ job \in [Procs -> Jobs]
  BY FootingGround, WorkTypes DEF Works, TypeOK
<1>2. ASSUME pc'[p] = "executor" PROVE n.key["execution:attempt"] = "started"
  <2>1. ClaimExecution(p)
    BY <1>1, <1>2, Sources DEF ExecutionActions
  <2>2. n = SetKey(m, "execution:attempt", "started")
    BY <1>1, <1>2, <2>1, Jumped, Persisted, Went DEF ClaimExecution
  <2> QED BY <1>1, <2>2, KeySet, EvidenceKeys
<1>3. ASSUME pc'[p] = "report"
      PROVE  /\ n.key["execution:attempt"] = "started" /\ job'[p].got \in {"within", "over"}
             /\ job'[p].got = "within" => ~v.overBudget
  <2>1. pc[p] = "executor" /\ InvokeExecutor(p)
    BY <1>1, <1>3, Sources DEF ExecutionActions
  <2>2. PICK usage \in {"within", "over"} :
          /\ calls' = [calls EXCEPT ![Cyc(p)].executor = @ + 1,
                                    ![Cyc(p)].overBudget = usage = "over"]
          /\ Got(p, usage)
    BY <1>1, <1>3, <2>1, Went DEF InvokeExecutor
  <2>3. job'[p].got = usage
    BY <1>1, <2>2 DEF Got, Jobs
  <2>4. v.overBudget = (usage = "over")
    BY <1>1, <2>2 DEF CallsType
  <2>5. n = m
    BY <2>1 DEF InvokeExecutor
  <2> QED BY <1>1, <2>1, <2>2, <2>3, <2>4, <2>5 DEF EvidencePlaces
<1>4. ASSUME pc'[p] = "collect"
      PROVE  /\ n.key["execution:attempt"] = "started"
             /\ job'[p].got \in {"within", "over", "unknown"}
             /\ job'[p].got = "within" => ~v.overBudget
  <2>1. CASE pc[p] = "report"
    <3>1. WriteReport(p)
      BY <1>1, <2>1 DEF ExecutionActions
    <3>2. n = m /\ job' = job /\ calls' = calls
      BY <3>1 DEF WriteReport
    <3> QED BY <1>1, <2>1, <3>2 DEF EvidencePlaces, At
  <2>2. CASE pc[p] = "executeAttempt"
    <3>1. ClaimExecution(p)
      BY <1>1, <2>2 DEF ExecutionActions
    <3>2. m.key["execution:attempt"] = "started" /\ n = m /\ Got(p, "unknown")
      BY <1>1, <1>4, <3>1, Jumped, Persisted, Went DEF ClaimExecution
    <3>3. job'[p].got = "unknown"
      BY <1>1, <3>2 DEF Got, Jobs
    <3> QED BY <3>2, <3>3
  <2> QED BY <1>4, <2>1, <2>2, Sources
<1> QED BY <1>2, <1>3, <1>4

\* What holds where the benchmark is measured.
LEMMA BenchmarkPlaces ==
  ASSUME NEW p \in Procs, Works(p), Footing
  PROVE  LET n == mem'[p]
         IN /\ pc'[p] \in {"benchmark", "measure", "measureWrite", "measured"} =>
                 n.key["execution:attempt"] = "completed"
            /\ pc'[p] \in {"measure", "measureWrite"} => n.key["benchmark:attempt"] = "started"
            /\ pc'[p] = "measured" => n.measured = files'[Cyc(p)].measurement
            /\ pc'[p] = "reviewAdvance" => Executed(n)
<1> DEFINE m == mem[p]
           n == mem'[p]
           f == files[Cyc(p)]
<1>1. /\ Here(p) /\ m \in CycleDoc /\ EvidencePlaces(p) /\ ExecutionActions(p)
      /\ Cyc(p) \in Cycles /\ files \in [Cycles -> FilesType] /\ mem \in [Procs -> CycleDoc]
      /\ Evidence(m, backlog[Cyc(p)], f, calls[Cyc(p)])
  BY FootingGround, WorkTypes DEF Works, TypeOK
<1>2. ASSUME pc'[p] = "benchmark" PROVE n.key["execution:attempt"] = "completed"
  <2>1. CASE pc[p] = "executeAttempt"
    <3>1. m.key["execution:attempt"] = "completed"
      BY <1>1, <1>2, <2>1, Jumped, Persisted, Went DEF ExecutionActions, ClaimExecution
    <3> QED BY <3>1, EvidenceMarks
  <2>2. CASE pc[p] = "collect"
    <3> DEFINE kept == [m EXCEPT !.transcript = job[p].got # "unknown"]
    <3>1. n = SetKey(kept, "execution:attempt", "completed")
      BY <1>1, <1>2, <2>2, Jumped, Persisted, Went DEF ExecutionActions, CollectExecution
    <3>2. kept \in CycleDoc
      BY <1>1 DEF CycleDoc
    <3> HIDE DEF kept
    <3> QED BY <3>1, <3>2, KeySet, EvidenceKeys
  <2> QED BY <1>2, <2>1, <2>2, Sources
<1>3. ASSUME pc'[p] \in {"measure", "measureWrite", "measured"}
      PROVE  n.key["execution:attempt"] = "completed"
  BY <1>1, <1>3, Sources, EvidenceMarks DEF EvidencePlaces
<1>4. ASSUME pc'[p] = "measure" PROVE n.key["benchmark:attempt"] = "started"
  <2>1. ClaimBenchmark(p)
    BY <1>1, <1>4, Sources DEF ExecutionActions
  <2>2. n = SetKey(m, "benchmark:attempt", "started")
    BY <1>1, <1>4, <2>1, Jumped, Persisted, Went DEF ClaimBenchmark
  <2> QED BY <1>1, <2>2, KeySet, EvidenceKeys
<1>5. ASSUME pc'[p] = "measureWrite" PROVE n.key["benchmark:attempt"] = "started"
  <2>1. pc[p] = "measure"
    BY <1>5, Sources
  <2> QED BY <1>1, <2>1, EvidenceMarks DEF EvidencePlaces
<1>6. ASSUME pc'[p] = "measured" PROVE n.measured = files'[Cyc(p)].measurement
  <2>1. CASE pc[p] = "benchmark"
    <3>1. ClaimBenchmark(p)
      BY <1>1, <2>1 DEF ExecutionActions
    <3>2. \/ n = [m EXCEPT !.measured = f.measurement]
          \/ n = m /\ m.key["benchmark:attempt"] = "completed"
      BY <1>1, <1>6, <3>1, Jumped, Persisted, Went DEF ClaimBenchmark, Remember
    <3>3. n.measured = f.measurement
      BY <1>1, <3>2 DEF Evidence, CycleDoc
    <3>4. files' = files
      BY <3>1 DEF ClaimBenchmark, world
    <3> QED BY <3>3, <3>4
  <2>2. CASE pc[p] = "measureWrite"
    <3>1. WriteMeasurement(p)
      BY <1>1, <2>2 DEF ExecutionActions
    <3>2. n = m /\ files' = [files EXCEPT ![Cyc(p)].measurement = m.measured]
      BY <1>1, <1>6, <3>1, Went DEF WriteMeasurement
    <3> QED BY <1>1, <3>2 DEF FilesType
  <2> QED BY <1>6, <2>1, <2>2, Sources
<1>7. ASSUME pc'[p] = "reviewAdvance" PROVE Executed(n)
  <2>1. pc[p] = "measured" /\ SaveMeasurement(p)
    BY <1>1, <1>7, Sources DEF ExecutionActions
  <2>2. n = SetKey(m, "benchmark:attempt", "completed")
    BY <1>1, <2>1, Persisted DEF SaveMeasurement
  <2>3. m.key["execution:attempt"] = "completed"
    BY <1>1, <2>1 DEF EvidencePlaces
  <2> QED BY <1>1, <2>2, <2>3, KeySet, EvidenceKeys, EvidenceMarks DEF Executed
<1> QED BY <1>2, <1>3, <1>4, <1>5, <1>6, <1>7

\* What holds where the review is made and resolved.
LEMMA ReviewerPlaces ==
  ASSUME NEW p \in Procs, Works(p), Footing
  PROVE  LET n == mem'[p]
         IN /\ pc'[p] \in {"reviewer", "reviewWrite"} => n.key["review:attempt"] = "started"
            /\ pc'[p] = "resolve" =>
                 n.key["review:attempt"] # "none" /\ files'[Cyc(p)].review = job'[p].got
            /\ pc'[p] = "compoundAdvance" => n.final # "none"
<1> DEFINE m == mem[p]
           n == mem'[p]
           f == files[Cyc(p)]
<1>1. /\ Here(p) /\ m \in CycleDoc /\ EvidencePlaces(p) /\ ReviewActions(p)
      /\ Cyc(p) \in Cycles /\ files \in [Cycles -> FilesType] /\ job \in [Procs -> Jobs]
      /\ Evidence(m, backlog[Cyc(p)], f, calls[Cyc(p)]) /\ ClaimInv
  BY FootingGround, WorkTypes DEF Works, TypeOK, Footing
<1>2. ASSUME pc'[p] = "reviewer" PROVE n.key["review:attempt"] = "started"
  <2>1. ClaimReview(p)
    BY <1>1, <1>2, Sources DEF ReviewActions
  <2>2. n = SetKey(m, "review:attempt", "started")
    BY <1>1, <1>2, <2>1, Jumped, Persisted, Went DEF ClaimReview
  <2> QED BY <1>1, <2>2, KeySet, EvidenceKeys
<1>3. ASSUME pc'[p] = "reviewWrite" PROVE n.key["review:attempt"] = "started"
  <2>1. pc[p] = "reviewer"
    BY <1>3, Sources
  <2> QED BY <1>1, <2>1, EvidenceMarks DEF EvidencePlaces
<1>4. ASSUME pc'[p] = "resolve"
      PROVE  n.key["review:attempt"] # "none" /\ files'[Cyc(p)].review = job'[p].got
  <2>1. CASE pc[p] = "review"
    <3>1. ClaimReview(p)
      BY <1>1, <2>1 DEF ReviewActions
    <3>2. /\ n = m
          /\ \/ m.key["review:attempt"] = "completed" /\ Got(p, m.review)
             \/ m.key["review:attempt"] = "started" /\ Got(p, f.review)
      BY <1>1, <1>4, <3>1, Jumped, Persisted, Went DEF ClaimReview
    <3>3. files' = files
      BY <3>1 DEF ClaimReview, world
    <3>4. job'[p].got = f.review
      BY <1>1, <3>2 DEF Got, Jobs, Evidence
    <3> QED BY <3>2, <3>3, <3>4
  <2>2. CASE pc[p] = "reviewWrite"
    <3>1. WriteReview(p)
      BY <1>1, <2>2 DEF ReviewActions
    <3>2. n = m /\ job' = job /\ files' = [files EXCEPT ![Cyc(p)].review = job[p].got]
      BY <1>1, <1>4, <3>1, Went DEF WriteReview
    <3>3. m.key["review:attempt"] = "started"
      BY <1>1, <2>2 DEF EvidencePlaces
    <3> QED BY <1>1, <3>2, <3>3 DEF FilesType
  <2> QED BY <1>4, <2>1, <2>2, Sources
<1>5. ASSUME pc'[p] = "compoundAdvance" PROVE n.final # "none"
  <2> DEFINE review == job[p].got
             resolved == [m EXCEPT !.review = review,
                            !.final = IF @ = "none" THEN FinalVerdict(review, m.measured) ELSE @]
  <2>1. pc[p] = "resolve" /\ Resolve(p)
    BY <1>1, <1>5, Sources DEF ReviewActions
  <2>2. n = SetKey(resolved, "review:attempt", "completed")
    BY <1>1, <1>5, <2>1, Jumped, Persisted, Went DEF Resolve
  <2>3. n.key["review:attempt"] = "completed"
    <3>1. resolved.key = m.key
      OBVIOUS
    <3> HIDE DEF resolved
    <3>2. \/ n = m
          \/ n.key["review:attempt"] = "completed"
      BY <2>1, Resolved
    <3>3. "review:attempt" \in Keys /\ mem'[p] \in CycleDoc
      BY EvidenceKeys, WorkTypes
    <3> QED BY <1>1, <2>2, <3>1, <3>2, <3>3 DEF SetKey, CycleDoc
  <2> QED BY <1>1, <2>3, CompletedClaims
<1> QED BY <1>2, <1>3, <1>4, <1>5

\* A verdict is carried out in stage compounding; a promotion is decided.
LEMMA ConsequentPlaces ==
  ASSUME NEW p \in Procs, Works(p), Footing
  PROVE  /\ pc'[p] \in Consequent => mem'[p].stage = "compounding"
         /\ pc'[p] \in {"promoteCreate", "promoteSave"} => mem'[p].final = "promote"
<1> DEFINE m == mem[p]
           n == mem'[p]
<1>1. Here(p) /\ EvidencePlaces(p) /\ CompoundActions(p)
  BY FootingGround DEF Works
<1>2. ASSUME pc'[p] \in Consequent PROVE n.stage = "compounding"
  <2>1. <<pc[p], pc'[p]>> \in Edges
    BY <1>2, Came DEF Consequent, Shared, Conts
  <2>2. pc[p] \in Consequent \cup {"compoundStage"}
    BY <1>2, <2>1 DEF Consequent, Edges, ObservationEdges, ProposalEdges, DecisionEdges,
       ExecutionEdges, ReviewEdges, CompoundEdges
  <2>3. m.stage = "compounding"
    <3>1. CASE pc[p] = "compoundStage"
      BY <1>1, <1>2, <3>1, Jumped, Went DEF CompoundActions, DispatchCompound, Consequent
    <3> QED BY <1>1, <2>2, <3>1 DEF EvidencePlaces
  <2>4. n.stage = m.stage
    BY <2>2, StageStep DEF StageWriters, Consequent
  <2> QED BY <2>3, <2>4
<1>3. ASSUME pc'[p] \in {"promoteCreate", "promoteSave"} PROVE n.final = "promote"
  <2>1. m.final = "promote"
    <3>1. CASE pc[p] = "promote"
      BY <1>1, <1>3, <3>1, Jumped, Went DEF CompoundActions, FindPromotion, NeedsPromotion
    <3>2. CASE pc[p] = "promoteCreate"
      BY <1>1, <3>2 DEF EvidencePlaces
    <3> QED BY <1>3, <3>1, <3>2, Sources
  <2> QED BY <2>1, ResultsKept
<1> QED BY <1>2, <1>3

\* A step keeps what a place says of the evidence.
LEMMA EvidencePlacesKept ==
  ASSUME NEW p \in Procs, Works(p), Footing, Running(p)'
  PROVE  EvidencePlaces(p)'
<1>1. EvidencePlaces(p) /\ Cyc(p)' = Cyc(p)
  BY FootingGround
<1>2. ASSUME Toward(p, {"reviewAdvance", "reviewEnter"})' PROVE Executed(mem'[p])
  <2>1. CASE Heading(p)' = "reviewAdvance"
    <3>1. pc'[p] = "reviewAdvance"
      BY <2>1, Standing DEF Conts
    <3> QED BY <3>1, BenchmarkPlaces
  <2>2. CASE Heading(p)' = "reviewEnter"
    <3>1. Toward(p, {"reviewAdvance", "reviewEnter"})
      BY <2>2, Returns DEF Bound, Toward, Heading, Shared
    <3> QED BY <1>1, <3>1, EvidenceMarks DEF EvidencePlaces, Executed
  <2> QED BY <1>2, <2>1, <2>2 DEF Toward
<1>3. ASSUME Toward(p, {"compoundAdvance", "compoundEnter"})' PROVE mem'[p].final # "none"
  <2>1. CASE Heading(p)' = "compoundAdvance"
    <3>1. pc'[p] = "compoundAdvance"
      BY <2>1, Standing DEF Conts
    <3> QED BY <3>1, ReviewerPlaces
  <2>2. CASE Heading(p)' = "compoundEnter"
    <3>1. Toward(p, {"compoundAdvance", "compoundEnter"})
      BY <2>2, Returns DEF Bound, Toward, Heading, Shared
    <3> QED BY <1>1, <3>1, ResultsKept DEF EvidencePlaces
  <2> QED BY <1>3, <2>1, <2>2 DEF Toward
<1> QED BY <1>1, <1>2, <1>3, ExecutorPlaces, BenchmarkPlaces, ReviewerPlaces, ConsequentPlaces
     DEF EvidencePlaces, At

-----------------------------------------------------------------------------
(* The operation an invocation was chosen for. *)

\* q has just been invoked: as a first command on a cycle, as a decision of
\* the principal, or as the operation with which a resume continues.
Called(q) ==
  Cyc(q)' \in Cycles /\ job'[q].op \in {"start", "approve", "decline", Route(doc[Cyc(q)'])}

\* Outside the handlers an invocation keeps its operation, or gets one.
LEMMA JobsQuiet ==
  ASSUME CycleInv, [Next]_vars, ~\E p \in Procs : Handler(p), NEW q \in Procs, pc'[q] # "idle"
  PROVE  \/ pc[q] # "idle" /\ job'[q].op = job[q].op /\ Cyc(q)' = Cyc(q)
         \/ Called(q)
<1>1. TypeOK
  BY DEF CycleInv
<1> DEFINE Keeps == pc[q] # "idle" /\ job'[q].op = job[q].op /\ Cyc(q)' = Cyc(q)
<1>2. CASE UNCHANGED <<pc, job>>
  BY <1>2 DEF Cyc
<1>3. ASSUME NEW p \in Procs, p # q, NEW l, NEW j,
             pc' = [pc EXCEPT ![p] = l], job' = [job EXCEPT ![p] = j]
      PROVE  Keeps
  BY <1>1, <1>3 DEF TypeOK, Cyc
<1>4. ASSUME NEW p \in Procs, Command(p) PROVE Keeps \/ Called(q)
  <2>1. PICK c \in Cycles : RunCycle(p, c) \/ RunDecision(p, c) \/ RunResume(p, c)
    BY <1>4 DEF Command
  <2>2. \E op \in {"start", "approve", "decline", Route(doc[c])} :
          \E input, l : Invoke(p, op, c, input, l)
    BY <2>1, DecisionsAssumption DEF RunCycle, RunDecision, RunResume
  <2>3. PICK op \in {"start", "approve", "decline", Route(doc[c])} :
          \E input, l : Invoke(p, op, c, input, l)
    BY <2>2
  <2> PICK input, l : Invoke(p, op, c, input, l)
    BY <2>3
  <2>4. /\ pc' = [pc EXCEPT ![p] = l]
        /\ job' = [job EXCEPT ![p] = [NoJob EXCEPT !.op = op, !.cyc = c, !.got = input]]
    BY <2>3 DEF Invoke, Continue, Goto
  <2>5. CASE p = q
    <3>1. job'[q].op = op /\ Cyc(q)' = c
      BY <1>1, <2>4, <2>5 DEF TypeOK, Cyc, NoJob
    <3> QED BY <2>1, <3>1 DEF Called
  <2> QED BY <1>3, <2>4, <2>5
<1>5. ASSUME NEW p \in Procs, Crash(p) \/ Release(p) PROVE Keeps
  <2>1. pc' = [pc EXCEPT ![p] = "idle"] /\ job' = [job EXCEPT ![p] = NoJob]
    BY <1>5 DEF Crash, Release, Raise, Continue, Goto
  <2>2. p # q
    BY <1>1, <2>1 DEF TypeOK
  <2> QED BY <1>3, <2>1, <2>2
<1>6. ASSUME NEW p \in Procs, Precheck(p) PROVE Keeps
  <2>1. PICK l : pc' = [pc EXCEPT ![p] = l] /\ (job' = job \/ l = "idle")
    BY <1>6 DEF Precheck, Continue, Raise, Goto
  <2>2. job' = [job EXCEPT ![p] = job[p]] \/ job' = [job EXCEPT ![p] = NoJob]
    BY <1>1, <1>6 DEF Precheck, TypeOK
  <2>3. CASE p = q
    <3>1. job' = job /\ pc[q] = "check"
      BY <1>1, <1>6, <2>1, <2>3 DEF TypeOK, Precheck, At
    <3> QED BY <3>1 DEF Cyc
  <2> QED BY <1>3, <2>1, <2>2, <2>3
<1>7. ASSUME NEW p \in Procs, Acquire(p) PROVE Keeps
  <2>1. PICK l : pc' = [pc EXCEPT ![p] = l]
    BY <1>7 DEF Acquire, Call, Goto, Continue, Raise
  <2>2. \/ job' = [job EXCEPT ![p].ret = job[p].op]
        \/ job' = job
        \/ job' = [job EXCEPT ![p] = NoJob] /\ pc' = [pc EXCEPT ![p] = "idle"]
    BY <1>7 DEF Acquire, Call, Goto, Continue, Raise
  <2>3. \E j : job' = [job EXCEPT ![p] = j]
    <3>1. job' = job => job' = [job EXCEPT ![p] = job[p]]
      BY <1>1 DEF TypeOK
    <3> QED BY <2>2, <3>1
  <2>4. CASE p = q
    <3>1. pc[q] = "acquire"
      BY <1>7, <2>4 DEF Acquire, At
    <3>2. job'[q].op = job[q].op /\ job'[q].cyc = job[q].cyc
      BY <1>1, <2>2, <2>4 DEF TypeOK, Jobs
    <3> QED BY <3>1, <3>2 DEF Cyc
  <2> QED BY <1>3, <2>1, <2>3, <2>4
<1>8. CASE UNCHANGED vars \/ ReclaimLock
  BY <1>2, <1>8 DEF vars, ReclaimLock
<1> QED BY <1>4, <1>5, <1>6, <1>7, <1>8 DEF Next, Step, ServiceStep, Handler

\* The stages only grow in what an operation was chosen for.
LEMMA ChosenStable ==
  ASSUME NEW p \in Procs, Works(p), Footing, NEW op, Chosen(op, doc[Cyc(p)])
  PROVE  Chosen(op, doc'[Cyc(p)])
<1> DEFINE d == doc[Cyc(p)]
           n == mem'[p]
<1>1. CASE doc'[Cyc(p)] = d
  BY <1>1
<1>2. CASE doc'[Cyc(p)] = n
  <2>1. mem[p].stage = d.stage /\ Agree(mem[p], d)
    BY FootingGround
  <2>2. n.stage = d.stage \/ ValidateTransition(d.stage, n.stage)
    BY <2>1, StageStep
  <2>3. op = "propose" => n.stage \in Committed \cup {"completed", "failed"}
    BY <2>2 DEF Chosen, ValidateTransition, ForwardEdges, Committed
  <2>4. op = "execute" =>
          n.stage \in {"approved", "executing", "reviewing", "compounding", "completed", "failed"}
    BY <2>2 DEF Chosen, ValidateTransition, ForwardEdges
  <2>5. op = "compound" => n.stage \in {"no_op", "compounding", "completed", "failed"}
    BY <2>2 DEF Chosen, ValidateTransition, ForwardEdges, ActiveStages
  <2>6. ASSUME op = "review"
        PROVE  /\ n.stage \in {"reviewing", "compounding", "completed", "failed"}
               /\ n.key["execution:attempt"] = "completed"
               /\ n.key["benchmark:attempt"] = "completed"
               /\ n.stage \in {"compounding", "completed"} => n.final # "none"
    <3>1. n.stage \in {"reviewing", "compounding", "completed", "failed"}
      BY <2>2, <2>6 DEF Chosen, ValidateTransition, ForwardEdges
    <3>2. /\ n.key["execution:attempt"] = "completed"
          /\ n.key["benchmark:attempt"] = "completed"
      BY <2>6, EvidenceMarks DEF Chosen
    <3>3. ASSUME n.stage \in {"compounding", "completed"} PROVE n.final # "none"
      <4>1. CASE d.stage \in {"compounding", "completed"}
        BY <2>1, <2>6, <4>1, ResultsKept DEF Chosen, Agree
      <4>2. CASE d.stage \notin {"compounding", "completed"}
        <5>1. n.stage = "compounding"
          BY <2>2, <2>6, <3>3, <4>2 DEF Chosen, ValidateTransition, ForwardEdges
        <5> QED BY <5>1, StageEvidence
      <4> QED BY <4>1, <4>2
    <3> QED BY <3>1, <3>2, <3>3
  <2> QED BY <1>2, <2>3, <2>4, <2>5, <2>6 DEF Chosen
<1> QED BY <1>1, <1>2, WorkTypes

\* Whoever is under way was chosen for the stage of its cycle.
LEMMA ChosenKept ==
  ASSUME LockInv, CycleInv, Footing, [Next]_vars, NEW q \in Procs, pc'[q] # "idle"
  PROVE  Chosen(job'[q].op, doc'[Cyc(q)'])
<1>1. /\ TypeOK /\ \A p \in Procs : Registers(p) /\ Entered(p)
      /\ pc[q] # "idle" => Chosen(job[q].op, doc[Cyc(q)]) /\ Cyc(q) \in Cycles
      /\ \A c \in Cycles : Evidence(doc[c], backlog[c], files[c], calls[c])
  BY DEF CycleInv, ControlOK, Footing, AuthorityInv, EvidenceInv, Registers
<1>2. CASE ~\E p \in Procs : Handler(p)
  <2>1. doc' = doc
    BY <1>2, OthersQuiet DEF Quiet
  <2>2. CASE pc[q] # "idle" /\ job'[q].op = job[q].op /\ Cyc(q)' = Cyc(q)
    BY <1>1, <2>1, <2>2
  <2>3. CASE Called(q)
    <3> DEFINE d == doc[Cyc(q)']
    <3>1. Cyc(q)' \in Cycles
      BY <2>3 DEF Called
    <3>2. CASE job'[q].op \in {"start", "approve", "decline"}
      BY <3>2 DEF Chosen
    <3>3. CASE job'[q].op = Route(d)
      <4>1. d.stage = "reviewing" => Executed(d)
        BY <1>1, <3>1 DEF Evidence
      <4>2. /\ Route(d) = "propose" => d.stage = "proposed"
            /\ Route(d) = "execute" => d.stage \in {"approved", "executing"}
            /\ Route(d) = "review" => d.stage = "reviewing"
            /\ Route(d) = "compound" => d.stage \in {"compounding", "no_op", "failed", "completed"}
        BY DEF Route, AwaitsSigning
      <4> QED BY <2>1, <3>3, <4>1, <4>2 DEF Chosen, Committed, Executed
    <3> QED BY <2>3, <3>2, <3>3 DEF Called
  <2> QED BY <1>2, <2>2, <2>3, JobsQuiet
<1>3. ASSUME NEW p \in Procs, Handler(p) PROVE Chosen(job'[q].op, doc'[Cyc(q)'])
  <2>1. Control(p)
    BY <1>3, HandlerStep
  <2>2. \A r \in Procs \ {p} : pc'[r] = pc[r] /\ job'[r] = job[r]
    BY <1>1, <2>1 DEF Control, TypeOK
  <2>3. CASE pc[p] = "start"
    <3>1. Starts(p)
      BY <1>3, <2>3, HandlerStarts
    <3>2. job[p].op = "start" /\ \A r \in Procs \ {p} : Cyc(r) # Cyc(p)
      BY <1>1, <2>3 DEF Entered
    <3>3. job' = job /\ Cyc(q)' = Cyc(q)
      BY <3>1 DEF Starts, Cyc
    <3>4. CASE q = p
      BY <3>2, <3>3, <3>4 DEF Chosen
    <3>5. CASE q # p
      BY <1>1, <2>2, <3>1, <3>2, <3>3, <3>5 DEF Starts
    <3> QED BY <3>4, <3>5
  <2>4. CASE pc[p] # "start"
    <3>1. Works(p)
      BY <1>3, <2>4, HandlerWorks
    <3>2. Cyc(q)' = Cyc(q) /\ job'[q].op = job[q].op
      BY <3>1 DEF Works
    <3>3. pc[p] # "idle"
      BY <3>1, WorkTypes DEF Running, Critical, Outside
    <3>4. pc[q] # "idle"
      BY <2>2, <3>3
    <3>5. CASE Cyc(q) = Cyc(p)
      BY <1>1, <3>1, <3>2, <3>4, <3>5, ChosenStable
    <3>6. CASE Cyc(q) # Cyc(p)
      BY <1>1, <3>1, <3>2, <3>4, <3>6 DEF Works, Data
    <3> QED BY <3>5, <3>6
  <2> QED BY <2>3, <2>4
<1> QED BY <1>2, <1>3

\* A cycle without a trace has no authority and needs none.
LEMMA FootingStart ==
  ASSUME NEW d \in NewDocs \cup {NoDoc}
  PROVE  Authority(d, BacklogInit, FilesInit) /\ Evidence(d, BacklogInit, FilesInit, CallsInit)
<1>1. /\ d.key = [k \in Keys |-> "none"] /\ ~d.approved /\ ~d.transcript /\ d.final = "none"
      /\ d.stage \in {"new", Absent}
  <2>1. CASE d \in NewDocs
    <3>1. PICK mode \in Modes : d = [NoDoc EXCEPT !.stage = "new", !.mode = mode]
      BY <2>1 DEF NewDocs
    <3> QED BY <3>1 DEF NoDoc
  <2>2. CASE d = NoDoc
    BY <2>2 DEF NoDoc
  <2> QED BY <2>1, <2>2
<1>2. \A k \in {"execution:attempt", "benchmark:attempt", "review:attempt"} : d.key[k] = "none"
  BY <1>1, EvidenceKeys
<1>3. FilesInit.worktree = "clean" /\ BacklogInit.promotions = 0
  BY DEF FilesInit, BacklogInit
<1> QED BY <1>1, <1>2, <1>3 DEF Authority, Evidence, Committed, Absent

\* The places at the start of an operation are bound to nothing.
LEMMA EntryPlaces ==
  ASSUME NEW q \in Procs,
         \/ pc'[q] \in {"startLatest", "ensureRun"}
         \/ pc'[q] = "event" /\ job'[q].ret = job'[q].op /\ job'[q].op \in Ops
  PROVE  OpPlaces(q)' /\ AuthorityPlaces(q)' /\ EvidencePlaces(q)'
<1>1. \/ Heading(q)' \in {"startLatest", "ensureRun"}
      \/ Heading(q)' = job'[q].op /\ job'[q].op \in Ops
  BY DEF Heading, Shared
<1>2. OpPlaces(q)'
  BY <1>1 DEF OpPlaces, Toward, Ops
<1>3. AuthorityPlaces(q)'
  BY <1>1 DEF AuthorityPlaces, Toward, Ops, At
<1>4. EvidencePlaces(q)'
  BY <1>1 DEF EvidencePlaces, Toward, Ops, At, Consequent
<1> QED BY <1>2, <1>3, <1>4

\* AuthorityInv and EvidenceInv are inductive together.
LEMMA FootingKept ==
  ASSUME LockInv, CycleInv, Unborn, Footing, [Next]_vars
  PROVE  AuthorityInv' /\ EvidenceInv'
<1>1. \A q \in Procs : pc'[q] # "idle" => Chosen(job'[q].op, doc'[Cyc(q)'])
  BY ChosenKept
<1> DEFINE Docs == \A c \in Cycles :
             /\ Authority(doc'[c], backlog'[c], files'[c])
             /\ Evidence(doc'[c], backlog'[c], files'[c], calls'[c])
           Copies == \A q \in Procs : Running(q)' =>
             /\ Authority(mem'[q], backlog'[Cyc(q)'], files'[Cyc(q)'])
             /\ Evidence(mem'[q], backlog'[Cyc(q)'], files'[Cyc(q)'], calls'[Cyc(q)'])
             /\ OpPlaces(q)' /\ AuthorityPlaces(q)' /\ EvidencePlaces(q)'
<1>2. ASSUME NEW p \in Procs, Works(p) PROVE Docs /\ Copies
  <2>1. \A c \in Cycles \ {Cyc(p)} :
          /\ doc'[c] = doc[c] /\ backlog'[c] = backlog[c] /\ files'[c] = files[c]
          /\ calls'[c] = calls[c]
    BY <1>2 DEF Works, Data, World
  <2>2. \A d \in {doc[Cyc(p)], mem'[p]} :
          /\ Authority(d, backlog'[Cyc(p)], files'[Cyc(p)])
          /\ Evidence(d, backlog'[Cyc(p)], files'[Cyc(p)], calls'[Cyc(p)])
    BY <1>2, AuthorityDocs, EvidenceDocs
  <2>3. doc'[Cyc(p)] \in {doc[Cyc(p)], mem'[p]} /\ Cyc(p)' = Cyc(p)
    BY <1>2, FootingGround
  <2>4. Docs
    BY <2>1, <2>2, <2>3 DEF Footing, AuthorityInv, EvidenceInv
  <2>5. Running(p)' => OpPlaces(p)' /\ AuthorityPlaces(p)' /\ EvidencePlaces(p)'
    BY <1>2, FootingGround, OpPlacesKept, AuthorityPlacesKept, EvidencePlacesKept
  <2>6. Copies
    BY <1>2, <2>2, <2>3, <2>5 DEF Works
  <2> QED BY <2>4, <2>6
<1>3. ASSUME NEW p \in Procs, Starts(p) PROVE Docs /\ Copies
  <2>1. /\ Cyc(p) \in Cycles /\ Cyc(p)' = Cyc(p) /\ UNCHANGED <<backlog, files, calls>>
        /\ doc[Cyc(p)] = NoDoc /\ backlog[Cyc(p)] = BacklogInit /\ files[Cyc(p)] = FilesInit
        /\ calls[Cyc(p)] = CallsInit
    BY <1>3 DEF Starts, Unborn, world, Cyc
  <2>2. doc'[Cyc(p)] \in NewDocs \cup {NoDoc} /\ mem'[p] \in NewDocs
    BY <1>3, <2>1 DEF Starts
  <2>3. Docs
    BY <1>3, <2>1, <2>2, FootingStart DEF Starts, Footing, AuthorityInv, EvidenceInv
  <2>4. Running(p)' => pc'[p] \in {"startLatest", "ensureRun"}
    BY <1>3 DEF Starts, Running
  <2>5. pc'[p] \in {"startLatest", "ensureRun"} =>
          OpPlaces(p)' /\ AuthorityPlaces(p)' /\ EvidencePlaces(p)'
    BY EntryPlaces
  <2>6. Copies
    BY <1>3, <2>1, <2>2, <2>4, <2>5, FootingStart DEF Starts
  <2> QED BY <2>3, <2>6
<1>4. ASSUME Quiet PROVE Docs /\ Copies
  <2>1. UNCHANGED <<doc, backlog, files, calls>>
    BY <1>4 DEF Quiet, world
  <2>2. Docs
    BY <2>1 DEF Footing, AuthorityInv, EvidenceInv
  <2>3. ASSUME NEW q \in Procs, Running(q)'
        PROVE  /\ Authority(mem'[q], backlog'[Cyc(q)'], files'[Cyc(q)'])
               /\ Evidence(mem'[q], backlog'[Cyc(q)'], files'[Cyc(q)'], calls'[Cyc(q)'])
               /\ OpPlaces(q)' /\ AuthorityPlaces(q)' /\ EvidencePlaces(q)'
    <3>1. CASE Running(q) /\ Stays(q)
      <4>1. /\ Authority(mem[q], backlog[Cyc(q)], files[Cyc(q)])
            /\ Evidence(mem[q], backlog[Cyc(q)], files[Cyc(q)], calls[Cyc(q)])
            /\ OpPlaces(q) /\ AuthorityPlaces(q) /\ EvidencePlaces(q)
        BY <3>1 DEF Footing, AuthorityInv, EvidenceInv
      <4>2. /\ Cyc(q)' = Cyc(q) /\ mem'[q] = mem[q] /\ Heading(q)' = Heading(q)
            /\ pc'[q] = pc[q] /\ job'[q] = job[q]
        BY <3>1 DEF Stays, Cyc, Heading
      <4>3. OpPlaces(q)'
        BY <4>1, <4>2 DEF OpPlaces, Toward
      <4>4. AuthorityPlaces(q)'
        BY <2>1, <4>1, <4>2 DEF AuthorityPlaces, Toward, At, ExperimentExists
      <4>5. EvidencePlaces(q)'
        BY <2>1, <4>1, <4>2 DEF EvidencePlaces, Toward, At
      <4> QED BY <2>1, <4>1, <4>2, <4>3, <4>4, <4>5
    <3>2. CASE Enters(q)
      <4>1. /\ Cyc(q) \in Cycles /\ Cyc(q)' = Cyc(q) /\ mem'[q] = doc[Cyc(q)]
            /\ job'[q].ret = job'[q].op /\ job'[q].op \in Ops
            /\ pc'[q] \in {"ensureRun", "event"}
        BY <3>2 DEF Enters, Body, Ops
      <4>2. OpPlaces(q)' /\ AuthorityPlaces(q)' /\ EvidencePlaces(q)'
        BY <4>1, EntryPlaces
      <4> QED BY <2>1, <2>2, <4>1, <4>2
    <3> QED BY <1>4, <2>3, <3>1, <3>2 DEF Quiet
  <2>4. Copies
    BY <2>3
  <2> QED BY <2>2, <2>4
<1>5. Docs /\ Copies
  <2> HIDE DEF Docs, Copies
  <2> QED BY <1>2, <1>3, <1>4, StepKinds
<1> QED BY <1>1, <1>5 DEF AuthorityInv, EvidenceInv

\* Every reachable state has AuthorityInv and EvidenceInv.
LEMMA FootingInvariance == Spec => [](AuthorityInv /\ EvidenceInv)
<1>1. Init => AuthorityInv /\ EvidenceInv
  <2> SUFFICES ASSUME Init PROVE AuthorityInv /\ EvidenceInv
    OBVIOUS
  <2>1. \A c \in Cycles : /\ doc[c] = NoDoc /\ backlog[c] = BacklogInit /\ files[c] = FilesInit
                          /\ calls[c] = CallsInit
    BY DEF Init, ServiceInit
  <2>2. \A p \in Procs : pc[p] = "idle" /\ ~Running(p)
    BY DEF Init, ServiceInit, Running, Critical, Outside
  <2> QED BY <2>1, <2>2, FootingStart DEF AuthorityInv, EvidenceInv
<1>2. LockInv /\ CycleInv /\ Unborn /\ ClaimInv /\ Agreement /\ (AuthorityInv /\ EvidenceInv)
        /\ [Next]_vars => (AuthorityInv /\ EvidenceInv)'
  BY FootingKept DEF Footing
<1> QED BY <1>1, <1>2, LockInvariant, CycleInvariance, UnbornInvariance, ClaimInvariance,
     AgreementInvariance, PTL DEF Spec

\* The executor runs only under a recorded approval of a proposed experiment,
\* never in shadow mode or for a declined cycle (Execute's checks, under the
\* lock, of a copy that fail and resume wrote many times).
THEOREM ExecutionUnderApproval == Spec => []ExecutionAuthorised
<1>1. ClaimInv /\ AuthorityInv => ExecutionAuthorised
  <2> SUFFICES ASSUME ClaimInv, AuthorityInv, NEW c \in Cycles,
                      calls[c].executor > 0
               PROVE  /\ doc[c].approved /\ doc[c].mode = "proposal"
                      /\ doc[c].stage # "declined" /\ ExperimentExists(c)
    BY DEF ExecutionAuthorised
  <2>1. doc[c].key["execution:attempt"] # "none"
    BY DEF ClaimInv, Claims
  <2> QED BY <2>1 DEF AuthorityInv, Authority, ExperimentExists
<1> QED BY <1>1, ClaimInvariance, FootingInvariance, PTL

\* Shadow mode touches neither the backlog nor a worktree.
THEOREM ShadowWatches == Spec => []ShadowOnlyWatches
<1>1. AuthorityInv => ShadowOnlyWatches
  BY DEF AuthorityInv, Authority, ShadowOnlyWatches
<1> QED BY <1>1, FootingInvariance, PTL

\* A promotion, decided or in the backlog already, rests on an approved run
\* within paths and budget, a benchmark that met its target and a review that
\* cites the transcript, also when any of it was recovered from disk.
THEOREM PromotionsJustified == Spec => []PromotionJustified
<1>1. AuthorityInv /\ EvidenceInv => PromotionJustified
  <2> SUFFICES ASSUME AuthorityInv, EvidenceInv, NEW c \in Cycles,
                      doc[c].final = "promote" \/ PromotionExists(c)
               PROVE  /\ doc[c].approved /\ doc[c].transcript
                      /\ doc[c].measured = "met" /\ files[c].measurement = "met"
                      /\ files[c].worktree = "allowed" /\ ~calls[c].overBudget
                      /\ files[c].review = "promote"
    BY DEF PromotionJustified
  <2>1. /\ Authority(doc[c], backlog[c], files[c])
        /\ Evidence(doc[c], backlog[c], files[c], calls[c])
    BY DEF AuthorityInv, EvidenceInv
  <2>2. doc[c].final = "promote"
    BY <2>1 DEF Evidence, PromotionExists
  <2> QED BY <2>1, <2>2 DEF Authority, Evidence, Executed
<1> QED BY <1>1, FootingInvariance, PTL

-----------------------------------------------------------------------------
(* One receipt, bound to its content. *)

\* What holds of the receipt of the cycle p works on.
LEMMA ReceiptGround ==
  ASSUME NEW p \in Procs, Works(p), Agreement, ReceiptInv
  PROVE  LET c == Cyc(p)
             m == mem[p]
         IN /\ Here(p) /\ m \in CycleDoc /\ doc[c] \in CycleDoc /\ Cyc(p)' = c /\ c \in Cycles
            /\ kernel \in [Cycles -> KernelType] /\ files \in [Cycles -> FilesType]
            /\ Edits(pc[p], m, mem'[p]) /\ Agree(m, doc[c])
            /\ KernelEdits(pc[p], kernel[c], kernel'[c])
            /\ FilesEdits(pc[p], files[c], files'[c])
            /\ Receipt(m, kernel[c], files[c]) /\ Receipt(doc[c], kernel[c], files[c])
            /\ ReceiptPlaces(p) /\ CompoundActions(p)
<1>1. Agree(mem[p], doc[Cyc(p)])
  BY WorkTypes DEF Agreement
<1>2. /\ Receipt(mem[p], kernel[Cyc(p)], files[Cyc(p)]) /\ ReceiptPlaces(p)
      /\ Receipt(doc[Cyc(p)], kernel[Cyc(p)], files[Cyc(p)])
  BY WorkTypes DEF ReceiptInv
<1> QED BY <1>1, <1>2, WorkTypes DEF Works, Saves, World, TypeOK

\* The key of the receipt.
LEMMA ReceiptKey ==
  /\ "receipt:attempt" \in Keys \ LooseKeys
  /\ \A l : <<l, "receipt:attempt">> \in KeyWriters => l \in {"receiptSave", "acceptSave"}
BY DEF Keys, LooseKeys, KeyWriters, RunKeys, TerminalKeys

\* Where a receipt is neither built, claimed, emitted nor accepted, it stays.
LEMMA ReceiptIdle ==
  ASSUME NEW p \in Procs, Works(p), Agreement, ReceiptInv,
         pc[p] \notin {"receipt", "receiptSave", "emitSend", "accept", "acceptSave"}
  PROVE  LET m == mem[p]
             n == mem'[p]
             k == kernel[Cyc(p)]
             f == files[Cyc(p)]
         IN /\ n.key["receipt:attempt"] = m.key["receipt:attempt"]
            /\ n.digest = m.digest /\ n.signed = m.signed
            /\ kernel'[Cyc(p)].ledger = k.ledger
            /\ files'[Cyc(p)].digest = f.digest /\ files'[Cyc(p)].signature = f.signature
<1>1. /\ Edits(pc[p], mem[p], mem'[p]) /\ KernelEdits(pc[p], kernel[Cyc(p)], kernel'[Cyc(p)])
      /\ FilesEdits(pc[p], files[Cyc(p)], files'[Cyc(p)])
  BY ReceiptGround
<1>2. mem'[p].key["receipt:attempt"] = mem[p].key["receipt:attempt"]
  BY <1>1, ReceiptKey DEF Edits
<1> QED BY <1>1, <1>2 DEF Edits, KernelEdits, FilesEdits

\* Building a receipt changes what is on disk only while none is claimed.
LEMMA ReceiptBuilt ==
  ASSUME NEW p \in Procs, Works(p), Agreement, ReceiptInv, pc[p] = "receipt"
  PROVE  LET m == mem[p]
             f == files[Cyc(p)]
         IN /\ mem'[p] = m /\ doc' = doc /\ kernel' = kernel
            /\ files'[Cyc(p)].signature = f.signature
            /\ m.key["receipt:attempt"] # "none" => files' = files
            /\ pc'[p] = "receiptSave" => m.key["receipt:attempt"] = "none"
            /\ pc'[p] \in {"emit", "accept", "complete"} => m.key["receipt:attempt"] # "none"
<1> DEFINE m == mem[p]
           f == files[Cyc(p)]
           built == [files EXCEPT ![Cyc(p)].receipt = Content(m), ![Cyc(p)].digest = @ + 1]
<1>1. /\ BuildReceipt(p) /\ Here(p) /\ m \in CycleDoc /\ Cyc(p) \in Cycles
      /\ files \in [Cycles -> FilesType]
  BY ReceiptGround DEF CompoundActions
<1>2. m.key["receipt:attempt"] \in Marks
  BY <1>1, ReceiptKey DEF CycleDoc
<1>3. ReceiptOpen(m) <=> m.key["receipt:attempt"] = "none"
  BY <1>2 DEF ReceiptOpen, Marks
<1>4. files' = files \/ (ReceiptOpen(m) /\ files' = built)
  BY <1>1 DEF BuildReceipt
<1>5. files'[Cyc(p)].signature = f.signature
  <2>1. built[Cyc(p)].signature = f.signature
    BY <1>1 DEF FilesType
  <2> QED BY <1>4, <2>1
<1>6. /\ pc'[p] = "receiptSave" => ReceiptOpen(m)
      /\ pc'[p] \in {"emit", "accept", "complete"} => ~ReceiptOpen(m)
  BY <1>1, Went DEF BuildReceipt, ReceiptSettled, ReceiptOpen
<1>7. mem'[p] = m /\ doc' = doc /\ kernel' = kernel
  BY <1>1 DEF BuildReceipt
<1> QED BY <1>3, <1>4, <1>5, <1>6, <1>7

\* Claiming the receipt binds the document to what is on disk.
LEMMA ReceiptClaimed ==
  ASSUME NEW p \in Procs, Works(p), Agreement, ReceiptInv, pc[p] = "receiptSave"
  PROVE  LET n == mem'[p]
         IN /\ n.digest = files[Cyc(p)].digest /\ n.signed = mem[p].signed
            /\ n.key["receipt:attempt"] = "started"
            /\ kernel' = kernel /\ files' = files
<1> DEFINE m == mem[p]
           claimed == [m EXCEPT !.digest = files[Cyc(p)].digest]
<1>1. /\ SaveReceipt(p) /\ Here(p) /\ m \in CycleDoc /\ files[Cyc(p)] \in FilesType
  BY ReceiptGround DEF CompoundActions
<1>2. mem'[p] = SetKey(claimed, "receipt:attempt", "started") /\ kernel' = kernel /\ files' = files
  BY <1>1, Persisted DEF SaveReceipt, world
<1>3. /\ claimed \in CycleDoc /\ claimed.digest = files[Cyc(p)].digest
      /\ claimed.signed = m.signed
  BY <1>1 DEF CycleDoc, FilesType
<1> HIDE DEF claimed
<1> QED BY <1>2, <1>3, KeySet, ReceiptKey

\* A receipt is emitted into an empty ledger.
LEMMA ReceiptEmitted ==
  ASSUME NEW p \in Procs, Works(p), Agreement, ReceiptInv, pc[p] = "emitSend"
  PROVE  /\ kernel[Cyc(p)].ledger = <<>> /\ mem'[p] = mem[p] /\ doc' = doc /\ files' = files
         /\ kernel'[Cyc(p)].ledger \in {<<>>, <<mem[p].digest>>}
         /\ mem[p].key["receipt:attempt"] # "none"
<1>1. /\ EmitReceipt(p) /\ Cyc(p) \in Cycles /\ kernel \in [Cycles -> KernelType]
      /\ ReceiptPlaces(p)
  BY ReceiptGround DEF CompoundActions
<1>2. kernel[Cyc(p)].ledger = <<>> /\ mem[p].key["receipt:attempt"] # "none"
  BY <1>1 DEF ReceiptPlaces, At
<1>3. \/ kernel' = kernel
      \/ kernel' = [kernel EXCEPT ![Cyc(p)].ledger = Append(@, mem[p].digest)]
  BY <1>1 DEF EmitReceipt
<1>4. kernel'[Cyc(p)].ledger \in {kernel[Cyc(p)].ledger,
                                  Append(kernel[Cyc(p)].ledger, mem[p].digest)}
  BY <1>1, <1>3 DEF KernelType
<1>5. Append(<<>>, mem[p].digest) = <<mem[p].digest>>
  OBVIOUS
<1> QED BY <1>1, <1>2, <1>4, <1>5 DEF EmitReceipt

\* An identity is accepted when it is the only receipt of this content.
LEMMA ReceiptAccepted ==
  ASSUME NEW p \in Procs, Works(p), Agreement, ReceiptInv, pc[p] = "accept"
  PROVE  LET c == Cyc(p)
             m == mem[p]
             f == files[c]
             x == files'[c]
         IN /\ mem'[p] = m /\ doc' = doc /\ kernel' = kernel /\ x.digest = f.digest
            /\ x.signature = f.signature \/
                 /\ x.signature = 1 /\ kernel[c].ledger = <<m.digest>> /\ m.signed \in {0, 1}
            /\ pc'[p] = "acceptSave" => x.signature # 0
            /\ m.key["receipt:attempt"] # "none"
<1> DEFINE c == Cyc(p)
           m == mem[p]
           f == files[c]
           exact == Receipts(c, m.digest)
           id == IF f.signature # 0 THEN f.signature
                 ELSE CHOOSE i \in exact : \A j \in exact : i <= j
<1>1. /\ AcceptReceipt(p) /\ Here(p) /\ c \in Cycles /\ files \in [Cycles -> FilesType]
      /\ ReceiptPlaces(p) /\ Receipt(m, kernel[c], f)
  BY ReceiptGround DEF CompoundActions
<1>2. m.key["receipt:attempt"] # "none"
  BY <1>1 DEF ReceiptPlaces
<1>3. kernel[c].ledger \in {<<>>, <<m.digest>>}
  BY <1>1, <1>2 DEF Receipt
<1>4. \/ files' = files /\ pc'[p] # "acceptSave"
      \/ files' = [files EXCEPT ![c].signature = id] /\ MayAccept(m, id, exact)
  BY <1>1, Went DEF AcceptReceipt
<1>5. ASSUME MayAccept(m, id, exact)
      PROVE  id = 1 /\ kernel[c].ledger = <<m.digest>> /\ m.signed \in {0, 1}
  <2> HIDE DEF id
  <2>1. id \in exact /\ m.signed \in {0, id}
    BY <1>5 DEF MayAccept
  <2>2. id \in 1..Len(kernel[c].ledger)
    BY <2>1 DEF Receipts
  <2>3. kernel[c].ledger # <<>>
    BY <2>2
  <2>4. kernel[c].ledger = <<m.digest>>
    BY <1>3, <2>3
  <2>5. Len(kernel[c].ledger) = 1
    BY <2>4
  <2> QED BY <2>1, <2>2, <2>4, <2>5
<1>6. CASE files' = files /\ pc'[p] # "acceptSave"
  BY <1>1, <1>2, <1>6 DEF AcceptReceipt
<1>7. CASE files' = [files EXCEPT ![c].signature = id] /\ MayAccept(m, id, exact)
  <2> HIDE DEF id
  <2>1. files'[c].signature = 1 /\ files'[c].digest = f.digest
    BY <1>1, <1>5, <1>7 DEF FilesType
  <2> QED BY <1>1, <1>2, <1>5, <1>7, <2>1 DEF AcceptReceipt
<1> QED BY <1>4, <1>6, <1>7

\* The accepted identity enters the document.
LEMMA ReceiptSigned ==
  ASSUME NEW p \in Procs, Works(p), Agreement, ReceiptInv, pc[p] = "acceptSave"
  PROVE  LET n == mem'[p]
         IN /\ n.digest = mem[p].digest /\ n.signed = files[Cyc(p)].signature
            /\ n.key["receipt:attempt"] = "completed"
            /\ files[Cyc(p)].signature # 0 /\ mem[p].key["receipt:attempt"] # "none"
            /\ kernel' = kernel /\ files' = files
<1> DEFINE m == mem[p]
           signed == [m EXCEPT !.signed = files[Cyc(p)].signature]
<1>1. /\ SaveSignature(p) /\ Here(p) /\ m \in CycleDoc /\ files[Cyc(p)] \in FilesType
      /\ ReceiptPlaces(p)
  BY ReceiptGround DEF CompoundActions
<1>2. mem'[p] = SetKey(signed, "receipt:attempt", "completed") /\ kernel' = kernel /\ files' = files
  BY <1>1, Persisted DEF SaveSignature, world
<1>3. /\ signed \in CycleDoc /\ signed.signed = files[Cyc(p)].signature
      /\ signed.digest = m.digest
  BY <1>1 DEF CycleDoc, FilesType
<1> HIDE DEF signed
<1>4. files[Cyc(p)].signature # 0 /\ m.key["receipt:attempt"] # "none"
  BY <1>1 DEF ReceiptPlaces, At
<1> QED BY <1>2, <1>3, <1>4, KeySet, ReceiptKey

\* The receipt after a step, for the document and for the copy.
LEMMA ReceiptDocs ==
  ASSUME NEW p \in Procs, Works(p), Agreement, ReceiptInv, NEW d \in {doc[Cyc(p)], mem'[p]}
  PROVE  Receipt(d, kernel'[Cyc(p)], files'[Cyc(p)])
<1> DEFINE c == Cyc(p)
           m == mem[p]
           n == mem'[p]
           old == doc[c]
<1>1. /\ Receipt(m, kernel[c], files[c]) /\ Receipt(old, kernel[c], files[c])
      /\ Agree(m, old) /\ ReceiptPlaces(p)
  BY ReceiptGround
<1>2. /\ m.key["receipt:attempt"] = old.key["receipt:attempt"]
      /\ m.digest = old.digest /\ m.signed = old.signed
  BY <1>1, ReceiptKey DEF Agree
<1>3. CASE pc[p] \notin {"receipt", "receiptSave", "emitSend", "accept", "acceptSave"}
  BY <1>1, <1>3, ReceiptIdle DEF Receipt
<1>4. CASE pc[p] = "receipt"
  <2>1. \A x \in {m, old} : Receipt(x, kernel'[c], files'[c])
    <3>1. CASE m.key["receipt:attempt"] # "none"
      BY <1>1, <1>4, <3>1, ReceiptBuilt
    <3>2. CASE m.key["receipt:attempt"] = "none"
      BY <1>1, <1>2, <1>4, <3>2, ReceiptBuilt DEF Receipt
    <3> QED BY <3>1, <3>2
  <2> QED BY <1>4, <2>1, ReceiptBuilt
<1>5. CASE pc[p] = "receiptSave"
  <2>1. m.key["receipt:attempt"] = "none"
    BY <1>1, <1>5 DEF ReceiptPlaces, At
  <2> QED BY <1>1, <1>5, <2>1, ReceiptClaimed DEF Receipt
<1>6. CASE pc[p] = "emitSend"
  <2>1. files[c].signature = 0
    <3>1. <<m.digest>> # <<>>
      OBVIOUS
    <3> QED BY <1>1, <1>6, <3>1, ReceiptEmitted DEF Receipt
  <2> QED BY <1>1, <1>2, <1>6, <2>1, ReceiptEmitted DEF Receipt
<1>7. CASE pc[p] = "accept"
  <2>1. /\ n = m /\ kernel' = kernel /\ files'[c].digest = files[c].digest
        /\ m.key["receipt:attempt"] # "none"
    BY <1>7, ReceiptAccepted
  <2>2. CASE files'[c].signature = files[c].signature
    BY <1>1, <2>1, <2>2 DEF Receipt
  <2>3. CASE /\ files'[c].signature = 1 /\ kernel[c].ledger = <<m.digest>>
             /\ m.signed \in {0, 1}
    BY <1>1, <1>2, <2>1, <2>3 DEF Receipt
  <2> QED BY <1>7, <2>2, <2>3, ReceiptAccepted
<1>8. CASE pc[p] = "acceptSave"
  BY <1>1, <1>8, ReceiptSigned DEF Receipt
<1> QED BY <1>3, <1>4, <1>5, <1>6, <1>7, <1>8

\* What the places of the signing rely on.
LEMMA ReceiptPlacesKept ==
  ASSUME NEW p \in Procs, Works(p), Agreement, ReceiptInv
  PROVE  ReceiptPlaces(p)'
<1> DEFINE c == Cyc(p)
           m == mem[p]
           n == mem'[p]
<1>1. /\ Here(p) /\ Cyc(p)' = c /\ ReceiptPlaces(p) /\ CompoundActions(p)
      /\ Receipt(m, kernel[c], files[c])
  BY ReceiptGround
<1>2. pc'[p] = "receiptSave" => n.key["receipt:attempt"] = "none"
  <2> HAVE pc'[p] = "receiptSave"
  <2>1. pc[p] = "receipt"
    BY Sources
  <2> QED BY <2>1, ReceiptBuilt
<1>3. ASSUME pc'[p] = "emitSend"
      PROVE  kernel'[c].ledger = <<>> /\ n.key["receipt:attempt"] # "none"
  <2>1. pc[p] = "emit" /\ FindReceipt(p)
    BY <1>1, <1>3, Sources DEF CompoundActions
  <2>2. mem' = mem /\ kernel' = kernel
    BY <2>1 DEF FindReceipt, Jump, world
  <2>3. m.key["receipt:attempt"] # "none"
    BY <1>1, <2>1 DEF ReceiptPlaces
  <2>4. MustEmit(c, m)
    BY <1>1, <1>3, <2>1, Jumped, Went DEF FindReceipt
  <2>5. kernel[c].ledger # <<m.digest>>
    <3> SUFFICES ASSUME kernel[c].ledger = <<m.digest>> PROVE FALSE
      OBVIOUS
    <3>1. 1 \in Receipts(c, m.digest)
      BY DEF Receipts
    <3> QED BY <2>4, <3>1 DEF MustEmit
  <2> QED BY <1>1, <2>2, <2>3, <2>5 DEF Receipt
<1>4. pc'[p] = "emit" => n.key["receipt:attempt"] # "none"
  <2> HAVE pc'[p] = "emit"
  <2>1. pc[p] \in {"receipt", "receiptSave"}
    BY Sources
  <2> QED BY <2>1, ReceiptBuilt, ReceiptClaimed
<1>5. pc'[p] = "accept" => n.key["receipt:attempt"] # "none"
  <2> HAVE pc'[p] = "accept"
  <2>1. pc[p] \in {"receipt", "emit", "emitSend"}
    BY Sources
  <2>2. CASE pc[p] = "emit"
    BY <1>1, <2>2, ReceiptIdle DEF ReceiptPlaces
  <2> QED BY <2>1, <2>2, ReceiptBuilt, ReceiptEmitted
<1>6. pc'[p] = "acceptSave" =>
        files'[c].signature # 0 /\ n.key["receipt:attempt"] # "none"
  <2> HAVE pc'[p] = "acceptSave"
  <2>1. pc[p] = "accept"
    BY Sources
  <2> QED BY <2>1, ReceiptAccepted
<1>7. pc'[p] = "complete" => n.key["receipt:attempt"] # "none"
  <2> HAVE pc'[p] = "complete"
  <2>1. pc[p] \in {"receipt", "acceptSave"}
    BY Sources
  <2> QED BY <2>1, ReceiptBuilt, ReceiptSigned
<1> QED BY <1>1, <1>2, <1>3, <1>4, <1>5, <1>6, <1>7 DEF ReceiptPlaces, At

\* A cycle without a trace has no receipt.
LEMMA ReceiptStart ==
  ASSUME NEW d \in NewDocs \cup {NoDoc}
  PROVE  Receipt(d, KernelInit, FilesInit)
<1>1. d.key = [k \in Keys |-> "none"] /\ d.signed = 0
  <2>1. CASE d \in NewDocs
    <3>1. PICK mode \in Modes : d = [NoDoc EXCEPT !.stage = "new", !.mode = mode]
      BY <2>1 DEF NewDocs
    <3> QED BY <3>1 DEF NoDoc
  <2>2. CASE d = NoDoc
    BY <2>2 DEF NoDoc
  <2> QED BY <2>1, <2>2
<1> QED BY <1>1, ReceiptKey DEF Receipt, KernelInit, FilesInit

\* ReceiptInv is inductive.
LEMMA ReceiptKept ==
  ASSUME LockInv, CycleInv, Unborn, Agreement, ReceiptInv, [Next]_vars
  PROVE  ReceiptInv'
<1>1. ASSUME NEW p \in Procs, Works(p) PROVE ReceiptInv'
  <2>1. \A c \in Cycles \ {Cyc(p)} :
          doc'[c] = doc[c] /\ kernel'[c] = kernel[c] /\ files'[c] = files[c]
    BY <1>1 DEF Works, Data, World
  <2>2. \A d \in {doc[Cyc(p)], mem'[p]} : Receipt(d, kernel'[Cyc(p)], files'[Cyc(p)])
    BY <1>1, ReceiptDocs
  <2>3. doc'[Cyc(p)] \in {doc[Cyc(p)], mem'[p]} /\ Cyc(p)' = Cyc(p)
    BY <1>1, WorkTypes DEF Works
  <2>4. \A c \in Cycles : Receipt(doc'[c], kernel'[c], files'[c])
    BY <2>1, <2>2, <2>3 DEF ReceiptInv
  <2>5. \A q \in Procs : Running(q)' =>
          Receipt(mem'[q], kernel'[Cyc(q)'], files'[Cyc(q)']) /\ ReceiptPlaces(q)'
    BY <1>1, <2>2, <2>3, ReceiptPlacesKept DEF Works
  <2> QED BY <2>4, <2>5 DEF ReceiptInv
<1>2. ASSUME NEW p \in Procs, Starts(p) PROVE ReceiptInv'
  <2>1. /\ kernel' = kernel /\ files' = files /\ Cyc(p)' = Cyc(p) /\ Cyc(p) \in Cycles
        /\ doc[Cyc(p)] = NoDoc /\ kernel[Cyc(p)] = KernelInit /\ files[Cyc(p)] = FilesInit
    BY <1>2 DEF Starts, Unborn, world, Cyc
  <2>2. doc'[Cyc(p)] \in NewDocs \cup {NoDoc} /\ mem'[p] \in NewDocs
    BY <1>2, <2>1 DEF Starts
  <2>3. \A c \in Cycles : Receipt(doc'[c], kernel'[c], files'[c])
    BY <1>2, <2>1, <2>2, ReceiptStart DEF Starts, ReceiptInv
  <2>4. Running(p)' => Receipt(mem'[p], kernel'[Cyc(p)'], files'[Cyc(p)']) /\ ReceiptPlaces(p)'
    BY <1>2, <2>1, <2>2, ReceiptStart DEF Starts, Running, ReceiptPlaces, At
  <2> QED BY <1>2, <2>3, <2>4 DEF Starts, ReceiptInv
<1>3. ASSUME Quiet PROVE ReceiptInv'
  <2>1. doc' = doc /\ kernel' = kernel /\ files' = files
    BY <1>3 DEF Quiet, world
  <2>2. ASSUME NEW q \in Procs, Running(q)'
        PROVE  Receipt(mem'[q], kernel'[Cyc(q)'], files'[Cyc(q)']) /\ ReceiptPlaces(q)'
    <3>1. CASE Running(q) /\ Stays(q)
      BY <2>1, <3>1 DEF ReceiptInv, Stays, ReceiptPlaces, At, Cyc
    <3>2. CASE Enters(q)
      <4>1. pc'[q] \in {"ensureRun", "event"} /\ Cyc(q) \in Cycles
        BY <3>2 DEF Enters, Body, Ops
      <4> QED BY <2>1, <3>2, <4>1 DEF ReceiptInv, Enters, ReceiptPlaces, At
    <3> QED BY <1>3, <2>2, <3>1, <3>2 DEF Quiet
  <2> QED BY <2>1, <2>2 DEF ReceiptInv
<1> QED BY <1>1, <1>2, <1>3, StepKinds

\* Every reachable state has ReceiptInv.
LEMMA ReceiptInvariance == Spec => []ReceiptInv
<1>1. Init => ReceiptInv
  <2> SUFFICES ASSUME Init PROVE ReceiptInv
    OBVIOUS
  <2>1. \A c \in Cycles : doc[c] = NoDoc /\ kernel[c] = KernelInit /\ files[c] = FilesInit
    BY DEF Init, ServiceInit
  <2>2. \A p \in Procs : ~Running(p)
    BY DEF Init, ServiceInit, Running, Critical, Outside
  <2> QED BY <2>1, <2>2, ReceiptStart DEF ReceiptInv
<1>2. LockInv /\ CycleInv /\ Unborn /\ Agreement /\ ReceiptInv /\ [Next]_vars => ReceiptInv'
  BY ReceiptKept
<1> QED BY <1>1, <1>2, LockInvariant, CycleInvariance, UnbornInvariance, AgreementInvariance,
     PTL DEF Spec

\* The ledger gets one receipt per cycle, also when the answer of EmitReceipt
\* is lost: FindReceipt looks for the content that the document has claimed.
THEOREM ReceiptOnce == Spec => []OneReceipt
<1>1. ReceiptInv => OneReceipt
  <2> SUFFICES ASSUME ReceiptInv, NEW c \in Cycles PROVE Len(kernel[c].ledger) <= 1
    BY DEF OneReceipt
  <2>1. kernel[c].ledger \in {<<>>, <<doc[c].digest>>}
    BY DEF ReceiptInv, Receipt
  <2>2. Len(<<>>) = 0 /\ Len(<<doc[c].digest>>) = 1
    OBVIOUS
  <2>3. Len(kernel[c].ledger) \in {0, 1}
    BY <2>1, <2>2, Zenon
  <2>4. \A n \in {0, 1} : n <= 1
    OBVIOUS
  <2> QED BY <2>3, <2>4, Zenon
<1> QED BY <1>1, ReceiptInvariance, PTL

\* The identity in a signed document is Intercore's receipt of exactly the
\* content on disk, whoever rebuilt, emitted or accepted it and how often.
THEOREM SignatureBound == Spec => []SignatureBinds
<1>1. ReceiptInv /\ CycleInv => SignatureBinds
  <2> SUFFICES ASSUME ReceiptInv, NEW c \in Cycles, doc[c].signed # 0
               PROVE  /\ doc[c].signed \in DOMAIN kernel[c].ledger
                      /\ kernel[c].ledger[doc[c].signed] = files[c].digest
                      /\ doc[c].digest = files[c].digest
                      /\ files[c].signature = doc[c].signed
    BY DEF SignatureBinds, Signed
  <2>1. /\ doc[c].signed = 1 /\ files[c].signature = 1 /\ kernel[c].ledger = <<doc[c].digest>>
        /\ doc[c].digest = files[c].digest
    BY DEF ReceiptInv, Receipt
  <2> QED BY <2>1
<1> QED BY <1>1, ReceiptInvariance, CycleInvariance, PTL
=============================================================================
