----------------------------- MODULE CycleClaims ----------------------------
(***************************************************************************)
(* The inductive invariants behind the safety properties.  Each has the    *)
(* same shape: facts that relate a version of a cycle's document to the    *)
(* services, which hold of the canonical document and of the copy of an    *)
(* invocation that is inside an operation, and what such an invocation may *)
(* rely on at the places it has reached.  The facts take the records of    *)
(* one cycle (document d, kernel k, backlog b, files f, calls n) as        *)
(* parameters, so that they can be read before and after a step.           *)
(***************************************************************************)
EXTENDS CycleInvariant

\* The place an invocation is heading for: inside a shared procedure it is the
\* one the procedure returns to.
Shared == {"event", "eventSave", "advance", "advanceRun", "advanceSave"}
Heading(p) == IF pc[p] \in Shared THEN job[p].ret ELSE pc[p]
Toward(p, ls) == Heading(p) \in ls

-----------------------------------------------------------------------------
(* The way through the handlers: the places a handler may head for next.   *)
(* Every place may also be left for fail or release.                       *)

ObservationEdges ==
  ({"startLatest"} \X {"ensureRun"}) \cup ({"ensureRun"} \X {"continue", "ensureRunSave"})
  \cup ({"ensureRunSave"} \X {"continue"})
  \cup ({"continue"} \X {"observing", "finishRanked"}) \cup ({"observing"} \X {"capture"})
  \cup ({"capture"} \X {"observe", "register"}) \cup ({"observe"} \X {"observeWrite"})
  \cup ({"observeWrite"} \X {"register"})
  \cup ({"register"} \X {"registerSend", "registerDone"})
  \cup ({"registerSend"} \X {"registerDone"}) \cup ({"registerDone"} \X {"judge"})
  \cup ({"judge"} \X {"judgeFirst", "judgmentFilter"})
  \cup ({"judgeFirst"} \X {"judgeFirstSave"}) \cup ({"judgeFirstSave"} \X {"judgmentFilter"})
  \cup ({"judgmentFilter"} \X {"judgeAgain", "judgmentWrite"})
  \cup ({"judgeAgain"} \X {"judgeAgainSave"})
  \cup ({"judgeAgainSave"} \X {"judgmentWrite", "judgmentReject"})
  \cup ({"judgmentWrite"} \X {"judged"}) \cup ({"judged"} \X {"rankAdvance"})
  \cup ({"rankAdvance"} \X {"rankEnter"}) \cup ({"rankEnter"} \X {"finishRanked"})
  \cup ({"finishRanked"} \X {"proposal", "noop"})

ProposalEdges ==
  ({"propose"} \X {"proposal"}) \cup ({"proposal"} \X {"proposalList", "snapshotRegister"})
  \cup ({"proposalList"} \X {"proposalCreate", "proposeAdvance", "awaitEnter", "snapshotWrite"})
  \cup ({"proposalCreate"} \X {"proposeAdvance"}) \cup ({"proposeAdvance"} \X {"proposeEnter"})
  \cup ({"proposeEnter"} \X {"awaitEnter"}) \cup ({"snapshotWrite"} \X {"snapshotSave"})
  \cup ({"snapshotSave"} \X {"snapshotRegister"})
  \cup ({"snapshotRegister"} \X {"snapshotSend", "noop"})
  \cup ({"snapshotSend"} \X {"snapshotDone"}) \cup ({"snapshotDone"} \X {"noop"})
  \cup ({"noop"} \X {"noopComplete"})

DecisionEdges ==
  ({"decline"} \X {"declineStage"}) \cup ({"declineStage"} \X {"declineClose"})
  \cup ({"declineClose"} \X {"declineSave", "declineDone"})
  \cup ({"declineSave"} \X {"declineDone"})

ExecutionEdges ==
  ({"execute"} \X {"executeAdvance"})
  \cup ({"executeAdvance"} \X {"executeEnter", "executeAttempt"})
  \cup ({"executeEnter"} \X {"executeAttempt"})
  \cup ({"executeAttempt"} \X {"executor", "collect", "benchmark"})
  \cup ({"executor"} \X {"report"}) \cup ({"report"} \X {"collect"})
  \cup ({"collect"} \X {"benchmark"}) \cup ({"benchmark"} \X {"measure", "measured"})
  \cup ({"measure"} \X {"measureWrite"}) \cup ({"measureWrite"} \X {"measured"})
  \cup ({"measured"} \X {"reviewAdvance"}) \cup ({"reviewAdvance"} \X {"reviewEnter"})

ReviewEdges ==
  ({"review"} \X {"reviewer", "resolve"}) \cup ({"reviewer"} \X {"reviewWrite"})
  \cup ({"reviewWrite"} \X {"resolve"}) \cup ({"resolve"} \X {"compoundAdvance"})
  \cup ({"compoundAdvance"} \X {"compoundEnter"})

CompoundEdges ==
  ({"compound"} \X {"compoundStage"}) \cup ({"compoundStage"} \X {"promote", "terminalize"})
  \cup ({"promote"} \X {"promoteCreate", "promoteSave", "close"})
  \cup ({"promoteCreate"} \X {"promoteSave"}) \cup ({"promoteSave"} \X {"close"})
  \cup ({"close"} \X {"closeSave", "outcome"}) \cup ({"closeSave"} \X {"outcome"})
  \cup ({"outcome"} \X {"outcomeSave", "feedback"}) \cup ({"outcomeSave"} \X {"feedback"})
  \cup ({"feedback"} \X {"feedbackSend", "roadmap"})
  \cup ({"feedbackSend"} \X {"feedbackSave"}) \cup ({"feedbackSave"} \X {"feedback"})
  \cup ({"roadmap"} \X {"roadmapSync", "roadmapCheck"})
  \cup ({"roadmapSync"} \X {"roadmapWrite", "roadmapUndo"})
  \cup ({"roadmapWrite"} \X {"roadmapSave"}) \cup ({"roadmapSave"} \X {"roadmapCheck"})
  \cup ({"roadmapCheck"} \X {"terminalize"}) \cup ({"terminalize"} \X {"terminalize", "receipt"})
  \cup ({"receipt"} \X {"receiptSave", "emit", "accept", "complete"})
  \cup ({"receiptSave"} \X {"emit"}) \cup ({"emit"} \X {"emitSend", "accept"})
  \cup ({"emitSend"} \X {"accept"}) \cup ({"accept"} \X {"acceptSave"})
  \cup ({"acceptSave"} \X {"complete"})

Edges == ObservationEdges \cup ProposalEdges \cup DecisionEdges \cup ExecutionEdges
         \cup ReviewEdges \cup CompoundEdges

\* Where each use of advanceOnce returns to.
Back ==
  [k \in RunKeys \cup TerminalKeys |->
     CASE k = "run:rank"     -> "rankEnter"
       [] k = "run:propose"  -> "proposeEnter"
       [] k = "run:execute"  -> "executeEnter"
       [] k = "run:review"   -> "reviewEnter"
       [] k = "run:compound" -> "compoundEnter"
       [] OTHER              -> "terminalize"]
Entries == {"rankEnter", "proposeEnter", "executeEnter", "reviewEnter", "compoundEnter"}

\* The steps inside the shared procedures.
Inner == {<<"event", "eventSave">>, <<"advance", "advanceRun">>, <<"advanceRun", "advanceSave">>}

\* Where a step of p inside its operation leads: out, on inside the shared
\* procedure or back from it, or along an edge, perhaps through a procedure.
Out(p) == Heading(p) \in {"fail", "release"}
Through(p) ==
  \/ pc[p] = "event" /\ Heading(p) \notin Entries \cup {"terminalize"}
  \/ pc[p] = "advance" /\ Heading(p) = Back[job[p].adv]
Flow(p) ==
  \/ pc'[p] \in {"fail", "release"}
  \/ /\ pc[p] \in Shared /\ job'[p] = job[p]
     /\ pc'[p] = job[p].ret \/ <<pc[p], pc'[p]>> \in Inner
     /\ Heading(p)' = Heading(p)
  \/ /\ pc[p] \notin Shared /\ (Out(p)' \/ <<pc[p], Heading(p)'>> \in Edges)
     /\ pc'[p] \in Shared => Through(p)'

-----------------------------------------------------------------------------
(* A cycle nobody has started has left nothing anywhere. *)

Unborn ==
  \A c \in Cycles :
    doc[c].stage = Absent =>
      /\ doc[c] = NoDoc /\ kernel[c] = KernelInit /\ backlog[c] = BacklogInit
      /\ files[c] = FilesInit /\ calls[c] = CallsInit

(* Inside an operation the copy is the document, but for what fail saves.  *)

Agreement == \A p \in Procs : Running(p) => Agree(mem[p], doc[Cyc(p)])

-----------------------------------------------------------------------------
(* Nothing is invoked or registered before it is claimed in the document. *)

Claims(d, k, n) ==
  /\ d.key["judgment:attempt1"] = "none" => n.judge = 0
  /\ d.key["judgment:retry"] = "none" => n.judge <= 1
  /\ d.key["judgment:retry"] # "none" => d.key["judgment:attempt1"] # "none"
  /\ d.key["execution:attempt"] = "none" => n.executor = 0
  /\ d.key["benchmark:attempt"] = "none" => n.benchmark = 0
  /\ d.key["review:attempt"] = "none" => n.reviewer = 0
  /\ d.key["review:attempt"] = "completed" => d.review # "none" /\ d.final # "none"
  /\ d.key["observation:capture"] = "none" => k.replays["components"] = 0
  /\ d.key["observation:capture"] = "completed" => d.observed
  /\ d.key["replay:observation"] = "none" => k.replays["observation"] = 0
  /\ d.key["replay:proposal-backlog"] = "none" => k.replays["proposal-backlog"] = 0

Claimed(p, k) == mem[p].key[k] # "none" /\ doc[Cyc(p)].key[k] # "none"

ClaimPlaces(p) ==
  LET n == calls[Cyc(p)]
      k == kernel[Cyc(p)]
  IN /\ At(p, "judgeFirst") => n.judge = 0 /\ Claimed(p, "judgment:attempt1")
     /\ At(p, "judgeAgain") => n.judge <= 1 /\ Claimed(p, "judgment:retry")
     /\ \/ pc[p] \in {"judgeFirstSave", "judgeAgainSave", "judgmentReject"}
        \/ At(p, "judgmentFilter") /\ job[p].got = "invalid"
        => mem[p].key["judgment:attempt1"] # "none"
     /\ At(p, "executor") => n.executor = 0 /\ Claimed(p, "execution:attempt")
     /\ At(p, "measure") => n.benchmark = 0 /\ Claimed(p, "benchmark:attempt")
     /\ At(p, "reviewer") => n.reviewer = 0 /\ Claimed(p, "review:attempt")
     /\ At(p, "observe") => k.replays["components"] = 0 /\ Claimed(p, "observation:capture")
     /\ At(p, "registerSend") => k.replays["observation"] = 0 /\ Claimed(p, "replay:observation")
     /\ pc[p] \in {"registerSend", "registerDone"} => mem[p].observed
     /\ At(p, "snapshotSend") =>
          k.replays["proposal-backlog"] = 0 /\ Claimed(p, "replay:proposal-backlog")

ClaimInv ==
  /\ InvokedAtMostOnce /\ RegisteredAtMostOnce
  /\ \A c \in Cycles : Claims(doc[c], kernel[c], calls[c])
  /\ \A p \in Procs :
       Running(p) => Claims(mem[p], kernel[Cyc(p)], calls[Cyc(p)]) /\ ClaimPlaces(p)

-----------------------------------------------------------------------------
(* No bead is created that exists.  What the backlog was seen to hold still *)
(* holds at the creation, because nobody else is inside an operation.       *)

BeadPlaces(p) ==
  /\ At(p, "proposalCreate") => ~ExperimentExists(Cyc(p)) /\ ~SiblingExists(Cyc(p))
  /\ At(p, "promoteCreate") => ~PromotionExists(Cyc(p))

BeadInv ==
  /\ OneBeadEach /\ OneExperimentPerFingerprint
  /\ \A p \in Procs : Running(p) => BeadPlaces(p)

-----------------------------------------------------------------------------
(* Every stage is reported before it is left. *)

Unreported == {"startLatest", "ensureRun", "ensureRunSave", "continue", "observing", "event"}

ReportPlaces(p) ==
  /\ pc[p] \notin Unreported => mem[p].stage \in kernel[Cyc(p)].events \cup {"new"}
  /\ At(p, "observing") => mem[p].stage \in {"new", "observing"}
  /\ At(p, "eventSave") => mem[p].stage \in kernel[Cyc(p)].events

ReportInv ==
  /\ \A c \in Cycles : doc[c].events \subseteq kernel[c].events
  /\ \A p \in Procs :
       Running(p) => mem[p].events \subseteq kernel[Cyc(p)].events /\ ReportPlaces(p)

-----------------------------------------------------------------------------
(* What an operation knows of the stage from the moment it was chosen. *)

Committed == {"proposed", "awaiting_approval", "approved", "declined", "executing",
              "reviewing", "compounding"}

Chosen(op, d) ==
  /\ op = "propose" => d.stage \in Committed \cup {"completed", "failed"}
  /\ op = "execute" =>
       d.stage \in {"approved", "executing", "reviewing", "compounding", "completed", "failed"}
  /\ op = "review" =>
       /\ d.stage \in {"reviewing", "compounding", "completed", "failed"}
       /\ d.key["execution:attempt"] = "completed" /\ d.key["benchmark:attempt"] = "completed"
       /\ d.stage \in {"compounding", "completed"} => d.final # "none"
  /\ op = "compound" => d.stage \in {"no_op", "compounding", "completed", "failed"}

\* The labels that only one operation reaches.
OpPlaces(p) ==
  /\ Toward(p, {"propose"}) => job[p].op = "propose"
  /\ Toward(p, {"execute", "executeAdvance", "executeEnter", "executeAttempt", "executor",
                "report", "collect", "benchmark", "measure", "measureWrite", "measured",
                "reviewAdvance", "reviewEnter"}) => job[p].op = "execute"
  /\ Toward(p, {"review", "reviewer", "reviewWrite", "resolve", "compoundAdvance",
                "compoundEnter"}) => job[p].op = "review"
  /\ Toward(p, {"compound", "compoundStage"}) => job[p].op = "compound"

(* Authority and evidence. *)

Authority(d, b, f) ==
  /\ d.stage \in Committed => d.mode = "proposal" /\ b.experiments > 0
  /\ d.approved =>
       /\ d.mode = "proposal" /\ b.experiments > 0
       /\ d.stage \in {"approved", "executing", "reviewing", "compounding", "completed", "failed"}
  /\ d.key["execution:attempt"] # "none" => d.approved
  /\ d.key["review:attempt"] # "none" => d.approved
  /\ d.stage = "declined" => d.declined
  /\ d.mode = "shadow" => b = BacklogInit /\ f.worktree = "clean"

AuthorityPlaces(p) ==
  /\ Toward(p, {"proposal", "proposalList", "proposalCreate", "proposeAdvance",
                "proposeEnter", "awaitEnter"}) => mem[p].mode = "proposal"
  /\ Toward(p, {"proposeAdvance", "proposeEnter", "awaitEnter"}) => ExperimentExists(Cyc(p))
  /\ Toward(p, {"executeAdvance", "executeEnter", "executeAttempt", "executor"}) =>
       mem[p].approved
  /\ At(p, "declineStage") => mem[p].stage \in {"awaiting_approval", "declined"} /\ mem[p].declined
  /\ Toward(p, {"declineClose", "declineSave", "declineDone"}) => mem[p].stage = "declined"

Executed(d) ==
  d.key["execution:attempt"] = "completed" /\ d.key["benchmark:attempt"] = "completed"

Evidence(d, b, f, n) ==
  /\ d.stage \in {"reviewing", "compounding"} => Executed(d)
  /\ d.stage = "compounding" => d.final # "none"
  /\ d.final # "none" =>
       /\ d.stage \in {"reviewing", "compounding", "completed", "failed"}
       /\ Executed(d) /\ d.key["review:attempt"] = "completed"
  /\ d.transcript =>
       /\ d.key["execution:attempt"] = "completed"
       /\ f.worktree = "allowed" /\ ~n.overBudget
  /\ d.key["benchmark:attempt"] = "completed" => f.measurement = d.measured
  /\ d.key["review:attempt"] = "completed" => f.review = d.review
  /\ d.final = "promote" => d.review = "promote" /\ d.measured = "met" /\ d.transcript
  /\ b.promotions > 0 => d.final = "promote"

Consequent == {"promote", "promoteCreate", "promoteSave", "close", "closeSave", "outcome",
  "outcomeSave", "feedback", "feedbackSend", "feedbackSave", "roadmap", "roadmapSync",
  "roadmapUndo", "roadmapWrite", "roadmapSave", "roadmapCheck"}

EvidencePlaces(p) ==
  LET m == mem[p]
      f == files[Cyc(p)]
      n == calls[Cyc(p)]
  IN /\ pc[p] \in {"executor", "report", "collect"} => m.key["execution:attempt"] = "started"
     /\ At(p, "report") => job[p].got \in {"within", "over"}
     /\ At(p, "collect") => job[p].got \in {"within", "over", "unknown"}
     /\ pc[p] \in {"report", "collect"} /\ job[p].got = "within" => ~n.overBudget
     /\ pc[p] \in {"benchmark", "measure", "measureWrite", "measured"} =>
          m.key["execution:attempt"] = "completed"
     /\ pc[p] \in {"measure", "measureWrite"} => m.key["benchmark:attempt"] = "started"
     /\ At(p, "measured") => m.measured = f.measurement
     /\ Toward(p, {"reviewAdvance", "reviewEnter"}) => Executed(m)
     /\ pc[p] \in {"reviewer", "reviewWrite"} => m.key["review:attempt"] = "started"
     /\ At(p, "resolve") => m.key["review:attempt"] # "none" /\ f.review = job[p].got
     /\ Toward(p, {"compoundAdvance", "compoundEnter"}) => m.final # "none"
     /\ pc[p] \in Consequent => m.stage = "compounding"
     /\ pc[p] \in {"promoteCreate", "promoteSave"} => m.final = "promote"

AuthorityInv ==
  /\ \A p \in Procs : pc[p] # "idle" => Chosen(job[p].op, doc[Cyc(p)])
  /\ \A c \in Cycles : Authority(doc[c], backlog[c], files[c])
  /\ \A p \in Procs :
       Running(p) =>
         /\ Authority(mem[p], backlog[Cyc(p)], files[Cyc(p)])
         /\ OpPlaces(p) /\ AuthorityPlaces(p)

EvidenceInv ==
  /\ \A c \in Cycles : Evidence(doc[c], backlog[c], files[c], calls[c])
  /\ \A p \in Procs :
       Running(p) =>
         Evidence(mem[p], backlog[Cyc(p)], files[Cyc(p)], calls[Cyc(p)]) /\ EvidencePlaces(p)

-----------------------------------------------------------------------------
(* The run and the cycle. *)

\* The phases a run may be in once it has reached ph.
Since ==
  [ph \in Phases |->
     CASE ph = "compound" -> {"compound"}
       [] ph = "review"   -> {"review", "compound"}
       [] ph = "execute"  -> {"execute", "review", "compound"}
       [] ph = "propose"  -> {"propose", "execute", "review", "compound"}
       [] ph = "rank"     -> {"rank", "propose", "execute", "review", "compound"}
       [] OTHER           -> Phases]

Advancing == {"advance", "advanceRun", "advanceSave"}
Signing == {"receipt", "receiptSave", "emit", "emitSend", "accept", "acceptSave", "complete"}

Advanced(d, k) ==
  \A x \in RunKeys \cup TerminalKeys : d.key[x] = "completed" => k.phase \in Since[Target[x]]

PhasePlaces(p) ==
  LET stage == mem[p].stage
      phase == kernel[Cyc(p)].phase
      adv == job[p].adv
  IN /\ pc[p] \in Advancing => job[p].ret = Back[adv]
     /\ pc[p] \in {"event", "eventSave"} => job[p].ret \notin Entries \cup {"terminalize"}
     /\ At(p, "advanceRun") => phase = PreviousPhase[Target[adv]]
     /\ At(p, "advanceSave") => phase \in Since[Target[adv]]
     /\ At(p, "rankEnter") => phase \in Since["rank"]
     /\ At(p, "proposeEnter") => phase \in Since["propose"]
     /\ At(p, "executeEnter") => phase \in Since["execute"]
     /\ At(p, "reviewEnter") => phase \in Since["review"]
     /\ At(p, "compoundEnter") => phase \in Since["compound"]
     /\ Toward(p, {"capture", "observe", "observeWrite", "register", "registerSend",
                   "registerDone", "judge", "judgeFirst", "judgeAgain", "judgeFirstSave",
                   "judgeAgainSave", "judgmentFilter", "judgmentWrite", "judged",
                   "rankAdvance", "rankEnter"}) => stage = "observing"
     /\ Toward(p, {"proposalCreate", "proposeAdvance", "proposeEnter"}) => stage = "ranked"
     /\ Toward(p, {"executeEnter"}) => stage \in {"approved", "executing"}
     /\ Toward(p, {"executeAttempt", "executor", "report", "collect", "benchmark", "measure",
                   "measureWrite", "measured", "reviewAdvance", "reviewEnter"}) =>
          stage \in {"executing", "reviewing", "compounding", "completed", "failed"}
     /\ Toward(p, {"compoundStage"}) => stage # "no_op"
     /\ Toward(p, {"terminalize"} \cup Signing) =>
          stage \in {"compounding", "completed", "failed"}
     /\ pc[p] \in Signing => phase = "compound"

PhaseInv ==
  /\ RunTracksStage
  /\ \A c \in Cycles : Advanced(doc[c], kernel[c])
  /\ \A p \in Procs : Running(p) => Advanced(mem[p], kernel[Cyc(p)]) /\ PhasePlaces(p)

-----------------------------------------------------------------------------
(* The consequences of a verdict and the receipt. *)

Done(d) ==
  /\ d.final = "promote" => d.key["backlog:promotion"] = "completed"
  /\ d.key["backlog:close"] = "completed" /\ d.key["outcome:state"] = "completed"
  /\ \A x \in Discoveries : d.feedback[x] = "completed"
  /\ d.key["roadmap:sync"] = "completed"

Consequences(d, k, b, f) ==
  /\ d.key["backlog:promotion"] = "completed" => b.promotions > 0
  /\ d.key["backlog:close"] = "completed" => b.closed
  /\ d.key["outcome:state"] = "completed" => d.final # "none" /\ k.outcome = d.final
  /\ \A x \in Discoveries : d.feedback[x] = "completed" => x \in k.feedback
  /\ \A x, y \in Discoveries : d.feedback[x] = "started" /\ d.feedback[y] = "started" => x = y
  /\ d.key["roadmap:sync"] = "completed" => d.roadmap = "closed" /\ f.roadmap = "closed"
  /\ d.key["receipt:attempt"] # "none" =>
       d.stage \in {"compounding", "completed", "failed"} /\ k.phase = "compound"
  /\ d.final # "none" /\ d.stage = "completed" => Done(d)
  /\ d.stage = "compounding" /\ d.key["receipt:attempt"] # "none" => Done(d)
  /\ b.closed => \/ d.final # "none"
                 \/ d.declined /\ d.stage \in {"declined", "completed"}

ConsequencePlaces(p) ==
  LET m == mem[p]
      k == kernel[Cyc(p)]
      b == backlog[Cyc(p)]
      f == files[Cyc(p)]
  IN /\ pc[p] \in Consequent \ {"promote", "promoteCreate", "promoteSave"} =>
          (m.final = "promote" => m.key["backlog:promotion"] = "completed")
     /\ At(p, "promoteSave") => PromotionExists(Cyc(p))
     /\ At(p, "closeSave") => b.closed
     /\ At(p, "declineSave") => b.closed
     /\ pc[p] \in {"outcome", "outcomeSave", "feedback", "feedbackSend", "feedbackSave",
                   "roadmap", "roadmapSync", "roadmapUndo", "roadmapWrite", "roadmapSave",
                   "roadmapCheck"} => m.key["backlog:close"] = "completed"
     /\ At(p, "outcomeSave") => k.outcome = m.final
     /\ pc[p] \in {"feedback", "feedbackSend", "feedbackSave", "roadmap", "roadmapSync",
                   "roadmapUndo", "roadmapWrite", "roadmapSave", "roadmapCheck"} =>
          m.key["outcome:state"] = "completed"
     /\ pc[p] \in {"feedbackSend", "feedbackSave"} =>
          \E x \in Discoveries : m.feedback[x] = "started"
     /\ At(p, "feedbackSave") =>
          \A x \in Discoveries : m.feedback[x] = "started" => x \in k.feedback
     /\ pc[p] \in {"roadmap", "roadmapSync", "roadmapUndo", "roadmapWrite", "roadmapSave",
                   "roadmapCheck"} => \A x \in Discoveries : m.feedback[x] = "completed"
     /\ pc[p] \in {"roadmapSync", "roadmapUndo", "roadmapWrite", "roadmapSave"} =>
          m.key["roadmap:sync"] = "started"
     /\ At(p, "roadmapWrite") => b.roadmap = "closed"
     /\ At(p, "roadmapSave") => f.roadmap = "closed"
     /\ At(p, "roadmapCheck") => m.key["roadmap:sync"] = "completed"
     /\ Toward(p, {"terminalize"} \cup Signing) => (m.stage = "compounding" => Done(m))
     /\ Toward(p, {"noopComplete"}) => m.stage = "no_op"

ConsequenceInv ==
  /\ \A c \in Cycles : Consequences(doc[c], kernel[c], backlog[c], files[c])
  /\ \A p \in Procs :
       Running(p) =>
         /\ Consequences(mem[p], kernel[Cyc(p)], backlog[Cyc(p)], files[Cyc(p)])
         /\ ConsequencePlaces(p)

\* The ledger holds nothing, or one receipt of exactly the content that the
\* document claims; every identity anywhere is that receipt's.
Receipt(d, k, f) ==
  /\ d.key["receipt:attempt"] = "none" =>
       k.ledger = <<>> /\ f.signature = 0 /\ d.signed = 0
  /\ d.key["receipt:attempt"] # "none" =>
       d.digest = f.digest /\ k.ledger \in {<<>>, <<d.digest>>}
  /\ f.signature # 0 => f.signature = 1 /\ k.ledger = <<d.digest>>
  /\ d.signed # 0 => d.signed = f.signature

ReceiptPlaces(p) ==
  /\ At(p, "receiptSave") => mem[p].key["receipt:attempt"] = "none"
  /\ pc[p] \in {"emit", "emitSend", "accept", "acceptSave", "complete"} =>
       mem[p].key["receipt:attempt"] # "none"
  /\ At(p, "emitSend") => kernel[Cyc(p)].ledger = <<>>
  /\ At(p, "acceptSave") => files[Cyc(p)].signature # 0

ReceiptInv ==
  /\ \A c \in Cycles : Receipt(doc[c], kernel[c], files[c])
  /\ \A p \in Procs :
       Running(p) => Receipt(mem[p], kernel[Cyc(p)], files[Cyc(p)]) /\ ReceiptPlaces(p)

-----------------------------------------------------------------------------
(* Nothing changes what is signed.  Once a receipt is claimed, the handlers *)
(* walk through places at which a document that is done has nothing left to *)
(* do; Execute and Review are among them only if what they saw before they  *)
(* had the lock still holds.                                                *)

Sealed(d) == d.key["receipt:attempt"] # "none"

\* The run exists before the first stage is entered.
Born(d) == d.stage \notin {Absent, "new"} => d.run

\* The places of an invocation whose cycle has not left its first stage.
Early == {"startLatest", "ensureRun", "ensureRunSave", "continue", "observing",
          "propose", "approve", "decline", "execute", "review", "compound"}

RunPlaces(p) ==
  /\ mem[p].stage = "new" => Toward(p, Early)
  /\ pc[p] \in {"continue", "observing"} => mem[p].run

RunInv ==
  /\ \A c \in Cycles : Born(doc[c])
  /\ \A p \in Procs : Running(p) => Born(mem[p]) /\ RunPlaces(p)

\* The check before the lock still holds under it, and while it waits for it.
Checked == {"execute", "review"}
Timely ==
  \A p \in Procs : Toward(p, Checked) => Ready(job[p].op, doc[Cyc(p)])
Prompt ==
  \A p \in Procs :
    At(p, "acquire") /\ job[p].op \in Checked => Ready(job[p].op, doc[Cyc(p)])

Kept(d, f) ==
  Sealed(d) =>
    /\ f.receipt = Content(d) /\ d.key["run:terminal"] = "completed"
    /\ d.stage = "completed" \/ d.stage \in d.events

Calm == {"ensureRun", "continue", "propose", "approve", "decline", "execute", "review",
         "compound", "compoundStage", "promote", "close", "outcome", "feedback", "roadmap",
         "roadmapCheck", "terminalize", "receipt", "emit", "emitSend", "accept",
         "acceptSave", "complete", "release"}

AtRest(p) ==
  /\ Heading(p) \in Calm /\ pc[p] \notin Advancing
  /\ At(p, "eventSave") => mem[p].stage = "completed"

FrozenPlaces(p) ==
  /\ pc[p] \in Signing => mem[p].key["run:terminal"] = "completed"
  /\ At(p, "receiptSave") => files[Cyc(p)].receipt = Content(mem[p])
  /\ pc[p] \notin Unreported \cup {"eventSave"} => mem[p].stage \in mem[p].events \cup {"new"}
  /\ Sealed(mem[p]) => AtRest(p)

FrozenInv ==
  /\ \A c \in Cycles : Kept(doc[c], files[c])
  /\ \A p \in Procs : Running(p) => Kept(mem[p], files[Cyc(p)]) /\ FrozenPlaces(p)
=============================================================================
