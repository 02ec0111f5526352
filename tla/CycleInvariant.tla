--------------------------- MODULE CycleInvariant ---------------------------
(***************************************************************************)
(* The inductive invariant behind type correctness and the refinement of   *)
(* StageMachine, and what one step of a handler does to it, split into     *)
(* the documents, the services and the control of the invocation.          *)
(***************************************************************************)
EXTENDS CycleProperties

\* Operations, and the labels a shared procedure may return to.
Ops == {"start", "observe", "propose", "approve", "decline", "execute", "review", "compound"}
Conts ==
  {"propose", "approve", "decline", "execute", "review", "compound", "capture",
   "finishRanked", "rankEnter", "proposeEnter", "awaitEnter", "noopComplete",
   "declineClose", "executeEnter", "executeAttempt", "reviewEnter",
   "compoundEnter", "compoundStage", "terminalize", "release"}

\* What the registers of p hold where it uses them.
Registers(p) ==
  /\ pc[p] # "idle" => Cyc(p) \in Cycles /\ job[p].op \in Ops
  /\ pc[p] \in {"event", "eventSave", "advance", "advanceRun", "advanceSave"} =>
       job[p].ret \in Conts
  /\ pc[p] \in {"advance", "advanceRun", "advanceSave"} =>
       job[p].adv \in RunKeys \cup TerminalKeys
  /\ pc[p] = "advanceRun" => kernel[Cyc(p)].phase \in Phases
  /\ pc[p] \in {"judgmentWrite", "judged"} => job[p].got \in Usable
  /\ pc[p] \in {"reviewWrite", "resolve"} => job[p].got \in Verdicts \cup {"uncited"}

\* Inside an operation the copy in memory has the stage of the document; only
\* on the way out, after a failed write, may it have another.
Running(p) == Critical(p) /\ pc[p] \notin {"start", "release"}
Coherent(p) ==
  Running(p) => mem[p].stage = doc[Cyc(p)].stage /\ mem[p].stage # Absent

\* An operation other than start has a document to work on; start has none,
\* and its cycle is known to no other invocation.
Entered(p) ==
  /\ pc[p] \in {"check", "acquire"} /\ job[p].op # "start" => doc[Cyc(p)].stage # Absent
  /\ pc[p] = "start" => job[p].op = "start"
  /\ pc[p] \in {"check", "acquire", "start"} /\ job[p].op = "start" =>
       doc[Cyc(p)].stage = Absent /\ \A q \in Procs \ {p} : Cyc(q) # Cyc(p)

ControlOK == \A p \in Procs : Registers(p) /\ Coherent(p) /\ Entered(p)

CycleInv == TypeOK /\ ControlOK

-----------------------------------------------------------------------------
(* What a step at label l may make of a record.  Every field, every key and *)
(* every stage is written at the labels named here and nowhere else.        *)

\* The labels at which each key of a document is written.
KeyWriters ==
  {<<"capture", "observation:capture">>, <<"registerDone", "observation:capture">>,
   <<"register", "replay:observation">>, <<"registerDone", "replay:observation">>,
   <<"judge", "judgment:attempt1">>, <<"judgeFirstSave", "judgment:attempt1">>,
   <<"judge", "judgment:retry">>, <<"judgeFirst", "judgment:retry">>,
   <<"judgeAgain", "judgment:retry">>, <<"judgmentReject", "judgment:retry">>,
   <<"judgmentFilter", "judgment:retry">>, <<"judgmentWrite", "judgment:retry">>,
   <<"snapshotRegister", "replay:proposal-backlog">>,
   <<"snapshotDone", "replay:proposal-backlog">>,
   <<"declineSave", "decline:close">>, <<"execute", "execution:prepared">>,
   <<"executeAttempt", "execution:attempt">>, <<"collect", "execution:attempt">>,
   <<"benchmark", "benchmark:attempt">>, <<"measured", "benchmark:attempt">>,
   <<"review", "review:attempt">>, <<"resolve", "review:attempt">>,
   <<"promoteSave", "backlog:promotion">>, <<"closeSave", "backlog:close">>,
   <<"outcomeSave", "outcome:state">>, <<"roadmap", "roadmap:sync">>,
   <<"roadmapUndo", "roadmap:sync">>, <<"roadmapSave", "roadmap:sync">>,
   <<"terminalize", "run:terminal">>, <<"receiptSave", "receipt:attempt">>,
   <<"acceptSave", "receipt:attempt">>}
  \cup ({"advance", "advanceSave"} \X (RunKeys \cup TerminalKeys))

\* The labels from which each stage is entered.
StageWriters ==
  {<<"observing", "observing">>, <<"rankEnter", "ranked">>, <<"noop", "no_op">>,
   <<"proposeEnter", "proposed">>, <<"awaitEnter", "awaiting_approval">>,
   <<"approve", "approved">>, <<"declineStage", "declined">>,
   <<"executeEnter", "executing">>, <<"reviewEnter", "reviewing">>,
   <<"compoundEnter", "compounding">>, <<"noopComplete", "completed">>,
   <<"declineDone", "completed">>, <<"compound", "completed">>,
   <<"complete", "completed">>, <<"fail", "failed">>}

\* Keys that are never opened again once they are completed.
Lasting == {"execution:attempt", "benchmark:attempt", "backlog:promotion",
            "backlog:close", "outcome:state"}

\* A document m becomes n, but for its stage.
Edits(l, m, n) ==
  /\ n \in CycleDoc /\ n.mode = m.mode
  /\ n.run # m.run => l = "ensureRunSave" /\ n.run
  /\ n.observed # m.observed => l = "register" /\ n.observed
  /\ n.approved # m.approved => l = "approve" /\ n.approved
  /\ n.declined # m.declined => l = "decline" /\ n.declined
  /\ n.transcript # m.transcript => l = "collect"
  /\ n.measured # m.measured => l \in {"benchmark", "measure"}
  /\ n.review # m.review => l = "resolve"
  /\ n.final # m.final => l = "resolve" /\ m.final = "none"
  /\ n.roadmap # m.roadmap => l = "roadmapSave"
  /\ n.signed # m.signed => l = "acceptSave"
  /\ n.digest # m.digest => l = "receiptSave"
  /\ n.feedback # m.feedback => l \in {"feedback", "feedbackSave"}
  /\ \A d \in Discoveries : m.feedback[d] = "completed" => n.feedback[d] = "completed"
  /\ n.events # m.events => l = "eventSave" /\ n.events = m.events \cup {m.stage}
  /\ \A k \in Keys : n.key[k] # m.key[k] => <<l, k>> \in KeyWriters
  /\ \A k \in Keys \ {"roadmap:sync"} : m.key[k] # "none" => n.key[k] # "none"
  /\ \A k \in Lasting : m.key[k] = "completed" => n.key[k] = "completed"

\* Intercore's record k of a cycle becomes x.
Registrations == {<<"observe", "components">>, <<"registerSend", "observation">>,
                  <<"snapshotSend", "proposal-backlog">>}
KernelEdits(l, k, x) ==
  /\ x \in KernelType
  /\ x.phase # k.phase => l \in {"ensureRun", "advanceRun"} /\ x.phase \in Phases
  /\ k.events \subseteq x.events /\ (x.events # k.events => l = "event")
  /\ \A i \in ReplayKinds :
       x.replays[i] # k.replays[i] =>
         <<l, i>> \in Registrations /\ x.replays[i] = k.replays[i] + 1
  /\ x.outcome # k.outcome => l = "outcome"
  /\ k.feedback \subseteq x.feedback /\ (x.feedback # k.feedback => l = "feedbackSend")
  /\ x.ledger # k.ledger => l = "emitSend"

\* The beads b of a cycle become x.
BacklogEdits(l, b, x) ==
  /\ x \in BacklogType
  /\ x.experiments # b.experiments =>
       l = "proposalCreate" /\ x.experiments = b.experiments + 1
  /\ x.promotions # b.promotions => l = "promoteCreate" /\ x.promotions = b.promotions + 1
  /\ x.closed # b.closed => l \in {"declineClose", "close"} /\ x.closed
  /\ x.roadmap # b.roadmap => l = "roadmapSync"

\* The artifacts f of a cycle become x.
FilesEdits(l, f, x) ==
  /\ x \in FilesType
  /\ x.worktree # f.worktree => l = "executor"
  /\ x.measurement # f.measurement => l = "measureWrite"
  /\ x.review # f.review => l \in {"reviewer", "reviewWrite"}
  /\ x.roadmap # f.roadmap => l = "roadmapWrite"
  /\ x.digest # f.digest => l = "receipt"
  /\ x.receipt # f.receipt => l = "receipt"
  /\ x.signature # f.signature => l = "accept"

\* The counts n of a cycle's invocations become x.
CallsEdits(l, n, x) ==
  /\ x \in CallsType
  /\ x.judge # n.judge => l \in {"judgeFirst", "judgeAgain"} /\ x.judge = n.judge + 1
  /\ x.executor # n.executor => l = "executor" /\ x.executor = n.executor + 1
  /\ x.benchmark # n.benchmark => l = "measure" /\ x.benchmark = n.benchmark + 1
  /\ x.reviewer # n.reviewer => l = "reviewer" /\ x.reviewer = n.reviewer + 1
  /\ x.overBudget # n.overBudget => l = "executor"

\* The copy n is the document m, but for what is remembered before it is
\* saved or what fail is about to save.
LooseKeys == {"observation:capture", "replay:observation", "judgment:attempt1",
              "judgment:retry", "run:rank"}
Agree(n, m) ==
  /\ n.mode = m.mode /\ n.approved = m.approved /\ n.declined = m.declined
  /\ n.transcript = m.transcript /\ n.review = m.review /\ n.final = m.final
  /\ n.roadmap = m.roadmap /\ n.signed = m.signed /\ n.digest = m.digest
  /\ n.feedback = m.feedback /\ n.events = m.events
  /\ \A k \in Keys \ LooseKeys : n.key[k] = m.key[k]

-----------------------------------------------------------------------------
(* What a handler may rely on where it runs. *)

Here(p) == TypeOK /\ Cyc(p) \in Cycles /\ Registers(p) /\ Running(p) /\ Coherent(p)

\* The copy of p after a step, and whether it is written: unless p is on its
\* way out, what is not written is what fail saves anyway.
Saves(p) ==
  LET c == Cyc(p)
      m == mem[p]
      n == mem'[p]
  IN /\ Edits(pc[p], m, n)
     /\ n.stage # m.stage =>
          /\ <<pc[p], n.stage>> \in StageWriters /\ ValidateTransition(m.stage, n.stage)
          /\ pc'[p] \in {"event", "release"}
     /\ doc'[c] \in {doc[c], n}
     /\ pc'[p] # "release" /\ doc'[c] # n =>
          doc'[c] = doc[c] /\ n.stage = m.stage /\ Agree(n, m)

\* The documents after a step of p: only the document and the copy of its
\* cycle change, the stage keeps or takes a legal edge, and unless p is on
\* its way out the copy has the stage of the document.
Data(p) ==
  /\ doc' \in [Cycles -> CycleDoc] /\ mem' \in [Procs -> CycleDoc]
  /\ \A c \in Cycles \ {Cyc(p)} : doc'[c] = doc[c]
  /\ \A q \in Procs \ {p} : mem'[q] = mem[q]
  /\ \/ doc'[Cyc(p)].stage = doc[Cyc(p)].stage
     \/ doc[Cyc(p)].stage = Absent /\ doc'[Cyc(p)].stage = "new"
     \/ /\ ValidateTransition(doc[Cyc(p)].stage, doc'[Cyc(p)].stage)
        /\ doc'[Cyc(p)].stage # Absent
  /\ pc'[p] # "release" =>
       mem'[p].stage = doc'[Cyc(p)].stage /\ mem'[p].stage # Absent
  /\ pc[p] = "start" \/ Saves(p)

\* The services after a step: only the records of p's cycle change, as its
\* label allows, and no run is ever forgotten.
World(p) ==
  LET c == Cyc(p)
      l == pc[p]
  IN /\ kernel' \in [Cycles -> KernelType] /\ KernelEdits(l, kernel[c], kernel'[c])
     /\ backlog' \in [Cycles -> BacklogType] /\ BacklogEdits(l, backlog[c], backlog'[c])
     /\ files' \in [Cycles -> FilesType] /\ FilesEdits(l, files[c], files'[c])
     /\ calls' \in [Cycles -> CallsType] /\ CallsEdits(l, calls[c], calls'[c])
     /\ \A d \in Cycles \ {c} :
          /\ kernel'[d] = kernel[d] /\ backlog'[d] = backlog[d]
          /\ files'[d] = files[d] /\ calls'[d] = calls[d]
     /\ latest' \in Cycles \cup {NoCycle}

\* The control of p after a step: it goes on inside the operation, on the
\* same cycle, with the registers its new place needs.
Control(p) ==
  /\ pc' = [pc EXCEPT ![p] = pc'[p]] /\ pc'[p] \in Labels
  /\ pc'[p] \notin Outside \cup {"start"}
  /\ job' = [job EXCEPT ![p] = job'[p]] /\ job'[p] \in Jobs
  /\ job'[p].cyc = job[p].cyc /\ job'[p].op = job[p].op
  /\ lock' = lock
  /\ faults' \in 0..MaxFaults
  /\ Registers(p)'
=============================================================================
