---------------------------- MODULE CycleCompound ---------------------------
(***************************************************************************)
(* Service.Compound: carry the resolution into the backlog, the outcomes,  *)
(* the discovery feedback and the roadmap; bring the Intercore run to its  *)
(* end; build, emit and verify the signed receipt; complete the cycle.     *)
(* A cycle that failed or did nothing is only terminalized and signed.     *)
(***************************************************************************)
EXTENDS CycleService

CompoundReady(d) == d.stage \in {"compounding", "completed", "failed", "no_op"}

Signed(m) == m.signed # 0

\* The review, its resolution and their evidence, as validated again here.
CompoundEvidence(m) ==
  /\ m.judged = "select" /\ m.measured # "none" /\ m.review # "none"
  /\ m.bead /\ m.approved
  /\ m.review = "promote" => m.transcript
  /\ m.final = FinalVerdict(m.review, m.measured)

BeginCompound(p) ==
  /\ At(p, "compound")
  /\ IF mem[p].stage = "no_op"
     THEN Transition(p, mem[p], "completed", "compoundStage")
     ELSE Jump(p, "compoundStage") /\ UNCHANGED job
  /\ UNCHANGED <<world, lock>>

DispatchCompound(p) ==
  LET m == mem[p]
  IN /\ At(p, "compoundStage")
     /\ \/ m.stage # "compounding" /\ Jump(p, "terminalize")
        \/ m.stage = "compounding" /\ CompoundEvidence(m) /\ Jump(p, "promote")
        \/ m.stage = "compounding" /\ ~CompoundEvidence(m) /\ Jump(p, "release")
        \/ m.stage = "compounding" /\ Raise(p, "release") /\ UNCHANGED <<doc, mem>>
     /\ UNCHANGED <<world, lock, job>>

-----------------------------------------------------------------------------
(* compoundBacklog *)

NeedsPromotion(m) == m.final = "promote" /\ m.key["backlog:promotion"] # "completed"
Promoted(m) == SetKey([m EXCEPT !.promotion = TRUE], "backlog:promotion", "completed")

\* Mutant: off by one in the number of labelled issues.
SeveralPromotionsExist(c) == backlog[c].promotions > 1

\* A promotion bead carries the cycle's label: an existing one is adopted.
PromotionExists(c) == backlog[c].promotions > 0

FindPromotion(p) ==
  LET m == mem[p]
  IN /\ At(p, "promote")
     /\ \/ ~NeedsPromotion(m) /\ Jump(p, "close")
        \/ NeedsPromotion(m) /\ PromotionExists(Cyc(p)) /\ Jump(p, "promoteSave")
        \/ NeedsPromotion(m) /\ ~PromotionExists(Cyc(p)) /\ Jump(p, "promoteCreate")
        \/ Raise(p, "release") /\ UNCHANGED <<doc, mem>>
     /\ UNCHANGED <<world, lock, job>>

CreatePromotion(p) ==
  LET created == [backlog EXCEPT ![Cyc(p)].promotions = @ + 1]
  IN /\ At(p, "promoteCreate")
     /\ \/ backlog' = created /\ Continue(p, "promoteSave")
        \/ backlog' \in {backlog, created} /\ Raise(p, "release")
     /\ UNCHANGED <<doc, mem, kernel, files, calls, latest, lock, job>>

SavePromotion(p) ==
  /\ At(p, "promoteSave")
  /\ Persist(p, Promoted(mem[p]), "close", "release")
  /\ UNCHANGED <<world, lock, job>>

CloseExperiment(p) ==
  LET c == Cyc(p)
      done == mem[p].key["backlog:close"] = "completed"
      closed == [backlog EXCEPT ![c].closed = TRUE]
  IN /\ At(p, "close")
     /\ \/ done /\ Continue(p, "outcome") /\ UNCHANGED backlog
        \/ ~done /\ backlog' = closed /\ Continue(p, "closeSave")
        \/ ~done /\ backlog' \in {backlog, closed} /\ Raise(p, "release")
     /\ UNCHANGED <<doc, mem, kernel, files, calls, latest, lock, job>>

SaveClosed(p) ==
  /\ At(p, "closeSave")
  /\ Persist(p, SetKey(mem[p], "backlog:close", "completed"), "outcome", "release")
  /\ UNCHANGED <<world, lock, job>>

-----------------------------------------------------------------------------
(* compoundOutcome and compoundFeedback *)

RecordOutcome(p) ==
  LET done == mem[p].key["outcome:state"] = "completed"
      recorded == [kernel EXCEPT ![Cyc(p)].outcome = mem[p].final]
  IN /\ At(p, "outcome")
     /\ \/ done /\ Continue(p, "feedback") /\ UNCHANGED kernel
        \/ ~done /\ kernel' = recorded /\ Continue(p, "outcomeSave")
        \/ ~done /\ kernel' \in {kernel, recorded} /\ Raise(p, "release")
     /\ UNCHANGED <<doc, mem, backlog, files, calls, latest, lock, job>>

SaveOutcome(p) ==
  /\ At(p, "outcomeSave")
  /\ Persist(p, SetKey(mem[p], "outcome:state", "completed"), "feedback", "release")
  /\ UNCHANGED <<world, lock, job>>

\* One discovery at a time; the one that is started goes first.
NextFeedback(m) ==
  LET open == {d \in Discoveries : m.feedback[d] # "completed"}
      started == {d \in open : m.feedback[d] = "started"}
  IN IF started # {} THEN started ELSE open

BeginFeedback(p) ==
  LET m == mem[p]
  IN /\ At(p, "feedback")
     /\ \/ NextFeedback(m) = {} /\ Jump(p, "roadmap")
        \/ \E d \in NextFeedback(m) :
             IF m.feedback[d] = "started"
             THEN Jump(p, "feedbackSend")
             ELSE Persist(p, [m EXCEPT !.feedback[d] = "started"], "feedbackSend", "release")
     /\ UNCHANGED <<world, lock, job>>

SendFeedback(p) ==
  /\ At(p, "feedbackSend")
  /\ \E d \in NextFeedback(mem[p]) :
       LET sent == [kernel EXCEPT ![Cyc(p)].feedback = @ \cup {d}]
       IN \/ kernel' = sent /\ Continue(p, "feedbackSave")
          \/ kernel' \in {kernel, sent} /\ Raise(p, "release")
  /\ UNCHANGED <<doc, mem, backlog, files, calls, latest, lock, job>>

SaveFeedback(p) ==
  /\ At(p, "feedbackSave")
  /\ \E d \in NextFeedback(mem[p]) :
       Persist(p, [mem[p] EXCEPT !.feedback[d] = "completed"], "feedback", "release")
  /\ UNCHANGED <<world, lock, job>>

-----------------------------------------------------------------------------
(* The roadmap: regenerate it, snapshot it, record its digest. *)

\* Mutant: a synchronisation that was started passes for a finished one.
RoadmapBegun(m) == m.key["roadmap:sync"] # "none"

RoadmapSynced(m) == m.key["roadmap:sync"] = "completed"

BeginRoadmap(p) ==
  LET m == mem[p]
  IN /\ At(p, "roadmap")
     /\ IF RoadmapSynced(m)
        THEN Jump(p, "roadmapCheck")
        ELSE Persist(p, SetKey(m, "roadmap:sync", "started"), "roadmapSync", "release")
     /\ UNCHANGED <<world, lock, job>>

\* Sync renders the backlog as it is now.  Its error is undone in the
\* document; an unusable digest or unreadable roadmap only ends the handler.
SyncRoadmap(p) ==
  LET c == Cyc(p)
      view == IF backlog[c].closed THEN "closed" ELSE "open"
      synced == [backlog EXCEPT ![c].roadmap = view]
  IN /\ At(p, "roadmapSync")
     /\ \/ backlog' = synced /\ Continue(p, "roadmapWrite")
        \/ backlog' = synced /\ Raise(p, "release")
        \/ backlog' \in {backlog, synced} /\ Raise(p, "roadmapUndo")
     /\ UNCHANGED <<doc, mem, kernel, files, calls, latest, lock, job>>

UndoRoadmap(p) ==
  /\ At(p, "roadmapUndo")
  /\ Persist(p, SetKey(mem[p], "roadmap:sync", "none"), "release", "release")
  /\ UNCHANGED <<world, lock, job>>

WriteRoadmap(p) ==
  LET written == [files EXCEPT ![Cyc(p)].roadmap = backlog[Cyc(p)].roadmap]
  IN /\ At(p, "roadmapWrite")
     /\ \/ files' = written /\ Continue(p, "roadmapSave")
        \/ files' \in {files, written} /\ Raise(p, "release")
     /\ UNCHANGED <<doc, mem, kernel, backlog, calls, latest, lock, job>>

SaveRoadmap(p) ==
  LET recorded == [mem[p] EXCEPT !.roadmap = files[Cyc(p)].roadmap]
  IN /\ At(p, "roadmapSave")
     /\ Persist(p, SetKey(recorded, "roadmap:sync", "completed"), "roadmapCheck", "release")
     /\ UNCHANGED <<world, lock, job>>

\* validateRoadmapArtifact
CheckRoadmap(p) ==
  /\ At(p, "roadmapCheck")
  /\ IF files[Cyc(p)].roadmap = mem[p].roadmap
     THEN Jump(p, "terminalize")
     ELSE Jump(p, "release")
  /\ UNCHANGED <<world, lock, job>>

-----------------------------------------------------------------------------
(* terminalizeRun: advance phase by phase until the run is completed.  The *)
(* code's loop over the remaining phases is this step taken again.         *)

TerminalKey == [ph \in Phases \ {"observe"} |->
                  CHOOSE k \in TerminalKeys : Target[k] = ph]

Terminalize(p) ==
  LET m == mem[p]
      phase == kernel[Cyc(p)].phase
      next == IF m.stage = "completed" /\ Signed(m) THEN "release" ELSE "receipt"
  IN /\ At(p, "terminalize")
     /\ \/ /\ phase = "compound"
           /\ IF m.key["run:terminal"] = "completed"
              THEN Jump(p, next)
              ELSE Persist(p, SetKey(m, "run:terminal", "completed"), next, "release")
           /\ UNCHANGED job
        \/ /\ phase \in Phases \ {"compound"}
           /\ Advance(p, TerminalKey[NextPhase[phase]], "terminalize")
           /\ UNCHANGED <<doc, mem>>
        \/ phase \notin Phases /\ Jump(p, "release") /\ UNCHANGED job
        \/ Raise(p, "release") /\ UNCHANGED <<doc, mem, job>>
     /\ UNCHANGED <<world, lock>>

-----------------------------------------------------------------------------
(* finalizeReceipt, emitOrRecoverReceipt and acceptReceipt. *)

\* Mutant: the receipt shows the stage the cycle is still in.
ContentInProgress(m) ==
  SetKey([m EXCEPT !.signed = 0, !.digest = 0, !.events = @ \ {"completed"}],
         "receipt:attempt", "none")

\* receipt.Build: the cycle as the receipt shows it, its terminal stage in
\* place and everything the signing itself will still change left out.
Content(m) ==
  SetKey([m EXCEPT !.stage = IF @ = "failed" THEN "failed" ELSE "completed",
                   !.signed = 0, !.digest = 0, !.events = @ \ {"completed"}],
         "receipt:attempt", "none")

ReceiptOpen(m) == m.key["receipt:attempt"] \notin {"started", "completed"}
ReceiptSettled(m) == Signed(m) /\ m.key["receipt:attempt"] = "completed"

\* Each build carries a fresh terminal time, so its digest is a new one.
BuildReceipt(p) ==
  LET c == Cyc(p)
      m == mem[p]
      built == [files EXCEPT ![c].receipt = Content(m), ![c].digest = @ + 1]
  IN /\ At(p, "receipt")
     /\ \/ ReceiptSettled(m) /\ Continue(p, "complete") /\ UNCHANGED files
        \/ /\ ~ReceiptSettled(m) /\ ~ReceiptOpen(m) /\ files[c].digest = m.digest
           /\ Continue(p, IF files[c].signature # 0 THEN "accept" ELSE "emit")
           /\ UNCHANGED files
        \/ /\ ~ReceiptSettled(m) /\ ~ReceiptOpen(m) /\ files[c].digest # m.digest
           /\ Continue(p, "release") /\ UNCHANGED files
        \/ ~ReceiptSettled(m) /\ ~ReceiptOpen(m) /\ Raise(p, "release") /\ UNCHANGED files
        \/ ReceiptOpen(m) /\ files' = built /\ Continue(p, "receiptSave")
        \/ ReceiptOpen(m) /\ files' \in {files, built} /\ Raise(p, "release")
     /\ UNCHANGED <<doc, mem, kernel, backlog, calls, latest, lock, job>>

\* Mutant: the digest of the content is not recorded with the claim.
SaveReceiptUnbound(p) ==
  /\ At(p, "receiptSave")
  /\ Persist(p, SetKey(mem[p], "receipt:attempt", "started"), "emit", "release")
  /\ UNCHANGED <<world, lock, job>>

SaveReceipt(p) ==
  LET claimed == [mem[p] EXCEPT !.digest = files[Cyc(p)].digest]
  IN /\ At(p, "receiptSave")
     /\ Persist(p, SetKey(claimed, "receipt:attempt", "started"), "emit", "release")
     /\ UNCHANGED <<world, lock, job>>

\* FindReceipt: the ledger's receipts for this content, oldest first.
Receipts(c, digest) == {i \in 1..Len(kernel[c].ledger) : kernel[c].ledger[i] = digest}

\* Mutant: the document decides, not the ledger.
EmitUnlessSigned(c, m) == ~Signed(m)

MustEmit(c, m) == Receipts(c, m.digest) = {}

FindReceipt(p) ==
  /\ At(p, "emit")
  /\ \/ Jump(p, IF MustEmit(Cyc(p), mem[p]) THEN "emitSend" ELSE "accept")
     \/ Raise(p, "release") /\ UNCHANGED <<doc, mem>>
  /\ UNCHANGED <<world, lock, job>>

\* An emission reported as failed is looked up once more.
EmitReceipt(p) ==
  LET emitted == [kernel EXCEPT ![Cyc(p)].ledger = Append(@, mem[p].digest)]
  IN /\ At(p, "emitSend")
     /\ \/ kernel' = emitted /\ Continue(p, "accept")
        \/ kernel' = emitted /\ \E l \in {"accept", "release"} : Raise(p, l)
        \/ Raise(p, "release") /\ UNCHANGED kernel
     /\ UNCHANGED <<doc, mem, backlog, files, calls, latest, lock, job>>

\* The identity in the local signature, or else the one Intercore has for
\* the content, is accepted only if it is the receipt of this content and
\* contradicts no identity accepted before.
MayAccept(m, id, exact) == id \in exact /\ m.signed \in {0, id}

AcceptReceipt(p) ==
  LET c == Cyc(p)
      m == mem[p]
      exact == Receipts(c, m.digest)
      id == IF files[c].signature # 0 THEN files[c].signature
            ELSE CHOOSE i \in exact : \A j \in exact : i <= j
      accepted == [files EXCEPT ![c].signature = id]
  IN /\ At(p, "accept")
     /\ \/ ~MayAccept(m, id, exact) /\ Continue(p, "release") /\ UNCHANGED files
        \/ MayAccept(m, id, exact) /\ files' = accepted /\ Continue(p, "acceptSave")
        \/ MayAccept(m, id, exact) /\ files' \in {files, accepted} /\ Raise(p, "release")
     /\ UNCHANGED <<doc, mem, kernel, backlog, calls, latest, lock, job>>

SaveSignature(p) ==
  LET signed == [mem[p] EXCEPT !.signed = files[Cyc(p)].signature]
  IN /\ At(p, "acceptSave")
     /\ Persist(p, SetKey(signed, "receipt:attempt", "completed"), "complete", "release")
     /\ UNCHANGED <<world, lock, job>>

Complete(p) ==
  /\ At(p, "complete")
  /\ IF mem[p].stage = "compounding"
     THEN Transition(p, mem[p], "completed", "release")
     ELSE Jump(p, "release") /\ UNCHANGED job
  /\ UNCHANGED <<world, lock>>

CompoundStep(p) ==
  \/ BeginCompound(p) \/ DispatchCompound(p)
  \/ FindPromotion(p) \/ CreatePromotion(p) \/ SavePromotion(p)
  \/ CloseExperiment(p) \/ SaveClosed(p)
  \/ RecordOutcome(p) \/ SaveOutcome(p)
  \/ BeginFeedback(p) \/ SendFeedback(p) \/ SaveFeedback(p)
  \/ BeginRoadmap(p) \/ SyncRoadmap(p) \/ UndoRoadmap(p) \/ WriteRoadmap(p)
  \/ SaveRoadmap(p) \/ CheckRoadmap(p)
  \/ Terminalize(p)
  \/ BuildReceipt(p) \/ SaveReceipt(p) \/ FindReceipt(p) \/ EmitReceipt(p) \/ AcceptReceipt(p)
  \/ SaveSignature(p) \/ Complete(p)
=============================================================================
