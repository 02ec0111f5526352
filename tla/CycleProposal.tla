---------------------------- MODULE CycleProposal ---------------------------
(***************************************************************************)
(* Service.ResumeProposal and ensureProposal: one experiment bead per      *)
(* fingerprint in the whole backlog, or a cycle that ends as a no-op with  *)
(* the backlog it was a duplicate of in a registered snapshot.             *)
(***************************************************************************)
EXTENDS CycleService

CONSTANT Fingerprint  \* the fingerprint of the candidate each cycle selects

ASSUME FingerprintAssumption == DOMAIN Fingerprint = Cycles

ResumeProposal(p) ==
  /\ At(p, "propose")
  /\ Jump(p, IF mem[p].stage \in {"ranked", "proposed"} THEN "proposal" ELSE "release")
  /\ UNCHANGED <<world, lock, job>>

\* A snapshot on disk decides the matter as it did when it was taken.
LoadSnapshot(p) ==
  LET m == mem[p]
  IN /\ At(p, "proposal")
     /\ \/ m.judged # "select" /\ Jump(p, "release")
        \/ /\ m.judged = "select" /\ files[Cyc(p)].backlog
           /\ Persist(p, m, "snapshotRegister", "release")
        \/ m.judged = "select" /\ ~files[Cyc(p)].backlog /\ Jump(p, "proposalList")
        \/ Raise(p, "release") /\ UNCHANGED <<doc, mem>>
     /\ UNCHANGED <<world, lock, job>>

\* Backlog.List: this cycle's own experiment, else one with its fingerprint,
\* made by another cycle or by anybody else, else none.
ExperimentExists(c) == backlog[c].experiments > 0
\* Mutant: the backlog is asked for open issues only.
OpenSiblingExists(c) ==
  \E d \in Cycles \ {c} :
    Fingerprint[d] = Fingerprint[c] /\ ExperimentExists(d) /\ ~backlog[d].closed

SiblingExists(c) ==
  \E d \in Cycles \ {c} : Fingerprint[d] = Fingerprint[c] /\ ExperimentExists(d)

ListBacklog(p) ==
  LET c == Cyc(p)
      m == mem[p]
      existing == ExperimentExists(c)
  IN /\ At(p, "proposalList")
     /\ \/ /\ existing
           /\ Remember(p, [m EXCEPT !.bead = TRUE])
           /\ Continue(p, IF m.stage = "ranked" THEN "proposeAdvance" ELSE "awaitEnter")
        \/ ~existing /\ Continue(p, "snapshotWrite") /\ UNCHANGED mem
        \/ /\ ~existing /\ ~SiblingExists(c)
           /\ Continue(p, IF m.stage = "ranked" THEN "proposalCreate" ELSE "release")
           /\ UNCHANGED mem
        \/ Raise(p, "release") /\ UNCHANGED mem
     /\ UNCHANGED <<doc, world, lock, job>>

\* Mutant: the error of bd create is ignored.
CreateExperimentUnchecked(p) ==
  /\ At(p, "proposalCreate")
  /\ \/ backlog' = [backlog EXCEPT ![Cyc(p)].experiments = @ + 1] /\ UNCHANGED faults
     \/ UNCHANGED backlog /\ faults < MaxFaults /\ faults' = faults + 1
  /\ Remember(p, [mem[p] EXCEPT !.bead = TRUE])
  /\ Goto(p, "proposeAdvance")
  /\ UNCHANGED <<doc, kernel, files, calls, latest, lock, job>>

CreateExperiment(p) ==
  LET created == [backlog EXCEPT ![Cyc(p)].experiments = @ + 1]
  IN /\ At(p, "proposalCreate")
     /\ \/ /\ backlog' = created
           /\ Remember(p, [mem[p] EXCEPT !.bead = TRUE])
           /\ Continue(p, "proposeAdvance")
        \/ backlog' \in {backlog, created} /\ Raise(p, "release") /\ UNCHANGED mem
     /\ UNCHANGED <<doc, kernel, files, calls, latest, lock, job>>

\* Mutant: the run is not advanced with the cycle.
SkipAdvanceToPropose(p) ==
  /\ At(p, "proposeAdvance")
  /\ Jump(p, "proposeEnter")
  /\ UNCHANGED <<world, lock, job>>

AdvanceToPropose(p) ==
  /\ At(p, "proposeAdvance")
  /\ Advance(p, "run:propose", "proposeEnter")
  /\ UNCHANGED <<doc, mem, world, lock>>

EnterProposed(p) ==
  /\ At(p, "proposeEnter")
  /\ Transition(p, mem[p], "proposed", "awaitEnter")
  /\ UNCHANGED <<world, lock>>

EnterAwaitingApproval(p) ==
  /\ At(p, "awaitEnter")
  /\ Transition(p, mem[p], "awaiting_approval", "release")
  /\ UNCHANGED <<world, lock>>

-----------------------------------------------------------------------------
(* captureProposalBacklogSnapshot and registerProposalBacklogSnapshot.      *)

WriteSnapshot(p) ==
  LET written == [files EXCEPT ![Cyc(p)].backlog = TRUE]
  IN /\ At(p, "snapshotWrite")
     /\ \/ files' = written /\ Continue(p, "snapshotSave")
        \/ files' \in {files, written} /\ Raise(p, "release")
     /\ UNCHANGED <<doc, mem, kernel, backlog, calls, latest, lock, job>>

SaveSnapshot(p) ==
  /\ At(p, "snapshotSave")
  /\ Persist(p, mem[p], "snapshotRegister", "release")
  /\ UNCHANGED <<world, lock, job>>

ClaimSnapshot(p) ==
  LET m == mem[p]
      attempt == m.key["replay:proposal-backlog"]
  IN /\ At(p, "snapshotRegister")
     /\ \/ attempt = "completed" /\ Jump(p, "noop")
        \/ attempt = "started" /\ Jump(p, "release")
        \/ /\ attempt = "none"
           /\ Persist(p, SetKey(m, "replay:proposal-backlog", "started"), "snapshotSend", "release")
     /\ UNCHANGED <<world, lock, job>>

SendSnapshot(p) ==
  LET sent == [kernel EXCEPT ![Cyc(p)].replays["proposal-backlog"] = @ + 1]
  IN /\ At(p, "snapshotSend")
     /\ \/ kernel' = sent /\ Continue(p, "snapshotDone")
        \/ kernel' \in {kernel, sent} /\ Raise(p, "release")
     /\ UNCHANGED <<doc, mem, backlog, files, calls, latest, lock, job>>

SaveRegistered(p) ==
  /\ At(p, "snapshotDone")
  /\ Persist(p, SetKey(mem[p], "replay:proposal-backlog", "completed"), "noop", "release")
  /\ UNCHANGED <<world, lock, job>>

-----------------------------------------------------------------------------
(* completeNoOp *)

EnterNoOp(p) ==
  /\ At(p, "noop")
  /\ Transition(p, mem[p], "no_op", "noopComplete")
  /\ UNCHANGED <<world, lock>>

CompleteNoOp(p) ==
  /\ At(p, "noopComplete")
  /\ Transition(p, mem[p], "completed", "release")
  /\ UNCHANGED <<world, lock>>

ProposalStep(p) ==
  \/ ResumeProposal(p) \/ LoadSnapshot(p) \/ ListBacklog(p) \/ CreateExperiment(p)
  \/ AdvanceToPropose(p) \/ EnterProposed(p) \/ EnterAwaitingApproval(p)
  \/ WriteSnapshot(p) \/ SaveSnapshot(p) \/ ClaimSnapshot(p) \/ SendSnapshot(p)
  \/ SaveRegistered(p) \/ EnterNoOp(p) \/ CompleteNoOp(p)
=============================================================================
