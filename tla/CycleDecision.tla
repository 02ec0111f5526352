---------------------------- MODULE CycleDecision ---------------------------
(***************************************************************************)
(* The principal's decision on a proposed experiment: Service.Approve and  *)
(* Service.Decline.  Both run under the lock on the copy read there; the   *)
(* write-only files approval.json and decline.json are not kept.           *)
(***************************************************************************)
EXTENDS CycleService

\* Approve accepts an approved cycle as it is, whoever asks again.
AlreadyApproved(m) == m.stage = "approved" /\ m.approved

MayApprove(m) == m.stage = "awaiting_approval" /\ m.judged = "select"

Approve(p) ==
  LET m == mem[p]
  IN /\ At(p, "approve")
     /\ \/ (AlreadyApproved(m) \/ ~MayApprove(m)) /\ Jump(p, "release") /\ UNCHANGED job
        \/ /\ ~AlreadyApproved(m) /\ MayApprove(m)
           /\ \/ Transition(p, [m EXCEPT !.approved = TRUE], "approved", "release")
              \/ Raise(p, "release") /\ UNCHANGED <<doc, mem, job>>
     /\ UNCHANGED <<world, lock>>

-----------------------------------------------------------------------------
\* Mutant: a proposal may still be declined after its approval.
MayDeclineApproved(m) ==
  /\ m.stage \in {"awaiting_approval", "approved", "declined"}
  /\ m.judged = "select" /\ m.bead

\* A finished decline, and a stage or evidence that admits none, end here.
MayDecline(m) ==
  m.stage \in {"awaiting_approval", "declined"} /\ m.judged = "select" /\ m.bead

\* Decline up to the decision record, which is persisted before the stage
\* changes.  A principal whose actor or reason differs from the recorded
\* ones is refused, as is a failing write of decline.json.
Decline(p) ==
  LET m == mem[p]
      conflict == m.declined /\ job[p].got = "other"
      admitted == ~conflict /\ MayDecline(m)
  IN /\ At(p, "decline")
     /\ \/ ~admitted /\ Jump(p, "release")
        \/ admitted /\ m.declined /\ Jump(p, "declineStage")
        \/ /\ admitted /\ ~m.declined
           /\ \/ Persist(p, [m EXCEPT !.declined = TRUE], "declineStage", "release")
              \/ Raise(p, "release") /\ UNCHANGED <<doc, mem>>
     /\ UNCHANGED <<world, lock, job>>

EnterDeclined(p) ==
  /\ At(p, "declineStage")
  /\ IF mem[p].stage = "awaiting_approval"
     THEN Transition(p, mem[p], "declined", "declineClose")
     ELSE Jump(p, "declineClose") /\ UNCHANGED job
  /\ UNCHANGED <<world, lock>>

\* The experiment is closed unless the backlog shows it closed already.
CloseDeclined(p) ==
  LET c == Cyc(p)
      closed == [backlog EXCEPT ![c].closed = TRUE]
      done == mem[p].key["decline:close"] = "completed"
  IN /\ At(p, "declineClose")
     /\ \/ done /\ Continue(p, "declineDone") /\ UNCHANGED backlog
        \/ ~done /\ backlog[c].closed /\ Continue(p, "declineSave") /\ UNCHANGED backlog
        \/ ~done /\ ~backlog[c].closed /\ backlog' = closed /\ Continue(p, "declineSave")
        \/ ~done /\ backlog' \in {backlog, closed} /\ Raise(p, "release")
     /\ UNCHANGED <<doc, mem, kernel, files, calls, latest, lock, job>>

SaveDeclineClosed(p) ==
  /\ At(p, "declineSave")
  /\ Persist(p, SetKey(mem[p], "decline:close", "completed"), "declineDone", "release")
  /\ UNCHANGED <<world, lock, job>>

CompleteDeclined(p) ==
  /\ At(p, "declineDone")
  /\ Transition(p, mem[p], "completed", "release")
  /\ UNCHANGED <<world, lock>>

DecisionStep(p) ==
  \/ Approve(p) \/ Decline(p) \/ EnterDeclined(p)
  \/ CloseDeclined(p) \/ SaveDeclineClosed(p) \/ CompleteDeclined(p)
=============================================================================
