----------------------------- MODULE Remontoire -----------------------------
(***************************************************************************)
(* The whole program: the commands of internal/app over the operations of  *)
(* internal/cycle.  Invocations run concurrently, possibly on the same     *)
(* cycle; any of them may crash between two steps.                         *)
(***************************************************************************)
EXTENDS CycleObservation, CycleProposal, CycleDecision, CycleExecution,
        CycleReview, CycleCompound

CONSTANT Decisions  \* what the principal may do: a subset of approve, decline

ASSUME DecisionsAssumption == Decisions \subseteq {"approve", "decline"}

Invoke(p, op, c, input, l) ==
  /\ Continue(p, l)
  /\ job' = [job EXCEPT ![p] = [NoJob EXCEPT !.op = op, !.cyc = c, !.got = input]]

\* Mutant: remontoire.latest is set before the lock is asked for.
RunCycleEarly(p, c) ==
  /\ At(p, "idle") /\ doc[c].stage = Absent /\ \A q \in Procs : Cyc(q) # c
  /\ Invoke(p, "start", c, "none", "acquire")
  /\ latest' = c
  /\ UNCHANGED <<doc, mem, kernel, backlog, files, calls, lock>>

\* remontoire cycle.  The identifier is drawn at random, so no other
\* invocation works under it.
RunCycle(p, c) ==
  /\ At(p, "idle") /\ doc[c].stage = Absent /\ \A q \in Procs : Cyc(q) # c
  /\ Invoke(p, "start", c, "none", "acquire")
  /\ UNCHANGED <<doc, mem, world, lock>>

\* remontoire approve and remontoire decline.  A decline may come with
\* another actor or reason than the one recorded before.
RunDecision(p, c) ==
  /\ At(p, "idle") /\ doc[c].stage # Absent
  /\ \E op \in Decisions, terms \in {"none", "other"} :
       /\ op = "approve" => terms = "none"
       /\ Invoke(p, op, c, terms, "acquire")
  /\ UNCHANGED <<doc, mem, world, lock>>

\* Mutant: a failed cycle is left as it is.
AwaitsSigningOnceComplete(d) == d.stage = "completed" /\ ~Signed(d)

\* finished: terminal, but without its receipt.
AwaitsSigning(d) == d.stage \in {"failed", "completed"} /\ ~Signed(d)

\* The operation with which runResume continues a cycle in each stage.  One
\* round of its loop is one invocation here, and so is the Compound with
\* which cycle, decline and signFailedCycle end.
Route(d) ==
  CASE d.stage \in {"new", "observing", "ranked"}  -> "observe"
    [] d.stage = "proposed"                        -> "propose"
    [] d.stage \in {"approved", "executing"}       -> "execute"
    [] d.stage = "reviewing"                       -> "review"
    [] d.stage \in {"compounding", "no_op"}        -> "compound"
    [] AwaitsSigning(d)                            -> "compound"
    [] d.stage = "declined" /\ d.declined          -> "decline"
    [] OTHER                                       -> "none"

RunResume(p, c) ==
  LET op == Route(doc[c])
  IN /\ At(p, "idle") /\ op # "none"
     /\ Invoke(p, op, c, "none",
               IF op \in {"execute", "review", "compound"} THEN "check" ELSE "acquire")
     /\ UNCHANGED <<doc, mem, world, lock>>

\* Execute, Review and Compound look at the stage before they take the lock.
Ready(op, d) ==
  CASE op = "execute" -> ExecuteReady(d)
    [] op = "review"  -> ReviewReady(d)
    [] OTHER          -> CompoundReady(d)

Precheck(p) ==
  /\ At(p, "check")
  /\ \/ Ready(job[p].op, doc[Cyc(p)]) /\ Continue(p, "acquire") /\ UNCHANGED job
     \/ /\ ~Ready(job[p].op, doc[Cyc(p)])
        /\ Continue(p, "idle")
        /\ job' = [job EXCEPT ![p] = NoJob]
     \/ Raise(p, "idle") /\ job' = [job EXCEPT ![p] = NoJob]
  /\ UNCHANGED <<doc, mem, world, lock>>

\* A step of an invocation that is under way.
Step(p) ==
  \/ Precheck(p) \/ ServiceStep(p)
  \/ ObservationStep(p) \/ ProposalStep(p) \/ DecisionStep(p)
  \/ ExecutionStep(p) \/ ReviewStep(p) \/ CompoundStep(p)

Command(p) == \E c \in Cycles : RunCycle(p, c) \/ RunDecision(p, c) \/ RunResume(p, c)

Init == ServiceInit

Next ==
  \/ \E p \in Procs : Command(p) \/ Step(p) \/ Crash(p)
  \/ ReclaimLock

Spec == Init /\ [][Next]_vars

\* An invocation that runs takes its next step; a cycle left unfinished is
\* resumed again and again; the lock of a dead invocation is reclaimed.
Resume(p) == \E c \in Cycles : RunResume(p, c)
Fairness ==
  /\ \A p \in Procs : WF_vars(Step(p)) /\ SF_vars(Resume(p))
  /\ WF_vars(ReclaimLock)

FairSpec == Spec /\ Fairness
=============================================================================
