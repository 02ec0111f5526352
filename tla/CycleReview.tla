----------------------------- MODULE CycleReview ----------------------------
(***************************************************************************)
(* Service.Review: one independent review of the execution evidence and    *)
(* its deterministic resolution.  A review is a verdict, or "uncited" when *)
(* it is well formed but cites evidence that matches no artifact.          *)
(***************************************************************************)
EXTENDS CycleService

\* Review's check of the document it reads before it asks for the lock.
ReviewReady(d) ==
  \/ d.stage = "reviewing"
  \/ d.stage = "compounding" /\ d.final # "none"

\* The review already led on, or the execution evidence is incomplete.
ReviewSettled(m) == m.stage = "compounding" /\ m.final # "none"
ReviewEvidence(m) == m.judged = "select" /\ m.execution /\ m.measured # "none"

\* Reuse the completed review, recover one from disk, or open the attempt.
\* Artifacts that fail their check fail the cycle, a missing reviewer does not.
ClaimReview(p) ==
  LET m == mem[p]
      attempt == m.key["review:attempt"]
      found == files[Cyc(p)].review
      reusable == attempt = "completed" /\ m.review # "none" /\ m.final # "none"
  IN /\ At(p, "review")
     /\ \/ (ReviewSettled(m) \/ ~ReviewEvidence(m)) /\ Jump(p, "release") /\ UNCHANGED job
        \/ /\ ~ReviewSettled(m) /\ ReviewEvidence(m)
           /\ \/ ~m.approved /\ Jump(p, "fail") /\ UNCHANGED job
              \/ /\ m.approved /\ \E l \in {"fail", "release"} : Raise(p, l)
                 /\ UNCHANGED <<doc, mem, job>>
              \/ m.approved /\ reusable /\ Jump(p, "resolve") /\ Got(p, m.review)
              \/ /\ m.approved /\ attempt = "started"
                 /\ IF found \in {"none", "invalid"}
                    THEN Jump(p, "release") /\ UNCHANGED job
                    ELSE \/ Jump(p, "resolve") /\ Got(p, found)
                         \/ Raise(p, "release") /\ UNCHANGED <<doc, mem, job>>
              \/ /\ m.approved /\ ~reusable /\ attempt # "started"
                 /\ Persist(p, SetKey(m, "review:attempt", "started"), "reviewer", "release")
                 /\ UNCHANGED job
     /\ UNCHANGED <<world, lock>>

\* The reviewer runs; like the executor it may write its output file itself.
InvokeReviewer(p) ==
  LET c == Cyc(p)
  IN /\ At(p, "reviewer")
     /\ calls' = [calls EXCEPT ![c].reviewer = @ + 1]
     /\ \/ \E verdict \in Verdicts \cup {"uncited"} :
             /\ files' \in {files, [files EXCEPT ![c].review = verdict]}
             /\ Continue(p, "reviewWrite")
             /\ Got(p, verdict)
        \/ \E left \in Verdicts \cup {"uncited", "invalid", "none"} :
             /\ files' = [files EXCEPT ![c].review = left]
             /\ Continue(p, "fail")
             /\ UNCHANGED job
     /\ UNCHANGED <<doc, mem, kernel, backlog, latest, lock>>

WriteReview(p) ==
  LET written == [files EXCEPT ![Cyc(p)].review = job[p].got]
  IN /\ At(p, "reviewWrite")
     /\ \/ files' = written /\ Continue(p, "resolve")
        \/ files' \in {files, written} /\ Raise(p, "fail")
     /\ UNCHANGED <<doc, mem, kernel, backlog, calls, latest, lock, job>>

\* Mutant: citations are not compared with the artifacts.
UncitedHolds(m, review) == review = "promote" => m.transcript

\* Mutant: promotion needs no transcript.
AnyCitationHolds(m, review) == review # "uncited"

\* validateReviewEvidence: every citation matches an artifact, and promotion
\* cites the executor's transcript too.
EvidenceHolds(m, review) ==
  review # "uncited" /\ (review = "promote" => m.transcript)

Resolve(p) ==
  LET m == mem[p]
      review == job[p].got
      resolved == [m EXCEPT !.review = review,
                            !.final = IF @ = "none" THEN FinalVerdict(review, m.measured) ELSE @]
  IN /\ At(p, "resolve")
     /\ \/ ~EvidenceHolds(m, review) /\ Jump(p, "fail")
        \/ EvidenceHolds(m, review) /\ Raise(p, "fail") /\ UNCHANGED <<doc, mem>>
        \/ /\ EvidenceHolds(m, review)
           /\ Persist(p, SetKey(resolved, "review:attempt", "completed"),
                      "compoundAdvance", "release")
     /\ UNCHANGED <<world, lock, job>>

AdvanceToCompound(p) ==
  /\ At(p, "compoundAdvance")
  /\ Advance(p, "run:compound", "compoundEnter")
  /\ UNCHANGED <<doc, mem, world, lock>>

EnterCompounding(p) ==
  /\ At(p, "compoundEnter")
  /\ Transition(p, mem[p], "compounding", "release")
  /\ UNCHANGED <<world, lock>>

ReviewStep(p) ==
  \/ ClaimReview(p) \/ InvokeReviewer(p) \/ WriteReview(p) \/ Resolve(p)
  \/ AdvanceToCompound(p) \/ EnterCompounding(p)
=============================================================================
