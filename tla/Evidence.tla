------------------------------ MODULE Evidence ------------------------------
(***************************************************************************)
(* The evidence of one cycle: the artifact files under its directory, the  *)
(* artifacts recorded in its document with their digests, and the receipt, *)
(* as every operation of the service writes, records and restores them,    *)
(* with a crash or a failed call anywhere; and the offline replay of the   *)
(* signed receipt.                                                         *)
(*                                                                         *)
(* The operations run one at a time under the portfolio lock (Remontoire   *)
(* shows that).  Each is a plan: a claim that is recorded before the work, *)
(* the work, what a later command does when the claim is found on record,  *)
(* and what an error leads to.  A digest is a number, one per content of a *)
(* kind of file; the files behind one call (the components of an           *)
(* observation, the two streams of a benchmark) are one kind.  Transitions *)
(* that touch no evidence are taken together with the next record.         *)
(*                                                                         *)
(* Execute and Review look at the stage before they have the lock and not  *)
(* again behind it, so one that waited may still run on a cycle that has   *)
(* failed meanwhile (Outrun).                                              *)
(***************************************************************************)
EXTENDS Integers, Sequences, SequencesExt, FiniteSets

CONSTANTS
  MaxFaults,  \* bound: failed calls and crashes
  MaxOutrun   \* bound: sections taken up on a failed cycle

Kinds == {"components", "observation", "attempt", "judgment", "proposal-backlog",
          "approval", "decline", "report", "patch", "transcript", "streams",
          "measurement", "material", "review", "outcome", "roadmap", "receipt",
          "signature"}
Sections == {"capture", "judge", "no-op", "duplicate", "propose", "approve",
             "decline", "declined", "execute", "benchmark", "review", "outcome",
             "roadmap", "receipt"}
Required == {"patch", "report", "transcript", "measurement"}

VARIABLES
  mode,      \* proposal or shadow
  doc, mem,  \* the canonical document; the command's copy of it
  disk,      \* kind -> digest of its file, 0 without one
  bound,     \* digest of the components observation.json names
  choice,    \* what judgment.json decides: none, noop, select
  receipt,   \* the document receipt.json shows
  pc,        \* idle, claim, work
  sec, todo, \* the section under way, and what is left of it
  outrun,    \* history: the sections a command took up although the cycle had failed
  faults

vars == <<mode, doc, mem, disk, bound, choice, receipt, pc, sec, todo, outrun, faults>>

NewDoc ==
  [stage |-> "observing", list |-> <<>>, mark |-> [s \in Sections |-> "none"],
   judgment |-> 0, candidate |-> FALSE, reason |-> "none", declined |-> FALSE,
   verdict |-> "none", cites |-> {}, roadmap |-> 0, content |-> 0, signed |-> FALSE]

Init ==
  /\ mode \in {"proposal", "shadow"}
  /\ doc = NewDoc /\ mem = NewDoc /\ receipt = NewDoc
  /\ disk = [k \in Kinds |-> 0]
  /\ bound = 0 /\ choice = "none"
  /\ pc = "idle" /\ sec = "none" /\ todo = <<>>
  /\ outrun = <<>> /\ faults = 0

-----------------------------------------------------------------------------
(* Artifacts. *)

Artifact(k, digest) == [kind |-> k, digest |-> digest]
Of(list, k) == {a \in ToSet(list) : a.kind = k}
Has(list, k) == Of(list, k) # {}
Count(list, k) == Cardinality({i \in DOMAIN list : list[i].kind = k})
Digest(list, k) == (CHOOSE a \in Of(list, k) : TRUE).digest

AppendArtifact(list, a) == IF a \in ToSet(list) THEN list ELSE Append(list, a)

(* ensureCanonicalArtifactBinding *)
Binds(list, k, digest) ==
  Count(list, k) =< 1 /\ \A a \in Of(list, k) : a.digest = digest

(* The artifact of a kind, if it is the only one and still on disk. *)
Intact(list, k) == Count(list, k) = 1 /\ disk[k] = Digest(list, k)

-----------------------------------------------------------------------------
(* The plans.  <<"write", k>> writes the file of kind k, <<"note", k>>     *)
(* appends its artifact to the copy, "save" persists the copy, "late"      *)
(* persists it with a mark behind which the work is never repeated.        *)

W(k) == <<"write", k>>
N(k) == <<"note", k>>
Save == <<"save", "">>
Late == <<"late", "">>
Adopt == <<"adopt", "">>

(* claim: a started mark is persisted first, with what "before" wrote;     *)
(* found: the file that lets a later command go on with "rest";            *)
(* stuck: a started section without that file is repeated, fails the cycle *)
(* or stops the command; failing: which errors fail the cycle.             *)
Plan ==
  [claim |-> FALSE, before |-> <<>>, work |-> <<>>, found |-> "none",
   rest |-> <<>>, stuck |-> "repeat", failing |-> "none"]

Capture ==
  [Plan EXCEPT !.claim = TRUE,
    !.work = <<W("components"), W("observation"), N("components"), N("observation"), Late>>,
    !.found = "observation", !.rest = <<N("components"), N("observation"), Late>>,
    !.stuck = "fail", !.failing = "all"]

(* Every resume appends the artifacts of the observation again. *)
Judge ==
  [Plan EXCEPT !.claim = TRUE, !.before = <<N("components"), N("observation")>>,
    !.work = <<W("attempt"), N("attempt"), Save, W("judgment"), N("judgment"), Adopt>>,
    !.found = "judgment",
    !.rest = <<N("components"), N("observation"), N("judgment"), Adopt>>,
    !.stuck = "fail", !.failing = "all"]

(* A snapshot on disk is used before the backlog is listed again. *)
Duplicate ==
  [Plan EXCEPT !.work = <<W("proposal-backlog"), N("proposal-backlog"), Save, Late>>,
    !.found = "proposal-backlog", !.rest = <<N("proposal-backlog"), Save, Late>>,
    !.stuck = "stop"]

Approve == [Plan EXCEPT !.work = <<W("approval"), N("approval")>>]
Decline == [Plan EXCEPT !.work = <<W("decline"), N("decline")>>]

Execute ==
  [Plan EXCEPT !.claim = TRUE,
    !.work = <<W("report"), N("report"), W("patch"), N("patch"), W("transcript"), N("transcript")>>,
    !.found = "report", !.rest = <<N("report"), W("patch"), N("patch")>>,
    !.stuck = "stop", !.failing = "writes"]

Benchmark ==
  [Plan EXCEPT !.claim = TRUE,
    !.work = <<W("streams"), N("streams"), W("measurement"), N("measurement")>>,
    !.found = "measurement", !.rest = <<N("measurement"), N("streams")>>,
    !.stuck = "stop", !.failing = "writes"]

(* Mutant: a review that was started is asked for again. *)
ReviewAgain ==
  [Plan EXCEPT !.claim = TRUE, !.before = <<W("material"), N("material")>>,
    !.work = <<W("review"), N("review")>>, !.failing = "writes"]

Review ==
  [Plan EXCEPT !.claim = TRUE, !.before = <<W("material"), N("material")>>,
    !.work = <<W("review"), N("review")>>, !.found = "review", !.rest = <<N("review")>>,
    !.stuck = "stop", !.failing = "writes"]

Outcome == [Plan EXCEPT !.work = <<W("outcome"), N("outcome")>>]

Roadmap ==
  [Plan EXCEPT !.claim = TRUE, !.work = <<W("roadmap"), N("roadmap")>>]

Receipt ==
  [Plan EXCEPT !.claim = TRUE, !.before = <<W("receipt"), N("receipt")>>,
    !.work = <<N("receipt"), W("signature"), N("signature")>>, !.found = "receipt",
    !.rest = <<N("receipt"), W("signature"), N("signature")>>, !.stuck = "stop"]

PlanOf(s) ==
  CASE s = "capture" -> Capture
    [] s = "judge" -> Judge
    [] s = "duplicate" -> Duplicate
    [] s = "approve" -> Approve
    [] s = "decline" -> Decline
    [] s = "execute" -> Execute
    [] s = "benchmark" -> Benchmark
    [] s = "review" -> Review
    [] s = "outcome" -> Outcome
    [] s = "roadmap" -> Roadmap
    [] s = "receipt" -> Receipt
    [] OTHER -> Plan

(* Which section a command takes up that finds the cycle as it expects it. *)
Done(m, s) == m.mark[s] = "completed"
Routes(m) ==
  CASE m.stage = "observing" -> {IF Done(m, "capture") THEN "judge" ELSE "capture"}
    [] m.stage = "ranked" ->
         IF ~m.candidate \/ mode = "shadow" THEN {"no-op"}
         ELSE IF disk["proposal-backlog"] # 0 THEN {"duplicate"} ELSE {"duplicate", "propose"}
    [] m.stage = "awaiting" -> {"approve", IF m.declined THEN "declined" ELSE "decline"}
    [] m.stage = "approved" -> {IF Done(m, "execute") THEN "benchmark" ELSE "execute"}
    [] m.stage = "reviewing" -> {"review"}
    [] m.stage = "compounding" ->
         {IF ~Done(m, "outcome") THEN "outcome"
          ELSE IF ~Done(m, "roadmap") THEN "roadmap" ELSE "receipt"}
    [] OTHER -> IF m.signed THEN {} ELSE {"receipt"}

-----------------------------------------------------------------------------
(* What the operations check before they rely on evidence. *)

(* validateReviewProjection with validateCandidateProjection, and the      *)
(* rehash of buildReviewMaterial. *)
Projection(m) ==
  /\ m.candidate /\ choice = "select"
  /\ \A k \in {"judgment", "approval", "measurement"} : Intact(m.list, k)
  /\ m.judgment = disk["judgment"]
Rehashed(m) ==
  \A a \in ToSet(m.list) : a.kind \in Required \cup {"streams"} => disk[a.kind] = a.digest

(* Mutant: a promotion may rest on whatever evidence is cited. *)
AnyEvidence(m, verdict, cites) ==
  \A ref \in cites : ref \in ToSet(m.list) /\ disk[ref.kind] = ref.digest

(* validateReviewEvidence *)
EvidenceValid(m, verdict, cites) ==
  /\ \A ref \in cites : ref \in ToSet(m.list) /\ disk[ref.kind] = ref.digest
  /\ verdict = "promote" => Required \subseteq {ref.kind : ref \in cites}

(* promotionEvidence: one digest for each kind, none missing. *)
PromotionEvidence(m) ==
  /\ \A r, t \in m.cites : r.kind = t.kind => r.digest = t.digest
  /\ Required \subseteq {ref.kind : ref \in m.cites}

(* validateCompoundingEvidence, and promotionEvidence for a promotion. *)
CompoundEvidence(m) ==
  /\ Projection(m) /\ EvidenceValid(m, m.verdict, m.cites) /\ Intact(m.list, "review")
  /\ m.verdict = "promote" => PromotionEvidence(m)

RoadmapHolds(m) == Intact(m.list, "roadmap") /\ m.roadmap = Digest(m.list, "roadmap")

Admitted(m, s) ==
  /\ s = "review" => Projection(m) /\ (m.mark["review"] = "none" => Rehashed(m))
  /\ m.stage = "compounding" => CompoundEvidence(m)
  /\ s = "receipt" /\ m.stage = "compounding" => RoadmapHolds(m)
  /\ s = "receipt" /\ m.mark["receipt"] = "started" => disk["receipt"] = m.content

-----------------------------------------------------------------------------
(* Persisting, failing, ending. *)

Fault == faults < MaxFaults /\ faults' = faults + 1
Quiet == UNCHANGED faults
Stop == pc' = "idle" /\ sec' = "none" /\ todo' = <<>> /\ mem' = NewDoc
Go(place, s, steps, m) == pc' = place /\ sec' = s /\ todo' = steps /\ mem' = m
Files == <<disk, bound, choice, receipt>>

(* fail persists the copy as it is, on a context of its own. *)
FailWith(m) ==
  \/ doc' = [m EXCEPT !.stage = "failed"] /\ Stop /\ Quiet
  \/ UNCHANGED doc /\ Stop /\ Fault
Failed(m) == FailWith(m) /\ UNCHANGED <<mode, Files>>

(* An error of a call ends the command, or fails the cycle first. *)
Broken(m, fails) ==
  /\ Fault /\ Stop
  /\ doc' = IF fails THEN [m EXCEPT !.stage = "failed"] ELSE doc
  /\ UNCHANGED <<mode, Files>>

(* persist fails before or behind its effect, which is the copy itself. *)
Lost(m, fails) ==
  /\ Fault /\ Stop
  /\ doc' \in IF fails THEN {[m EXCEPT !.stage = "failed"]} ELSE {doc, m}
  /\ UNCHANGED <<mode, Files>>

SetMark(m, s, v) == [m EXCEPT !.mark[s] = v]

(* A command enters a section: it goes on with what it finds, starts it,   *)
(* or gives up.                                                            *)
Enter(s) ==
  LET plan == PlanOf(s)
      started == doc.mark[s] = "started" \/ ~plan.claim
      found == started /\ plan.found # "none" /\ disk[plan.found] # 0
      stuck == \/ doc.mark[s] = "late"
               \/ doc.mark[s] = "started" /\ ~found /\ plan.stuck # "repeat"
  IN \/ /\ ~Admitted(doc, s)
        /\ s = "review"
        /\ Failed(doc)
     \/ /\ Admitted(doc, s) /\ stuck /\ plan.stuck = "fail"
        /\ Failed(doc)
     \/ /\ Admitted(doc, s) /\ ~stuck
        /\ IF found THEN Go("work", s, plan.rest, doc)
           ELSE IF plan.claim THEN Go("claim", s, plan.before, doc)
           ELSE Go("work", s, plan.work, doc)
        /\ Quiet
        /\ UNCHANGED <<mode, doc, Files>>

TakeUp == pc = "idle" /\ \E s \in Routes(doc) : Enter(s)

(* What Execute and Review still do on a failed cycle, if they saw it      *)
(* approved, or in review, before they waited for the lock.  A command     *)
(* that executes and then measures does so in two of these steps.          *)
Overdue ==
  {s \in {"execute", "benchmark"} :
     /\ Done(doc, "approve") /\ ~Done(doc, s)
     /\ s = "benchmark" => Done(doc, "execute")}
  \cup {s \in {"review"} :
     Done(doc, "benchmark") /\ ToSet(outrun) \subseteq {"review"} /\ doc.verdict = "none"}

Outrun ==
  /\ pc = "idle" /\ doc.stage = "failed"
  /\ Len(outrun) < MaxOutrun
  /\ \E s \in Overdue : Enter(s) /\ outrun' = Append(outrun, s)

(* The mark of a claim, and with it the digest of the receipt. *)
Claimed ==
  LET m == IF sec = "receipt" THEN [mem EXCEPT !.content = disk["receipt"]] ELSE mem
  IN SetMark(m, sec, "started")

Claim ==
  /\ pc = "claim" /\ todo = <<>>
  /\ \/ /\ doc' = Claimed /\ Go("work", sec, PlanOf(sec).work, Claimed) /\ Quiet
        /\ UNCHANGED <<mode, Files>>
     \/ Lost(Claimed, PlanOf(sec).failing = "all")

-----------------------------------------------------------------------------
(* The steps of a plan. *)

Step(op) == pc \in {"claim", "work"} /\ todo # <<>> /\ todo[1][1] = op
Rest(m) == Go(pc, sec, Tail(todo), m)
Kind == todo[1][2]

(* filterAndSortArtifacts, for each length of a list: without the receipt  *)
(* and its signature.  The order of a list tells nothing here.             *)
Filtered(list) ==
  LET kept[i \in 0..Len(list)] ==
        IF i = 0 THEN <<>>
        ELSE IF list[i].kind \in {"receipt", "signature"} THEN kept[i - 1]
        ELSE Append(kept[i - 1], list[i])
  IN  kept

(* Mutant: a cycle that failed is shown as completed. *)
BuildCompleted(m) == [m EXCEPT !.stage = "completed", !.list = Filtered(@)[Len(@)]]
(* receipt.Build: the document in its terminal stage, without the receipt. *)
Build(m) ==
  [m EXCEPT !.stage = IF @ = "failed" THEN "failed" ELSE "completed", !.list = Filtered(@)[Len(@)]]

(* The outcome is rendered from the document alone; other files hold times *)
(* or answers, and are new whenever they are written.                      *)
Fresh(k) == IF k = "outcome" THEN 1 ELSE disk[k] + 1

Written(k) ==
  /\ disk' = [disk EXCEPT ![k] = Fresh(k)]
  /\ bound' = IF k = "observation" THEN disk["components"] ELSE bound
  /\ choice' \in IF k = "judgment" THEN {"noop", "select"} ELSE {choice}
  /\ receipt' = IF k = "receipt" THEN Build(mem) ELSE receipt

Write ==
  /\ Step("write")
  /\ \/ Written(Kind) /\ Rest(mem) /\ Quiet /\ UNCHANGED <<mode, doc>>
     \/ \* an executor may return no transcript
        Kind = "transcript" /\ Go(pc, sec, Tail(Tail(todo)), mem) /\ Quiet
        /\ UNCHANGED <<mode, doc, Files>>
     \/ Broken(mem, PlanOf(sec).failing # "none")
     \/ \* the rename has been done
        /\ Written(Kind) /\ Stop /\ Fault
        /\ doc' = IF PlanOf(sec).failing # "none" THEN [mem EXCEPT !.stage = "failed"] ELSE doc
        /\ UNCHANGED mode

(* The agent writes its answer into the file the operation writes later. *)
AgentWrites ==
  /\ pc = "work" /\ todo # <<>> /\ todo[1] \in {W("report"), W("review")}
  /\ disk[Kind] = 0
  /\ disk' = [disk EXCEPT ![Kind] = 1]
  /\ UNCHANGED <<mode, doc, mem, bound, choice, receipt, pc, sec, todo, faults>>

Noted(k) == Artifact(k, disk[k])

(* Approve, Execute and the benchmark append without looking. *)
Blind == {"approve", "execute", "benchmark"}
Note ==
  /\ Step("note")
  /\ LET list == IF sec \in Blind THEN Append(mem.list, Noted(Kind))
                                  ELSE AppendArtifact(mem.list, Noted(Kind))
         bindsTo == sec \in {"capture", "judge", "duplicate"} => Binds(mem.list, Kind, disk[Kind])
     IN \/ bindsTo /\ Rest([mem EXCEPT !.list = list]) /\ Quiet /\ UNCHANGED <<mode, doc, Files>>
        \/ ~bindsTo /\ PlanOf(sec).failing = "all" /\ Failed(mem)
        \/ /\ ~bindsTo /\ PlanOf(sec).failing # "all"
           /\ Stop /\ Quiet /\ UNCHANGED <<mode, doc, Files>>
        \/ Broken(mem, PlanOf(sec).failing = "all")

Keep ==
  /\ Step("save") \/ Step("late")
  /\ LET m == IF Step("late") THEN SetMark(mem, sec, "late") ELSE mem
     IN \/ doc' = m /\ Rest(m) /\ Quiet /\ UNCHANGED <<mode, Files>>
        \/ Lost(m, PlanOf(sec).failing = "all")

(* ResumeObservation takes the judgment over; a selection whose contract   *)
(* cannot be used fails the cycle.                                         *)
Adopting(usable) ==
  [mem EXCEPT !.judgment = disk["judgment"], !.candidate = choice = "select" /\ usable]
TakeOver ==
  /\ Step("adopt")
  /\ \/ doc' = Adopting(TRUE) /\ Rest(Adopting(TRUE)) /\ Quiet /\ UNCHANGED <<mode, Files>>
     \/ Lost(Adopting(TRUE), FALSE)
     \/ choice = "select" /\ Failed(Adopting(FALSE))

-----------------------------------------------------------------------------
(* The end of a section: its last record. *)

(* transition: from failed it is refused, behind the record of the section.*)
Onward(m, stage) == [m EXCEPT !.stage = IF @ = "failed" THEN @ ELSE stage]

Reviewed ==
  {[Onward(mem, "compounding") EXCEPT !.verdict = v,
               !.cites = {Artifact(k, IF k \in real /\ Has(mem.list, k) THEN Digest(mem.list, k) ELSE 0) : k \in cited}] :
     v \in {"promote", "close"}, cited \in {{}, Required \ {"transcript"}, Required}, real \in {{}, Required}}

Ended ==
  LET m == SetMark(mem, sec, "completed")
  IN CASE sec = "capture" -> m
       [] sec = "judge" -> [m EXCEPT !.stage = "ranked"]
       [] sec = "no-op" -> [m EXCEPT !.stage = "completed", !.reason = IF m.candidate THEN "shadow" ELSE "judge"]
       [] sec = "duplicate" -> [m EXCEPT !.stage = "completed", !.reason = "duplicate"]
       [] sec = "propose" -> [m EXCEPT !.stage = "awaiting"]
       [] sec = "approve" -> [m EXCEPT !.stage = "approved"]
       [] sec = "decline" -> [m EXCEPT !.declined = TRUE]
       [] sec = "declined" -> [m EXCEPT !.stage = "completed"]
       [] sec = "benchmark" -> Onward(m, "reviewing")
       [] sec = "roadmap" -> [m EXCEPT !.roadmap = disk["roadmap"]]
       [] sec = "receipt" -> [m EXCEPT !.signed = TRUE,
                                !.stage = IF @ = "compounding" THEN "completed" ELSE @]
       [] OTHER -> m

(* The rest of a section may still fail the cycle: a measurement, a budget *)
(* or path check, the registration of the observation, the step to ranked. *)
MayFail == {"capture", "judge", "execute", "benchmark"}

Finish ==
  /\ pc = "work" /\ todo = <<>> /\ sec # "review"
  /\ \/ doc' = Ended /\ Stop /\ Quiet /\ UNCHANGED <<mode, Files>>
     \/ Lost(Ended, sec = "capture")
     \/ sec \in MayFail /\ Failed(mem)

FinishReview ==
  /\ pc = "work" /\ todo = <<>> /\ sec = "review"
  /\ \E m \in Reviewed :
       IF EvidenceValid(m, m.verdict, m.cites)
       THEN \/ doc' = m /\ Stop /\ Quiet /\ UNCHANGED <<mode, Files>>
            \/ Lost(m, FALSE)
       ELSE Failed(mem)

Crash ==
  /\ pc # "idle" /\ Fault /\ Stop
  /\ UNCHANGED <<mode, doc, Files>>

Act ==
  \/ TakeUp \/ Claim \/ Write \/ AgentWrites \/ Note \/ Keep \/ TakeOver
  \/ Finish \/ FinishReview \/ Crash

Next == (Act /\ UNCHANGED outrun) \/ Outrun

Spec == Init /\ [][Next]_vars

-----------------------------------------------------------------------------
(* The offline replay of a receipt. *)

(* ReplayReceipt: every artifact once, and with its content on disk.       *)
Unchanged(r) ==
  \A a \in ToSet(r.list) : Count(r.list, a.kind) = 1 /\ disk[a.kind] = a.digest

(* validateReplayRoadmap *)
RoadmapReplays(r) ==
  IF r.roadmap = 0 THEN ~Has(r.list, "roadmap")
  ELSE Has(r.list, "roadmap") /\ Digest(r.list, "roadmap") = r.roadmap

(* ValidateReplayObservation: the receipt holds the components that the    *)
(* observation names, and they are what the observation says.              *)
ObservationReplays(r) == Has(r.list, "components") /\ bound = Digest(r.list, "components")

(* The decision rests on an observation.                                   *)
InputsReplay(r) ==
  /\ r.stage \in {"completed", "failed"}
  /\ r.stage = "completed" => Has(r.list, "observation") /\ Has(r.list, "judgment")
  /\ Has(r.list, "judgment") \/ Done(r, "capture") => Has(r.list, "observation")
  /\ Has(r.list, "observation") => ObservationReplays(r)

(* replayDecision *)
DecisionReplays(r) ==
  LET backlog == Has(r.list, "proposal-backlog")
      failed == r.stage = "failed"
  IN \/ /\ ~Has(r.list, "judgment")
        /\ r.judgment = 0 /\ ~r.candidate /\ r.reason = "none" /\ ~backlog
     \/ /\ Has(r.list, "judgment") /\ r.judgment = Digest(r.list, "judgment")
        /\ \/ ~r.candidate /\ ~backlog /\ failed /\ r.reason = "none"
           \/ ~r.candidate /\ ~backlog /\ ~failed /\ choice = "noop" /\ r.reason = "judge"
           \/ /\ r.candidate /\ choice = "select"
              /\ <<r.reason, backlog>> \in
                   IF failed THEN {<<"none", FALSE>>}
                   ELSE IF mode = "shadow" THEN {<<"shadow", FALSE>>}
                   ELSE {<<"none", FALSE>>, <<"duplicate", TRUE>>}

Replays(r) ==
  Unchanged(r) /\ RoadmapReplays(r) /\ InputsReplay(r) /\ DecisionReplays(r)

-----------------------------------------------------------------------------
(* Properties. *)

(* A failed cycle that a command has run on: it may have appended a second *)
(* artifact of a kind, or written a recorded file again.                   *)
RunOver == doc.stage = "failed" /\ outrun # <<>>

(* However often a command is interrupted and resumed, the document never  *)
(* records two artifacts of one kind, and the file of a recorded artifact  *)
(* is never written again with other content, by the retry of an operation *)
(* or by an agent that writes into the same path: the reviewer, the        *)
(* compounding and the replay all refuse such evidence, for good.  Only on *)
(* a failed cycle a command that outran its check of the stage breaks it.  *)
EvidenceFrozen ==
  RunOver \/ \A a \in ToSet(doc.list) : Count(doc.list, a.kind) = 1 /\ disk[a.kind] = a.digest

(* A signed receipt replays, that of a failed, a declined, a no-op or a    *)
(* duplicate cycle as well, after any interruptions (docs/PRD.md:152,      *)
(* architecture.md:103), unless a command ran on after the cycle failed.   *)
SignedReplays == doc.signed => Replays(receipt) \/ RunOver

(* What Review accepts satisfies every check Compound makes, before its    *)
(* first step and again on every resume: a reviewed experiment is never    *)
(* stuck on its evidence.                                                  *)
CompoundingStands == doc.stage = "compounding" => CompoundEvidence(doc)
=============================================================================
