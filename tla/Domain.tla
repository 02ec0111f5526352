------------------------------- MODULE Domain -------------------------------
(***************************************************************************)
(* The vocabulary of internal/domain: stages, verdicts and the table of    *)
(* legal stage changes, plus the phases of the Intercore run a cycle owns. *)
(* Everything here is constant; the stateful modules extend it.            *)
(***************************************************************************)
EXTENDS Naturals

Stages == {"new", "observing", "ranked", "no_op", "proposed",
           "awaiting_approval", "approved", "declined", "executing",
           "reviewing", "compounding", "completed", "failed"}

\* A cycle that Intercore does not know yet.
Absent == "absent"

Verdicts == {"promote", "close_success", "close_failure", "inconclusive"}

\* activeStage: the stages from which a cycle may still fail.
ActiveStages == Stages \ {"completed", "failed", "declined", "no_op"}

\* The forward edges of ValidateTransition's table.
ForwardEdges ==
  {<<"new", "observing">>, <<"observing", "ranked">>,
   <<"ranked", "no_op">>, <<"ranked", "proposed">>,
   <<"no_op", "completed">>, <<"proposed", "awaiting_approval">>,
   <<"awaiting_approval", "approved">>, <<"awaiting_approval", "declined">>,
   <<"approved", "executing">>, <<"declined", "completed">>,
   <<"executing", "reviewing">>, <<"reviewing", "compounding">>,
   <<"compounding", "completed">>}

ValidateTransition(from, to) ==
  \/ to = "failed" /\ from \in ActiveStages
  \/ <<from, to>> \in ForwardEdges

\* The phases of a cycle's Intercore run, in order; reaching "compound"
\* completes the run.  "absent" is a run that was never created.
Phases == {"observe", "rank", "propose", "execute", "review", "compound"}

NextPhase ==
  [ph \in Phases |->
     CASE ph = "observe" -> "rank"
       [] ph = "rank"    -> "propose"
       [] ph = "propose" -> "execute"
       [] ph = "execute" -> "review"
       [] OTHER          -> "compound"]

PreviousPhase ==
  [ph \in Phases |->
     CASE ph = "compound" -> "review"
       [] ph = "review"   -> "execute"
       [] ph = "execute"  -> "propose"
       [] ph = "propose"  -> "rank"
       [] OTHER           -> "observe"]

\* ValidatePromotion, reduced to what its outcome depends on here: the
\* benchmark met the contract's target or it missed it.
FinalVerdict(verdict, measurement) ==
  IF verdict = "promote" /\ measurement # "met" THEN "close_failure" ELSE verdict
=============================================================================
