----------------------------- MODULE MCRecords -----------------------------
(***************************************************************************)
(* What is kept of a cycle, for TLC: its run in Intercore (RunCreation)    *)
(* and its evidence on disk (Evidence).  The two share no state, so a      *)
(* behaviour is one of either; the other stays as it begins.               *)
(***************************************************************************)
EXTENDS RunCreation, Sequences

CONSTANTS
  EvidenceFaults,  \* bound: failed calls and crashes of Evidence
  MaxOutrun        \* of Evidence

ASSUME EvidenceFaultsAssumption == EvidenceFaults \in Nat /\ MaxOutrun \in Nat

VARIABLES part, mode, doc, mem, disk, bound, choice, receipt, place, sec, todo,
          outrun, failures

E == INSTANCE Evidence WITH MaxFaults <- EvidenceFaults, pc <- place, faults <- failures

evidenceVars == <<mode, doc, mem, disk, bound, choice, receipt, place, sec, todo, outrun, failures>>
allVars == <<part, vars, evidenceVars>>

MCInit == part \in {"creation", "evidence"} /\ Init /\ E!Init

InCreation == part = "creation" /\ UNCHANGED <<part, evidenceVars>>
InEvidence == part = "evidence" /\ UNCHANGED <<part, vars>>

(* A cycle whose commands all end without a step is over, or stuck. *)
EvidenceRests == place = "idle" /\ UNCHANGED evidenceVars

MCNext == (InCreation /\ Next) \/ (InEvidence /\ (E!Next \/ EvidenceRests))

MCSpec ==
  /\ MCInit /\ [][MCNext]_allVars
  /\ part = "creation" => Fairness

-----------------------------------------------------------------------------
(* A cycle gets its run in the end (RunCreation). *)
CreationAnswered == part = "creation" => EventuallyAnswered

(* The properties of Evidence: a recorded file is recorded once and keeps  *)
(* its content, until a command runs on a cycle that has failed.           *)
EvidenceFrozen == E!EvidenceFrozen

(* A signed receipt replays, with the same exception. *)
SignedReplays == E!SignedReplays

(* What the review accepts, the compounding accepts. *)
CompoundingStands == E!CompoundingStands
=============================================================================
