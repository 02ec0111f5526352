----------------------------- MODULE MCRemontoire ---------------------------
(***************************************************************************)
(* Remontoire for TLC.  Every cycle selects a candidate with the same      *)
(* fingerprint: the hardest case for deduplication.                        *)
(***************************************************************************)
EXTENDS CycleProperties, TLC

MCFingerprint == [c \in Cycles |-> "fingerprint"]

Symmetry == Permutations(Cycles) \cup Permutations(Procs)

(* Where one cycle meets another: up to the principal's decision.  Once a  *)
(* second cycle is under way, only cycles that are not approved are        *)
(* followed, and without faults.  Faults are followed on the way of an     *)
(* approved cycle, not together with a decline (OneInvocation has those).  *)
UnderWay(c) == doc[c].stage # Absent \/ \E p \in Procs : Cyc(p) = c
Meeting ==
  /\ (\A c \in Cycles : UnderWay(c)) => faults = 0 /\ \A c \in Cycles : ~doc[c].approved
  /\ (\E p \in Procs : job[p].op = "decline") \/ (\E c \in Cycles : doc[c].declined) => faults = 0
=============================================================================
