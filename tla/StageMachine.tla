---------------------------- MODULE StageMachine ----------------------------
(***************************************************************************)
(* What a cycle promises to whoever reads its canonical document: it is    *)
(* created once, in stage "new", and every later change of its stage is an *)
(* edge of domain.ValidateTransition.  The handlers of internal/cycle, with*)
(* their crashes, retries and races, are shown to implement this machine.  *)
(***************************************************************************)
EXTENDS Domain

CONSTANT Cycles

VARIABLE stage

Init == stage = [c \in Cycles |-> Absent]

Create(c) ==
  /\ stage[c] = Absent
  /\ stage' = [stage EXCEPT ![c] = "new"]

Move(c, next) ==
  /\ ValidateTransition(stage[c], next)
  /\ stage' = [stage EXCEPT ![c] = next]

Next == \E c \in Cycles : Create(c) \/ \E next \in Stages : Move(c, next)

Spec == Init /\ [][Next]_stage
=============================================================================
