------------------------------ MODULE MCAgents ------------------------------
(***************************************************************************)
(* The two agent backends for TLC.  A call goes to one of them, Codex      *)
(* (CodexCall) or Claude (ClaudeCall), and they share no state, so a       *)
(* behaviour is a call of either; the other stays as it begins.            *)
(***************************************************************************)
EXTENDS CodexCall

CONSTANTS MaxBudget, Overrun  \* of ClaudeCall

ASSUME ClaudeAssumption ==
  MaxBudget \in Nat \ {0} /\ Overrun \in Nat /\ Unknown \notin Int

VARIABLES backend, role, place, attempt, budget, answer, paid, cost, verdict

Claude == INSTANCE ClaudeCall WITH phase <- place, spent <- paid, outcome <- verdict

claudeVars == <<role, place, attempt, budget, answer, paid, cost, verdict>>
allVars == <<backend, vars, claudeVars>>

MCInit == backend \in {"codex", "claude"} /\ Init /\ Claude!Init

MCNext ==
  \/ backend = "codex" /\ Next /\ UNCHANGED <<backend, claudeVars>>
  \/ backend = "claude" /\ Claude!Next /\ UNCHANGED <<backend, vars>>

MCSpec ==
  /\ MCInit /\ [][MCNext]_allVars
  /\ backend = "codex" => Fairness

-----------------------------------------------------------------------------
(* The property of ClaudeCall: both attempts of a review together stay     *)
(* within the budget, and a reported cost is that of both.                 *)
WithinBudget == Claude!WithinBudget
=============================================================================
