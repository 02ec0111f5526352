----------------------------- MODULE ClaudeCall -----------------------------
(***************************************************************************)
(* One call of the Claude backend.  Judge and Execute run `claude` once;   *)
(* Review runs it a second time when the answer of the first was not a     *)
(* valid review, on what is left of the budget, and reports the two runs   *)
(* as one.  Money is counted in whole units.                               *)
(*                                                                         *)
(* `claude` is external: it spends at most the budget it is given plus a   *)
(* last turn, and its result envelope reports what it spent, or an         *)
(* unusable value, or nothing; a run that fails reports nothing.           *)
(***************************************************************************)
EXTENDS Integers

CONSTANTS
  MaxBudget,      \* budget of the call; the default, 1 USD, is the same
  Overrun,        \* what the last turn may cost beyond the budget
  Unknown         \* an unknown cost: a nil pointer in the code

VARIABLES
  role,      \* judge, execute, review
  phase,     \* ready, running, answered, done
  attempt,   \* 1, or 2 for the repair
  budget,    \* --max-budget-usd of the running attempt
  answer,    \* what the last run came back with
  spent,     \* what all attempts really cost
  cost,      \* Metadata.CostUSD
  outcome    \* none, ok, error

vars == <<role, phase, attempt, budget, answer, spent, cost, outcome>>

(* run: how the process ended; envelope: whether the result is one object  *)
(* without repeated or case-variant keys; flagged: is_error or an error    *)
(* subtype; payload: whether the structured output passes validation.      *)
Answers == [run : {"ok", "failed"}, envelope : {"plain", "ambiguous"},
            flagged : BOOLEAN, payload : {"valid", "invalid", "missing"},
            reported : {"spent", "invalid", "absent"}]
NoAnswer == [run |-> "failed", envelope |-> "plain", flagged |-> FALSE,
             payload |-> "missing", reported |-> "absent"]

Init ==
  /\ role \in {"judge", "execute", "review"}
  /\ phase = "ready"
  /\ attempt = 1
  /\ budget = MaxBudget
  /\ answer = NoAnswer
  /\ spent = 0
  /\ cost = Unknown
  /\ outcome = "none"

(* Usage.Combine: known only if both are, so never a smaller total. *)
Combine(a, b) == IF a = Unknown \/ b = Unknown THEN Unknown ELSE a + b

(* appendModelBudgetSchema: a budget that is not positive becomes the default. *)
Flag(b) == IF b =< 0 THEN MaxBudget ELSE b

(* safeEnvironment, the schema or the prompt can fail before anything runs. *)
Run ==
  /\ phase = "ready"
  /\ \/ phase' = "running" /\ budget' = Flag(budget) /\ UNCHANGED <<cost, outcome>>
     \/ /\ phase' = "done" /\ outcome' = "error" /\ UNCHANGED budget
        /\ cost' = Unknown
  /\ UNCHANGED <<role, attempt, answer, spent>>

(* External: claude spends and answers; decodeClaudeWithUsage reads a cost *)
(* only from a plain envelope, and KnownCost only a usable one.            *)
Answer ==
  /\ phase = "running"
  /\ \E a \in Answers, c \in 0..(budget + Overrun) :
       LET known == a.run = "ok" /\ a.envelope = "plain" /\ a.reported = "spent"
           mine  == IF known THEN c ELSE Unknown
       IN  /\ answer' = a
           /\ spent' = spent + c
           /\ cost' = IF attempt = 1 THEN mine ELSE Combine(cost, mine)
  /\ phase' = "answered"
  /\ UNCHANGED <<role, attempt, budget, outcome>>

Accepted == /\ answer.run = "ok" /\ answer.envelope = "plain"
            /\ ~answer.flagged /\ answer.payload = "valid"

(* Mutant: an unknown cost does not stop the repair. *)
HopefulRepairable ==
  /\ role = "review" /\ attempt = 1
  /\ answer.run = "ok" /\ ~Accepted
  /\ cost # Unknown => cost < MaxBudget

(* Review repairs a review that did not decode or validate, never a run    *)
(* that failed, and only when it knows that budget is left.                *)
Repairable ==
  /\ role = "review" /\ attempt = 1
  /\ answer.run = "ok" /\ ~Accepted
  /\ cost # Unknown /\ cost > 0 /\ cost < MaxBudget

Repair ==
  /\ phase = "answered"
  /\ Repairable
  /\ attempt' = 2
  /\ budget' = MaxBudget - (IF cost = Unknown THEN 0 ELSE cost)
  /\ phase' = "ready"
  /\ UNCHANGED <<role, answer, spent, cost, outcome>>

Settle ==
  /\ phase = "answered"
  /\ ~Repairable
  /\ outcome' = IF Accepted THEN "ok" ELSE "error"
  /\ phase' = "done"
  /\ UNCHANGED <<role, attempt, budget, answer, spent, cost>>

Returned == phase = "done" /\ UNCHANGED vars

Next == Run \/ Answer \/ Repair \/ Settle \/ Returned

Spec == Init /\ [][Next]_vars

-----------------------------------------------------------------------------

(* Together the attempts never cost more than one attempt could: the repair*)
(* runs on the remainder, which is known and is never zero (zero would be  *)
(* read as the default budget); and a reported cost is everything that was *)
(* spent, not the part of it that happened to be reported.                 *)
WithinBudget ==
  /\ spent =< MaxBudget + Overrun
  /\ cost # Unknown => cost = spent
=============================================================================
