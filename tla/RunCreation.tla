----------------------------- MODULE RunCreation -----------------------------
(***************************************************************************)
(* CreateCycleRun: `ic run create` has no idempotency key, so the adapter  *)
(* lists the runs of the cycle first, creates one only when there is none, *)
(* and lists again, outside the caller's cancellation, when the answer to  *)
(* the creation is not usable.  An invocation that crashes is followed by  *)
(* another one, under the same cycle lock.                                 *)
(*                                                                         *)
(* The command itself is external: it commits at most one run, at any time *)
(* while it is running.  It is killed with its context, but not with the   *)
(* invocation: an orphan is a command that is still running when the next  *)
(* invocation begins, and outlived records that there has been one.  No    *)
(* key tells Intercore that the two creations are the same, so what is     *)
(* promised of a cycle's run is promised as long as nothing has outlived   *)
(* its invocation; afterwards two runs are met with an error, not a choice.*)
(***************************************************************************)
EXTENDS Integers, FiniteSets

CONSTANTS
  RunIds,         \* identifiers Intercore gives to runs
  None,           \* no identifier
  MaxFaults,      \* bound: failed lists, failed creates, cancellations, crashes
  MaxOrphans      \* bound: commands that outlive a crash

ASSUME CreationAssumption ==
  None \notin RunIds /\ MaxFaults \in Nat /\ MaxOrphans \in Nat

VARIABLES
  runs,        \* identifiers of the runs in the cycle's scope
  altered,     \* those an operator has cancelled or moved on
  pc,          \* idle, list, create, wait, relist, answered, failed
  cancelled,   \* the caller's context has ended
  command,     \* none, running, committed: the `ic run create` of this call
  orphans,     \* commands still running after a crash
  outlived,    \* history: there has been such a command
  answer,      \* the identifier the caller got
  missed,      \* the second list did not get through
  faults

vars == <<runs, altered, pc, cancelled, command, orphans, outlived, answer, missed, faults>>

Init ==
  /\ runs = {} /\ altered = {}
  /\ pc = "idle" /\ cancelled = FALSE
  /\ command = "none" /\ orphans = 0 /\ outlived = FALSE
  /\ answer = None /\ missed = FALSE
  /\ faults = 0

Fault == faults < MaxFaults /\ faults' = faults + 1

Begin ==
  /\ pc = "idle"
  /\ pc' = "list"
  /\ UNCHANGED <<runs, altered, cancelled, command, orphans, outlived, answer, missed, faults>>

Fits(id) == id \notin altered

OnlyRun(found, id) == found = {id} /\ Fits(id)

(* findCycleRun: no run, the one run that matches, or an error. *)
Found(id) ==
  /\ OnlyRun(runs, id)
  /\ answer' = id
  /\ pc' = "answered"

NotUnique ==
  /\ runs # {}
  /\ \A id \in RunIds : ~OnlyRun(runs, id)
  /\ pc' = "failed"

(* Mutant: an empty list is an error like any other. *)
EmptyIsError == pc' = "failed"
WhenEmpty == pc' = "create"

List ==
  /\ pc = "list" /\ ~cancelled
  /\ \/ \E id \in RunIds : Found(id)
     \/ NotUnique /\ UNCHANGED answer
     \/ runs = {} /\ WhenEmpty /\ UNCHANGED answer
  /\ UNCHANGED <<runs, altered, cancelled, command, orphans, outlived, missed, faults>>

(* Mutant: a list that failed counts as an empty one. *)
HopefulListFails ==
  /\ pc = "list"
  /\ IF cancelled THEN UNCHANGED faults ELSE Fault
  /\ pc' = "create"
  /\ UNCHANGED <<runs, altered, cancelled, command, orphans, outlived, answer, missed>>
ListFails ==
  /\ pc = "list"
  /\ IF cancelled THEN UNCHANGED faults ELSE Fault
  /\ pc' = "failed"
  /\ UNCHANGED <<runs, altered, cancelled, command, orphans, outlived, answer, missed>>

(* With a context that has ended the command is not started. *)
StartCreate ==
  /\ pc = "create"
  /\ IF cancelled THEN pc' = "relist" /\ UNCHANGED command
                  ELSE pc' = "wait" /\ command' = "running"
  /\ UNCHANGED <<runs, altered, cancelled, orphans, outlived, answer, missed, faults>>

(* External: Intercore commits the run. *)
Commit ==
  /\ command = "running"
  /\ \E id \in RunIds \ runs : runs' = runs \cup {id}
  /\ command' = "committed"
  /\ UNCHANGED <<altered, pc, cancelled, orphans, outlived, answer, missed, faults>>

ReadableAnswer == runs

Created ==
  /\ pc = "wait" /\ command = "committed" /\ ~cancelled
  /\ answer' \in ReadableAnswer
  /\ pc' = "answered" /\ command' = "none"
  /\ UNCHANGED <<runs, altered, cancelled, orphans, outlived, missed, faults>>

(* The command failed, was killed, or its answer is unusable; whether it   *)
(* committed is not known.                                                 *)
CreateUnclear ==
  /\ pc = "wait"
  /\ IF cancelled THEN UNCHANGED faults ELSE Fault
  /\ pc' = "relist" /\ command' = "none"
  /\ UNCHANGED <<runs, altered, cancelled, orphans, outlived, answer, missed>>

(* reconcileCycleRun lists under a context of its own.                     *)
(* Mutant: the lookup is cancelled with the caller. *)
CancelledLookup == ~cancelled
Detached == TRUE

Relist ==
  /\ pc = "relist" /\ Detached
  /\ \/ \E id \in RunIds : Found(id)
     \/ NotUnique /\ UNCHANGED answer
     \/ runs = {} /\ pc' = "failed" /\ UNCHANGED answer
  /\ UNCHANGED <<runs, altered, cancelled, command, orphans, outlived, missed, faults>>

RelistFails ==
  /\ pc = "relist"
  /\ IF Detached THEN Fault /\ missed' = TRUE ELSE UNCHANGED <<missed, faults>>
  /\ pc' = "failed"
  /\ UNCHANGED <<runs, altered, cancelled, command, orphans, outlived, answer>>

Cancel ==
  /\ pc \in {"list", "create", "wait", "relist"} /\ ~cancelled
  /\ Fault
  /\ cancelled' = TRUE
  /\ UNCHANGED <<runs, altered, pc, command, orphans, outlived, answer, missed>>

(* The invocation dies, or ends with an error; what it learned is lost     *)
(* unless it was stored.                                                   *)
Restart ==
  /\ \/ pc = "failed" /\ UNCHANGED <<orphans, faults>>
     \/ /\ pc # "idle" /\ Fault
        /\ IF command = "running" /\ orphans < MaxOrphans
           THEN orphans' \in {orphans, orphans + 1}
           ELSE UNCHANGED orphans
  /\ outlived' = (outlived \/ orphans' > orphans)
  /\ pc' = "idle" /\ cancelled' = FALSE /\ command' = "none"
  /\ answer' = None /\ missed' = FALSE
  /\ UNCHANGED <<runs, altered>>

(* External: a command nobody waits for any more commits its run, or ends. *)
OrphanEnds ==
  /\ orphans > 0
  /\ orphans' = orphans - 1
  /\ \/ UNCHANGED runs
     \/ \E id \in RunIds \ runs : runs' = runs \cup {id}
  /\ UNCHANGED <<altered, pc, cancelled, command, outlived, answer, missed, faults>>

(* External: somebody cancels or advances the run. *)
Alter ==
  /\ Fault
  /\ \E id \in runs \ altered : altered' = altered \cup {id}
  /\ UNCHANGED <<runs, pc, cancelled, command, orphans, outlived, answer, missed>>

Resting == pc = "answered" /\ UNCHANGED vars

Next == \/ Begin \/ List \/ ListFails \/ StartCreate \/ Commit \/ Created \/ CreateUnclear
        \/ Relist \/ RelistFails \/ Cancel \/ Restart \/ OrphanEnds \/ Alter \/ Resting

(* The adapter's own steps are ordinary program steps, and a command that  *)
(* is neither killed nor fails commits its run.  An invocation that failed *)
(* is repeated.                                                            *)
Fairness ==
  /\ WF_vars(Begin \/ StartCreate \/ Created \/ CreateUnclear)
  /\ WF_vars(List \/ ListFails \/ Relist \/ RelistFails)
  /\ WF_vars(Restart)
  /\ WF_vars(Commit)

Spec == Init /\ [][Next]_vars /\ Fairness

-----------------------------------------------------------------------------
TypeOK ==
  /\ runs \subseteq RunIds /\ altered \subseteq runs
  /\ pc \in {"idle", "list", "create", "wait", "relist", "answered", "failed"}
  /\ cancelled \in BOOLEAN /\ missed \in BOOLEAN /\ outlived \in BOOLEAN
  /\ command \in {"none", "running", "committed"}
  /\ orphans \in 0..MaxOrphans
  /\ answer \in RunIds \cup {None}
  /\ faults \in 0..MaxFaults

(* However often the creation is interrupted and repeated, the cycle's     *)
(* scope holds two runs only if a creation has outlived its invocation.    *)
OneRun == ~outlived => Cardinality(runs) <= 1

(* A caller is told that there is no run only when there is none: one that *)
(* was committed is found again, even if the caller was cancelled, unless  *)
(* the second list failed too or somebody altered the run.                 *)
ReconciliationFinds ==
  [][ pc = "relist" /\ pc' = "failed" /\ ~missed' /\ ~outlived => runs \subseteq altered ]_vars

(* With finitely many faults the cycle gets its run in the end, unless     *)
(* somebody has altered it or an orphan has made a second one.             *)
EventuallyAnswered == <>[](pc = "answered" \/ altered # {} \/ outlived)

(* CreateCycleRun is what the rest of the program takes it for, one keyed  *)
(* creation whose every answer is the one run, until a creation outlives   *)
(* its invocation.                                                         *)
TheRun ==
  IF runs = {} THEN None
  ELSE IF \E id \in RunIds : runs = {id} THEN CHOOSE id \in RunIds : runs = {id}
  ELSE runs
KeyedRunSpec == INSTANCE KeyedRun WITH run <- TheRun, keyed <- ~outlived
CreatesKeyed == KeyedRunSpec!Spec
=============================================================================
