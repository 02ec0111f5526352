------------------------------ MODULE KeyedRun ------------------------------
(***************************************************************************)
(* What the rest of the program believes of CreateCycleRun: a cycle has at *)
(* most one run, created once and never replaced, and whoever gets an      *)
(* answer gets that run.  Nothing is promised once keyed is lost.          *)
(***************************************************************************)
CONSTANTS RunIds, None

VARIABLES run, answer, keyed

Init == run = None /\ answer = None /\ keyed = TRUE

Create == run = None /\ run' \in RunIds /\ UNCHANGED <<answer, keyed>>
Answer == run # None /\ answer' = run /\ UNCHANGED <<run, keyed>>
Forget == answer' = None /\ UNCHANGED <<run, keyed>>
Lapse == keyed' = FALSE

Next == Create \/ Answer \/ Forget \/ Lapse

Spec == Init /\ [][Next]_<<run, answer, keyed>>
=============================================================================
