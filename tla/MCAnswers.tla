----------------------------- MODULE MCAnswers -----------------------------
(***************************************************************************)
(* What becomes of an agent's answer, for TLC: its reading by strictjson   *)
(* (StrictJSON) and, of a judgment that was read, the filter               *)
(* (JudgmentFilter).  Any judgment may come out of the reading, so the two *)
(* are checked side by side: a behaviour is one of either, the other waits *)
(* in a state of its own.                                                  *)
(***************************************************************************)
EXTENDS JudgmentFilter

CONSTANTS Width, Atoms  \* of StrictJSON

ASSUME WidthAssumption == Width \in Nat

VARIABLES part, input, target, exact, verdict

JSON == INSTANCE StrictJSON

jsonVars == <<input, target, exact, verdict>>
allVars == <<part, vars, jsonVars>>

(* One opportunity for each way the filter can go, and the scores around   *)
(* the tolerance: 0, 1 and 2 with Eps = 1, so that 0 and 1, and 1 and 2,   *)
(* tie while 2 is better than 0.                                           *)
Fine(score) == [name |-> "absolute", roots |-> 0, sound |-> TRUE,
                bound |-> TRUE, allowed |-> TRUE, score |-> score]

MCOpportunities ==
  {Fine(0), Fine(1), Fine(2),
   [Fine(2) EXCEPT !.name = "relative", !.roots = 1],
   [Fine(2) EXCEPT !.name = "relative", !.roots = 2],
   [Fine(2) EXCEPT !.sound = FALSE],
   [Fine(2) EXCEPT !.bound = FALSE, !.allowed = FALSE]}

NothingRead ==
  input = JSON!Null /\ target = JSON!Scalar /\ exact = TRUE /\ verdict = "pending"

NothingJudged ==
  /\ given = <<>> /\ chosen = None /\ noop = TRUE
  /\ known = TRUE /\ attempt = 1 /\ phase = "envelope"
  /\ Rewound
  /\ file = None

MCInit ==
  \/ part = "filter" /\ Init /\ NothingRead
  \/ part = "reading" /\ JSON!Init /\ NothingJudged

Read == verdict # "pending" /\ UNCHANGED jsonVars

MCNext ==
  \/ part = "filter" /\ Next /\ UNCHANGED <<part, jsonVars>>
  \/ part = "reading" /\ (JSON!Next \/ Read) /\ UNCHANGED <<part, vars>>

MCSpec == MCInit /\ [][MCNext]_allVars

-----------------------------------------------------------------------------
(* The properties of StrictJSON: the decoder never has to choose between   *)
(* two members of one field.                                               *)
OrderIrrelevant == JSON!OrderIrrelevant

(* Unknown members change nothing, and Claude's answer has none. *)
NothingIgnored == JSON!NothingIgnored
=============================================================================
