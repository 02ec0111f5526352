--------------------------- MODULE JudgmentFilter ---------------------------
(***************************************************************************)
(* What becomes of a judge's answer: filterJudgment drops the opportunities*)
(* that are not eligible, one per step, keeps or replaces the selection,   *)
(* and the result is checked once more before it is written.  A crash      *)
(* between judgment.json and the cycle document makes the next invocation  *)
(* filter the file it finds, now without the list of known repositories.   *)
(*                                                                         *)
(* An opportunity is what the filter asks of it; a score is an integer and *)
(* Eps the tolerance of the comparison of two scores.  The file system the *)
(* repositories are resolved in does not change meanwhile.                 *)
(***************************************************************************)
EXTENDS Integers, Sequences

CONSTANTS
  Opportunities,      \* the opportunities the judge can think of
  Eps,                \* the 1e-9 of the score comparison
  MaxOpportunities,   \* bound of this model; the code allows five
  None                \* a nil index

(* name: how the contract names its repository; roots: under how many of   *)
(* the configured roots that name is a known repository; sound: accepted by*)
(* ValidateCandidate; bound: its evidence is that of the observation;      *)
(* allowed: the repository lies under an allowed root.                     *)
OpportunityType ==
  [name : {"absolute", "relative", "unclean"}, roots : Nat, sound : BOOLEAN,
   bound : BOOLEAN, allowed : BOOLEAN, score : Int]

ASSUME FilterAssumption ==
  /\ Opportunities \subseteq OpportunityType
  /\ Eps \in Nat
  /\ MaxOpportunities \in Nat
  /\ None \notin Int

VARIABLES
  given,      \* judgment.Opportunities
  chosen,     \* judgment.SelectedIndex
  noop,       \* whether judgment.NoOpReason is there
  known,      \* whether the repositories of the roots were listed
  attempt,    \* judge calls so far, at most two
  phase,      \* envelope, inspect, best, check, written, recorded, failed
  next,       \* index of the loop
  kept,       \* filtered.Opportunities
  survivor,   \* selectedFilteredIndex
  best,       \* best
  selected,   \* filtered.SelectedIndex
  rejected,   \* the indices in rejected
  file        \* judgment.json: [kept, selected], or None

loop == <<next, kept, survivor, best, selected, rejected>>
vars == <<given, chosen, noop, known, attempt, phase, loop, file>>

JudgedBy(n) ==
  /\ given \in UNION {[1..k -> Opportunities] : k \in 0..n}
  /\ chosen \in 0..(n + 1) \cup {None}
  /\ noop \in BOOLEAN

Rewound ==
  /\ next = 1 /\ kept = <<>> /\ survivor = None
  /\ best = 1 /\ selected = None /\ rejected = <<>>

(* The judge's first answer; a missing list of repositories ends the call  *)
(* before the judge is asked.                                              *)
Init ==
  /\ JudgedBy(MaxOpportunities)
  /\ known = TRUE /\ attempt = 1 /\ phase = "envelope"
  /\ Rewound
  /\ file = None

Fail == phase' = "failed" /\ UNCHANGED <<given, chosen, noop, known, attempt, loop, file>>

(* ValidateJudgmentEnvelope: a selection inside the list or a reason for   *)
(* none, never both; the schema version and the limit of five left out.    *)
EnvelopeHolds(list, choice, reason) ==
  /\ (choice = None) = reason
  /\ choice # None => choice \in 1..Len(list)

Envelope ==
  /\ phase = "envelope"
  /\ IF EnvelopeHolds(given, chosen, noop)
     THEN /\ phase' = IF given = <<>> THEN "check" ELSE "inspect"
          /\ UNCHANGED <<given, chosen, noop, known, attempt, loop, file>>
     ELSE Fail

(* normalizeRepository: an absolute name stands; a clean relative one is   *)
(* replaced by the one known repository it names.                          *)
(* Mutant: an absolute name has to be a listed repository too. *)
ListedOnly(o) ==
  /\ known
  /\ o.name = "absolute" \/ (o.name = "relative" /\ o.roots = 1)
Resolves(o) ==
  \/ o.name = "absolute"
  \/ o.name = "relative" /\ known /\ o.roots = 1
Normalized(o) == [o EXCEPT !.name = "absolute"]

(* validateCandidate wants an absolute repository, and so does             *)
(* validateRepository.                                                     *)
Eligible(o) == o.name = "absolute" /\ o.sound /\ o.bound /\ o.allowed

Keep(o) == kept' = Append(kept, Normalized(o))

Survivor == IF chosen = next THEN Len(kept) + 1 ELSE survivor

Reject == rejected' = Append(rejected, next)

Inspect ==
  /\ phase = "inspect" /\ next <= Len(given)
  /\ LET o == given[next]
     IN IF Resolves(o) /\ Eligible(Normalized(o))
        THEN Keep(o) /\ survivor' = Survivor /\ UNCHANGED rejected
        ELSE Reject /\ UNCHANGED <<kept, survivor>>
  /\ next' = next + 1
  /\ UNCHANGED <<given, chosen, noop, known, attempt, phase, best, selected, file>>

(* A root that cannot be resolved ends the judgment, but only when a clean *)
(* relative name has to be looked up (ErrRepositoryCatalog).               *)
CatalogFails ==
  /\ phase = "inspect" /\ next <= Len(given)
  /\ given[next].name = "relative"
  /\ Fail

(* ErrNoValidOpportunities: the judge is asked once more, and never again. *)
AskAgain ==
  /\ phase = "inspect" /\ next > Len(given) /\ kept = <<>>
  /\ attempt = 1
  /\ attempt' = 2
  /\ \E k \in 0..MaxOpportunities : given' \in [1..k -> Opportunities]
  /\ chosen' \in 0..(MaxOpportunities + 1) \cup {None}
  /\ noop' \in BOOLEAN
  /\ phase' = "envelope"
  /\ next' = 1 /\ rejected' = <<>>
  /\ UNCHANGED <<known, kept, survivor, best, selected, file>>

NothingLeft ==
  /\ phase = "inspect" /\ next > Len(given) /\ kept = <<>>
  /\ attempt = 2
  /\ Fail

(* The selection that survived, or none when none was made. *)
KeepSelection ==
  /\ phase = "inspect" /\ next > Len(given) /\ kept # <<>>
  /\ chosen = None \/ survivor # None
  /\ selected' = survivor
  /\ phase' = "check"
  /\ UNCHANGED <<given, chosen, noop, known, attempt, next, kept, survivor, best, rejected, file>>

ReplaceSelection ==
  /\ phase = "inspect" /\ next > Len(given) /\ kept # <<>>
  /\ chosen # None /\ survivor = None
  /\ best' = 1 /\ next' = 2
  /\ phase' = "best"
  /\ UNCHANGED <<given, chosen, noop, known, attempt, kept, survivor, selected, rejected, file>>

(* Mutant: the last opportunity that is not clearly worse wins. *)
NotClearlyWorse(i, j) == kept[i].score + Eps >= kept[j].score
Better(i, j) == kept[i].score > kept[j].score + Eps

Compare ==
  /\ phase = "best" /\ next <= Len(kept)
  /\ best' = IF Better(next, best) THEN next ELSE best
  /\ next' = next + 1
  /\ UNCHANGED <<given, chosen, noop, known, attempt, phase, kept, survivor, selected, rejected, file>>

TakeBest ==
  /\ phase = "best" /\ next > Len(kept)
  /\ selected' = best
  /\ phase' = "check"
  /\ UNCHANGED <<given, chosen, noop, known, attempt, next, kept, survivor, best, rejected, file>>

(* validateSelectedRanking. *)
RankingHolds ==
  selected # None =>
    \A i \in DOMAIN kept : kept[i].score <= kept[selected].score + Eps

(* ValidateJudgment and validateEvidenceBindings on what is left. *)
JudgmentHolds ==
  /\ EnvelopeHolds(kept, selected, noop)
  /\ \A i \in DOMAIN kept : Eligible(kept[i])

Check ==
  /\ phase = "check"
  /\ IF JudgmentHolds /\ RankingHolds
     THEN /\ phase' = "written"
          /\ file' = [kept |-> kept, selected |-> selected]
          /\ UNCHANGED <<given, chosen, noop, known, attempt, loop>>
     ELSE Fail

Record ==
  /\ phase = "written" /\ phase' = "recorded"
  /\ UNCHANGED <<given, chosen, noop, known, attempt, loop, file>>

(* The next invocation reads judgment.json and has not listed the          *)
(* repositories.                                                           *)
Reload ==
  /\ phase = "written"
  /\ given' = file.kept /\ chosen' = file.selected
  /\ known' = FALSE
  /\ phase' = "envelope"
  /\ next' = 1 /\ kept' = <<>> /\ survivor' = None
  /\ best' = 1 /\ selected' = None /\ rejected' = <<>>
  /\ UNCHANGED <<noop, attempt, file>>

Ended == phase \in {"recorded", "failed"} /\ UNCHANGED vars

Next == \/ Envelope \/ Inspect \/ CatalogFails \/ AskAgain \/ NothingLeft
        \/ KeepSelection \/ ReplaceSelection \/ Compare \/ TakeBest
        \/ Check \/ Record \/ Reload \/ Ended

Spec == Init /\ [][Next]_vars

-----------------------------------------------------------------------------
TypeOK ==
  /\ given \in Seq(OpportunityType)
  /\ chosen \in Int \cup {None}
  /\ noop \in BOOLEAN /\ known \in BOOLEAN
  /\ attempt \in 1..2
  /\ phase \in {"envelope", "inspect", "best", "check", "written", "recorded", "failed"}
  /\ next \in Nat \ {0}
  /\ kept \in Seq(OpportunityType)
  /\ survivor \in (DOMAIN kept) \cup {None}
  /\ best \in Nat \ {0}
  /\ selected \in (DOMAIN kept) \cup {None}
  /\ rejected \in Seq(Nat)
  /\ file = None \/ file.kept \in Seq(OpportunityType)

(* A replacement for a rejected selection always passes the ranking check  *)
(* that comes after it, although neither "better by more than the          *)
(* tolerance" nor its negation is transitive in the way the loop compares. *)
ReplacementRanked ==
  phase = "check" /\ chosen # None /\ survivor = None => RankingHolds

(* A selection that is not rejected is never exchanged for another one, at *)
(* whatever index it ends up.                                              *)
SelectionSurvives ==
  (/\ phase \in {"check", "written"} /\ given # <<>> /\ chosen # None
   /\ \A i \in DOMAIN rejected : rejected[i] # chosen)
  => selected # None /\ kept[selected] = Normalized(given[chosen])

(* Nothing is lost, exchanged or kept twice: from the inspection to the    *)
(* written judgment the kept opportunities are, in their order and         *)
(* normalized, exactly the inspected ones that fit, and the indices on     *)
(* record as rejected are, ascending, exactly those of the others.         *)
Fits(o) == Resolves(o) /\ Eligible(Normalized(o))
Seen == IF phase = "inspect" THEN next - 1 ELSE Len(given)
Ascending(f) == \A i, j \in DOMAIN f : i < j => f[i] < f[j]
Indices(f) == {f[i] : i \in DOMAIN f}
KeptFrom(place) ==
  /\ Ascending(place)
  /\ \A i \in DOMAIN kept : kept[i] = Normalized(given[place[i]])
  /\ Indices(place) = {n \in 1..Seen : Fits(given[n])}
EachAccountedFor ==
  phase \in {"inspect", "best", "check", "written"} =>
    /\ \E place \in [DOMAIN kept -> 1..Seen] : KeptFrom(place)
    /\ Ascending(rejected)
    /\ Indices(rejected) = {n \in 1..Seen : ~Fits(given[n])}

(* Only what the core accepts is left for the checks, which therefore can  *)
(* fail on the ranking alone.                                              *)
OnlyEligibleKept == phase = "check" => JudgmentHolds

(* Filtering the stored judgment again changes nothing: no rejection, no   *)
(* new selection, no failure, no further judge call.                       *)
ReloadIsStable ==
  ~known =>
    /\ phase # "failed" /\ rejected = <<>>
    /\ phase \in {"written", "recorded"} =>
         given = file.kept /\ chosen = file.selected /\ kept = given /\ selected = chosen
=============================================================================
