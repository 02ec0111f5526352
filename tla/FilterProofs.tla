---------------------------- MODULE FilterProofs ----------------------------
(***************************************************************************)
(* Proofs about the judgment filter, for every set of opportunities, every *)
(* scoring and every tolerance.                                            *)
(*                                                                         *)
(* ReplacementRanked follows from the loop invariant of the comparison     *)
(* loop (Leading): nothing compared so far beats the leader by more than   *)
(* the tolerance.  The other properties say what the filtering loop has    *)
(* done so far: Counted for the records of what was rejected, Followed for *)
(* the selection, Sound for what was kept, and Stable for the second pass  *)
(* over a stored judgment, in which the loop copies its input.             *)
(* EachAccountedFor is inductive beside them: it names the place of every  *)
(* opportunity inspected so far.                                           *)
(***************************************************************************)
EXTENDS JudgmentFilter, SequenceTheorems, TLAPS

Opps == Seq(OpportunityType)

Types ==
  /\ given \in Opps
  /\ chosen \in Int \cup {None}
  /\ noop \in BOOLEAN /\ known \in BOOLEAN
  /\ attempt \in 1..2
  /\ phase \in {"envelope", "inspect", "best", "check", "written", "recorded", "failed"}
  /\ next \in Nat \ {0}
  /\ kept \in Opps
  /\ survivor \in (1..Len(kept)) \cup {None}
  /\ best \in Nat \ {0}
  /\ selected \in (1..Len(kept)) \cup {None}
  /\ rejected \in Seq(Nat)

(* The envelope holds from its check on; before it nothing is inspected.   *)
Enveloped ==
  /\ phase \in {"inspect", "best", "check", "written"} => EnvelopeHolds(given, chosen, noop)
  /\ phase = "envelope" =>
       next = 1 /\ kept = <<>> /\ survivor = None /\ selected = None /\ rejected = <<>>
  /\ phase \in {"inspect", "best"} => selected = None /\ given # <<>>
  /\ phase = "best" => kept # <<>> /\ chosen # None /\ survivor = None

(* Where each inspected opportunity went.                                  *)
Counted ==
  phase = "inspect" =>
    /\ next <= Len(given) + 1
    /\ Len(kept) + Len(rejected) = next - 1
    /\ \A i \in 1..Len(rejected) : rejected[i] < next
    /\ \A i, j \in 1..Len(rejected) : i < j => rejected[i] < rejected[j]

(* Where the selected opportunity went.                                    *)
Dropped == \E i \in 1..Len(rejected) : rejected[i] = chosen
Held == survivor # None /\ kept[survivor] = Normalized(given[chosen])
Followed ==
  /\ chosen = None => survivor = None
  /\ phase = "inspect" /\ chosen # None =>
       IF chosen < next THEN Dropped \/ Held ELSE survivor = None
  /\ phase = "inspect" /\ chosen # None /\ Dropped => survivor = None
  /\ phase = "best" => Dropped
  /\ phase \in {"check", "written"} =>
       /\ chosen = None => selected = None
       /\ chosen # None => selected # None
       /\ chosen # None /\ given # <<>> => Dropped \/ (Held /\ selected = survivor)

Sound == \A i \in 1..Len(kept) : Eligible(kept[i])

(* The loop invariant of the search for the best replacement.              *)
Leading ==
  /\ phase = "best" =>
       /\ best < next /\ next <= Len(kept) + 1
       /\ \A i \in 1..(next - 1) : kept[i].score <= kept[best].score + Eps
  /\ ReplacementRanked

(* judgment.json, once written, is the judgment that was checked.          *)
Written ==
  phase = "written" =>
    file.kept = kept /\ file.selected = selected /\ JudgmentHolds /\ RankingHolds

(* The second pass copies what it reads.                                   *)
Stable ==
  ~known =>
    /\ phase \notin {"failed", "best"} /\ rejected = <<>>
    /\ given = file.kept /\ chosen = file.selected
    /\ EnvelopeHolds(given, chosen, noop)
    /\ \A i \in 1..Len(given) : Eligible(given[i])
    /\ chosen # None =>
         \A i \in 1..Len(given) : given[i].score <= given[chosen].score + Eps
    /\ phase = "inspect" =>
         /\ \A i \in 1..Len(kept) : kept[i] = given[i]
         /\ chosen # None => survivor = IF chosen < next THEN chosen ELSE None
    /\ phase \in {"check", "written", "recorded"} => kept = given /\ selected = chosen

FilterInv ==
  Types /\ Enveloped /\ Counted /\ Followed /\ Sound /\ Leading /\ Written /\ Stable

-----------------------------------------------------------------------------
LEMMA FilterInitially == Init => FilterInv
<1> SUFFICES ASSUME Init PROVE FilterInv
  OBVIOUS
<1>1. given \in Opps
  BY FilterAssumption DEF Init, JudgedBy, Opps
<1>2. chosen \in Int \cup {None}
  BY FilterAssumption DEF Init, JudgedBy
<1> QED
  BY <1>1, <1>2 DEF Init, JudgedBy, Rewound, FilterInv, Types, Enveloped, Counted, Followed,
     Sound, Leading, ReplacementRanked, Written, Stable, Opps

(* Normalizing keeps the type, and an absolute name as it is. *)
LEMMA Normalizing ==
  ASSUME NEW o \in OpportunityType
  PROVE  /\ Normalized(o) \in OpportunityType
         /\ o.name = "absolute" => Normalized(o) = o
<1>1. Normalized(o) \in OpportunityType
  BY DEF Normalized, OpportunityType
<1>2. ASSUME o.name = "absolute" PROVE Normalized(o) = o
  <2>1. [o EXCEPT !.name = o.name] = o
    BY DEF OpportunityType
  <2> QED
    BY <2>1, <1>2 DEF Normalized
<1> QED
  BY <1>1, <1>2

(* An element of a list of opportunities is one. *)
LEMMA Elements ==
  ASSUME NEW list \in Opps, NEW i \in 1..Len(list)
  PROVE  list[i] \in OpportunityType
BY DEF Opps

LEMMA Inspecting ==
  ASSUME FilterInv, Inspect
  PROVE  FilterInv'
<1> DEFINE o == given[next]
<1>1. /\ phase = "inspect" /\ next <= Len(given)
      /\ next' = next + 1
      /\ UNCHANGED <<given, chosen, noop, known, attempt, phase, best, selected, file>>
  BY DEF Inspect
<1>a. next \in 1..Len(given)
  BY <1>1 DEF FilterInv, Types, Opps
<1>b. o \in OpportunityType /\ Normalized(o) \in OpportunityType
  BY <1>a, Elements, Normalizing DEF FilterInv, Types
<1>c. ~known => Eligible(o) /\ Normalized(o) = o
  BY <1>a, <1>b, Normalizing DEF FilterInv, Stable, Eligible
<1>2. CASE Resolves(o) /\ Eligible(Normalized(o))
  <2>1. kept' = Append(kept, Normalized(o)) /\ survivor' = Survivor /\ rejected' = rejected
    BY <1>2, <1>1 DEF Inspect, Keep
  <2>2. /\ kept' \in Opps /\ Len(kept') = Len(kept) + 1
        /\ \A i \in 1..Len(kept) : kept'[i] = kept[i]
        /\ kept'[Len(kept) + 1] = Normalized(o)
    BY <1>1, <1>b, <2>1 DEF FilterInv, Types, Opps
  <2>3. Types'
    BY <1>1, <1>b, <2>1, <2>2, FilterAssumption DEF FilterInv, Types, Survivor, Opps
  <2>4. Enveloped' /\ Leading' /\ Written'
    BY <1>1, <2>1 DEF FilterInv, Enveloped, Leading, Written, ReplacementRanked, EnvelopeHolds
  <2>8. Counted'
    <3>1. /\ Len(rejected) \in Nat /\ next \in Nat /\ Len(kept) \in Nat /\ Len(given) \in Nat
          /\ \A i \in 1..Len(rejected) : rejected[i] \in Nat /\ rejected[i] < next
      BY <1>1 DEF FilterInv, Types, Counted, Opps
    <3>2. \A i \in 1..Len(rejected') : rejected'[i] < next'
      BY <1>1, <2>1, <3>1
    <3>3. /\ Len(kept) + Len(rejected) = next - 1
          /\ \A i, j \in 1..Len(rejected) : i < j => rejected[i] < rejected[j]
      BY <1>1 DEF FilterInv, Counted
    <3>4. \A i, j \in 1..Len(rejected') : i < j => rejected'[i] < rejected'[j]
      BY <2>1, <3>3
    <3>5. next' <= Len(given') + 1 /\ Len(kept') + Len(rejected') = next' - 1
      BY <1>1, <2>1, <2>2, <3>1, <3>3
    <3> QED
      BY <3>2, <3>4, <3>5 DEF Counted
  <2>5. Sound'
    BY <1>1, <1>2, <2>1, <2>2 DEF FilterInv, Types, Sound, Opps
  <2>6. Followed'
    BY <1>1, <2>1, <2>2, FilterAssumption, SMTT(20)
       DEF FilterInv, Types, Followed, Dropped, Held,
       Survivor, Counted, Opps
  <2>7. Stable'
    <3> SUFFICES ASSUME ~known PROVE Stable'
      BY <1>1 DEF Stable
    <3>1. Normalized(o) = given[next]
      BY <1>c
    <3>2. Len(kept) = next - 1
      BY <1>1 DEF FilterInv, Stable, Types, Counted, Opps
    <3>3. /\ \A i \in 1..Len(kept) : kept[i] = given[i]
          /\ chosen # None => survivor = IF chosen < next THEN chosen ELSE None
      BY <1>1 DEF FilterInv, Stable
    <3>4. \A i \in 1..Len(kept') : kept'[i] = given'[i]
      <4>1. Len(kept) \in Nat /\ Len(kept') = Len(kept) + 1 /\ Len(kept) + 1 = next
        BY <1>a, <2>2, <3>2 DEF FilterInv, Types, Opps
      <4> SUFFICES ASSUME NEW i \in 1..(Len(kept) + 1) PROVE kept'[i] = given[i]
        BY <1>1, <2>2, <4>1
      <4>2. CASE i = Len(kept) + 1
        BY <2>2, <3>1, <4>1, <4>2
      <4>3. CASE i # Len(kept) + 1
        <5>1. i \in 1..Len(kept)
          BY <4>1, <4>3
        <5> QED
          BY <2>2, <3>3, <5>1
      <4> QED
        BY <4>2, <4>3
    <3>5. chosen' # None => survivor' = IF chosen' < next' THEN chosen' ELSE None
      <4>1. next \in Nat /\ (chosen # None => chosen \in Int)
        BY <1>a DEF FilterInv, Types
      <4>2. Len(kept) + 1 = next
        BY <3>2, <4>1
      <4> QED
        BY <1>1, <2>1, <3>3, <4>1, <4>2 DEF Survivor
    <3>6. /\ rejected' = <<>> /\ given' = file'.kept /\ chosen' = file'.selected
          /\ EnvelopeHolds(given', chosen', noop')
          /\ \A i \in 1..Len(given') : Eligible(given'[i])
          /\ chosen' # None =>
               \A i \in 1..Len(given') : given'[i].score <= given'[chosen'].score + Eps
      BY <1>1, <2>1 DEF FilterInv, Stable
    <3> QED
      BY <1>1, <3>4, <3>5, <3>6 DEF Stable
  <2> QED
    BY <2>3, <2>4, <2>5, <2>6, <2>7, <2>8 DEF FilterInv
<1>3. CASE ~(Resolves(o) /\ Eligible(Normalized(o)))
  <2>1. kept' = kept /\ survivor' = survivor /\ rejected' = Append(rejected, next)
    BY <1>3, <1>1 DEF Inspect, Reject
  <2>2. /\ rejected' \in Seq(Nat) /\ Len(rejected') = Len(rejected) + 1
        /\ \A i \in 1..Len(rejected) : rejected'[i] = rejected[i]
        /\ rejected'[Len(rejected) + 1] = next
    BY <1>1, <2>1 DEF FilterInv, Types
  <2>3. Types' /\ Enveloped' /\ Sound' /\ Leading' /\ Written'
    BY <1>1, <2>1, <2>2 DEF FilterInv, Types, Enveloped, Sound, Leading, Written,
       ReplacementRanked, EnvelopeHolds, Opps
  <2>4. Counted'
    <3>1. /\ Len(kept') + Len(rejected') = next' - 1
          /\ next' <= Len(given') + 1
      BY <1>1, <1>a, <2>1, <2>2 DEF FilterInv, Types, Counted, Opps
    <3>2. /\ Len(rejected) \in Nat /\ next \in Nat
          /\ \A i \in 1..Len(rejected) : rejected[i] \in Nat /\ rejected[i] < next
      BY <1>1 DEF FilterInv, Types, Counted
    <3>3. \A i \in 1..(Len(rejected) + 1) :
            \/ i \in 1..Len(rejected) /\ rejected'[i] = rejected[i]
            \/ i = Len(rejected) + 1 /\ rejected'[i] = next
      BY <2>2, <3>2
    <3>4. \A i \in 1..Len(rejected') : rejected'[i] < next'
      BY <1>1, <2>2, <3>2, <3>3
    <3>5. \A i, j \in 1..Len(rejected') : i < j => rejected'[i] < rejected'[j]
      <4> SUFFICES ASSUME NEW i \in 1..Len(rejected'), NEW j \in 1..Len(rejected'), i < j
                   PROVE  rejected'[i] < rejected'[j]
        OBVIOUS
      <4>1. i \in 1..Len(rejected) /\ rejected'[i] = rejected[i]
        BY <2>2, <3>2, <3>3
      <4>2. j \in 1..Len(rejected) => rejected[i] < rejected[j]
        BY <1>1, <4>1 DEF FilterInv, Counted
      <4> QED
        BY <2>2, <3>2, <3>3, <4>1, <4>2
    <3> QED
      BY <3>1, <3>4, <3>5 DEF Counted
  <2>5. Followed'
    BY <1>1, <2>1, <2>2, FilterAssumption DEF FilterInv, Types, Followed, Dropped, Held,
       Counted, Opps
  <2>6. known
    BY <1>c, <1>3 DEF Resolves, Eligible
  <2> QED
    BY <1>1, <2>3, <2>4, <2>5, <2>6 DEF FilterInv, Stable
<1> QED
  BY <1>2, <1>3
(* The comparison loop: one opportunity per step. *)
LEMMA Comparing ==
  ASSUME FilterInv, Compare
  PROVE  FilterInv'
<1>1. /\ phase = "best" /\ next <= Len(kept)
      /\ best' = IF Better(next, best) THEN next ELSE best
      /\ next' = next + 1
      /\ UNCHANGED <<given, chosen, noop, known, attempt, phase, kept, survivor, selected, rejected, file>>
  BY DEF Compare
<1>2. Types' /\ Enveloped' /\ Counted' /\ Followed' /\ Sound' /\ Written' /\ Stable'
  BY <1>1 DEF FilterInv, Types, Enveloped, Counted, Followed, Dropped, Held, Sound, Written,
     Stable, EnvelopeHolds, Opps
<1>3. Leading'
  <2>1. /\ next \in 1..Len(kept) /\ best \in 1..Len(kept) /\ best < next
        /\ next - 1 \in 0..Len(kept)
    BY <1>1 DEF FilterInv, Types, Leading, Opps
  <2>2. \A i \in 1..Len(kept) : kept[i].score \in Int
    BY Elements DEF FilterInv, Types, OpportunityType
  <2>3. \A i \in 1..(next - 1) : kept[i].score <= kept[best].score + Eps
    BY <1>1 DEF FilterInv, Leading
  <2>4. Eps \in Nat
    BY FilterAssumption
  <2>5. ASSUME NEW i \in 1..next PROVE kept[i].score <= kept[best'].score + Eps
    <3>1. CASE i = next
      BY <1>1, <2>1, <2>2, <2>4, <3>1 DEF Better
    <3>2. CASE i # next
      <4>1. i \in 1..(next - 1) /\ i \in 1..Len(kept)
        BY <2>1, <3>2
      <4> QED
        BY <1>1, <2>1, <2>2, <2>3, <2>4, <4>1 DEF Better
    <3> QED
      BY <3>1, <3>2
  <2> QED
    BY <1>1, <2>1, <2>5 DEF Leading, ReplacementRanked
<1> QED
  BY <1>2, <1>3 DEF FilterInv

LEMMA LeaderTaken ==
  ASSUME FilterInv, TakeBest
  PROVE  best \in 1..Len(kept) /\ RankingHolds'
<1>1. phase = "best" /\ next > Len(kept) /\ selected' = best /\ kept' = kept
  BY DEF TakeBest
<1>2. /\ best \in Nat \ {0} /\ next \in Nat \ {0} /\ Len(kept) \in Nat
      /\ best < next /\ next <= Len(kept) + 1
      /\ \A i \in 1..(next - 1) : kept[i].score <= kept[best].score + Eps
  BY <1>1 DEF FilterInv, Types, Leading, Opps
<1>3. next - 1 = Len(kept) /\ best \in 1..Len(kept)
  BY <1>1, <1>2
<1>4. \A i \in 1..Len(kept) : kept[i].score <= kept[best].score + Eps
  BY <1>2, <1>3
<1>5. DOMAIN kept = 1..Len(kept)
  BY DEF FilterInv, Types, Opps
<1> QED
  BY <1>1, <1>3, <1>4, <1>5 DEF RankingHolds

(* The second pass keeps what it inspects, so it never ends empty-handed. *)
LEMMA InspectedSome ==
  ASSUME FilterInv, phase = "inspect", next > Len(given), kept = <<>>
  PROVE  known
<1> SUFFICES ASSUME ~known PROVE FALSE
  BY DEF FilterInv, Types
<1>1. Len(kept) = 0 /\ Len(rejected) = 0
  BY DEF FilterInv, Stable
<1>2. next = 1 /\ Len(given) \in Nat /\ Len(given) = 0
  BY <1>1 DEF FilterInv, Counted, Types, Opps
<1> QED
  BY <1>2 DEF FilterInv, Enveloped, Types, Opps

(* The step that ends the loop with the selection that survived it. *)
LEMMA Selecting ==
  ASSUME FilterInv, KeepSelection
  PROVE  FilterInv'
<1>1. /\ phase = "inspect" /\ next > Len(given) /\ kept # <<>>
      /\ chosen = None \/ survivor # None
      /\ selected' = survivor /\ phase' = "check"
      /\ UNCHANGED <<given, chosen, noop, known, attempt, next, kept, survivor, best, rejected, file>>
  BY DEF KeepSelection
<1>2. next = Len(given) + 1 /\ Len(kept) + Len(rejected) = Len(given)
  BY <1>1 DEF FilterInv, Counted, Types, Opps
<1>3. Types' /\ Counted' /\ Sound'
  BY <1>1 DEF FilterInv, Types, Counted, Sound
<1>4. Enveloped' /\ Written'
  BY <1>1 DEF FilterInv, Enveloped, Written
<1>5. Leading'
  BY <1>1 DEF FilterInv, Leading, ReplacementRanked
<1>6. Followed'
  <2>1. Dropped' = Dropped /\ Held' = Held
    BY <1>1 DEF Dropped, Held
  <2>2. chosen # None => chosen < next
    BY <1>1, <1>2 DEF FilterInv, Enveloped, EnvelopeHolds, Types, Opps
  <2> QED
    BY <1>1, <2>1, <2>2 DEF FilterInv, Followed
<1>7. Stable'
  <2> SUFFICES ASSUME ~known PROVE Stable'
    BY <1>1 DEF Stable
  <2>1. /\ rejected = <<>> /\ \A i \in 1..Len(kept) : kept[i] = given[i]
        /\ chosen # None => survivor = IF chosen < next THEN chosen ELSE None
    BY <1>1 DEF FilterInv, Stable
  <2>2. kept = given
    <3>1. kept \in Opps /\ given \in Opps /\ Len(kept) \in Nat /\ Len(given) \in Nat
      BY DEF FilterInv, Types, Opps
    <3>2. Len(kept) = Len(given)
      BY <1>2, <2>1, <3>1
    <3> QED
      BY <2>1, <3>1, <3>2 DEF Opps
  <2>3. selected' = chosen'
    BY <1>1, <1>2, <2>1 DEF FilterInv, Followed, Enveloped, EnvelopeHolds, Types, Opps
  <2> QED
    BY <1>1, <2>1, <2>2, <2>3 DEF FilterInv, Stable
<1> QED
  BY <1>3, <1>4, <1>5, <1>6, <1>7 DEF FilterInv

(* Every other step. *)
LEMMA FilterSteps ==
  ASSUME FilterInv, [Next]_vars
  PROVE  FilterInv'
<1> USE DEF FilterInv, Types, Enveloped, Counted, Followed, Dropped, Held, Sound, Leading,
        Written, Stable, ReplacementRanked
<1>1. CASE Envelope
  <2>1. CASE EnvelopeHolds(given, chosen, noop) /\ given = <<>>
    BY <1>1, <2>1, FilterAssumption, SMTT(20) DEF Envelope, EnvelopeHolds, loop, Opps
  <2>2. CASE EnvelopeHolds(given, chosen, noop) /\ given # <<>>
    <3>1. Len(given) \in Nat
      BY DEF Opps
    <3> QED
      BY <1>1, <2>2, <3>1, FilterAssumption DEF Envelope, EnvelopeHolds, loop, Opps
  <2>3. CASE ~EnvelopeHolds(given, chosen, noop)
    BY <1>1, <2>3 DEF Envelope, Fail, loop
  <2> QED
    BY <2>1, <2>2, <2>3
<1>2. CASE Inspect
  BY <1>2, Inspecting
<1>3. CASE CatalogFails
  <2>1. known
    BY <1>3 DEF CatalogFails, Eligible, Opps
  <2> QED
    BY <1>3, <2>1 DEF CatalogFails, Fail, loop
<1>4. CASE AskAgain
  <2>1. known
    BY <1>4, InspectedSome DEF AskAgain
  <2>2. given' \in Opps
    BY <1>4, FilterAssumption DEF AskAgain, Opps
  <2>3. chosen' \in Int \cup {None}
    BY <1>4, FilterAssumption DEF AskAgain
  <2> QED
    BY <1>4, <2>1, <2>2, <2>3 DEF AskAgain, Opps
<1>5. CASE NothingLeft
  <2>1. known
    BY <1>5, InspectedSome DEF NothingLeft
  <2> QED
    BY <1>5, <2>1 DEF NothingLeft, Fail, loop
<1>6. CASE KeepSelection
  BY <1>6, Selecting
<1>7. CASE ReplaceSelection
  <2>1. known
    BY <1>7, FilterAssumption DEF ReplaceSelection, EnvelopeHolds, Opps
  <2>2. Len(kept) \in Nat \ {0} /\ Eps \in Nat /\ kept[1].score \in Int
    BY <1>7, FilterAssumption, Elements DEF ReplaceSelection, Opps, OpportunityType
  <2>3. Dropped
    BY <1>7, FilterAssumption DEF ReplaceSelection, EnvelopeHolds, Opps
  <2>4. Leading'
    BY <1>7, <2>2 DEF ReplaceSelection
  <2> QED
    BY <1>7, <2>1, <2>2, <2>3, <2>4 DEF ReplaceSelection, EnvelopeHolds
<1>8. CASE Compare
  BY <1>8, Comparing
<1>9. CASE TakeBest
  <2>1. known
    BY <1>9 DEF TakeBest
  <2>2. best \in 1..Len(kept) /\ RankingHolds'
    BY <1>9, LeaderTaken
  <2>4. best # None
    BY <2>2, FilterAssumption
  <2> QED
    BY <1>9, <2>1, <2>2, <2>4 DEF TakeBest, EnvelopeHolds
<1>10. CASE Check
  <2>1. CASE JudgmentHolds /\ RankingHolds
    <3>1. /\ file' = [kept |-> kept, selected |-> selected] /\ phase = "check" /\ phase' = "written"
          /\ UNCHANGED <<given, chosen, noop, known, attempt, loop>>
      BY <1>10, <2>1 DEF Check
    <3>2. JudgmentHolds' /\ RankingHolds'
      BY <2>1, <3>1 DEF JudgmentHolds, RankingHolds, loop, EnvelopeHolds
    <3> QED
      BY <3>1, <3>2 DEF loop
  <2>2. CASE ~(JudgmentHolds /\ RankingHolds)
    <3>1. known
      BY <1>10, <2>2, FilterAssumption DEF Check, JudgmentHolds, RankingHolds, EnvelopeHolds, Opps
    <3> QED
      BY <1>10, <2>2, <3>1 DEF Check, Fail, loop
  <2> QED
    BY <2>1, <2>2
<1>11. CASE Record
  BY <1>11 DEF Record, loop
<1>12. CASE Reload
  <2>1. /\ phase = "written" /\ phase' = "envelope" /\ given' = kept /\ chosen' = selected
        /\ file' = file /\ file.kept = kept /\ file.selected = selected /\ known' = FALSE
        /\ next' = 1 /\ kept' = <<>> /\ survivor' = None /\ best' = 1
        /\ selected' = None /\ rejected' = <<>> /\ UNCHANGED <<noop, attempt>>
    BY <1>12 DEF Reload
  <2>2. Types'
    <3>1. kept' \in Opps /\ rejected' \in Seq(Nat)
      BY <2>1 DEF Opps
    <3>2. chosen' \in Int \cup {None}
      BY <2>1
    <3>3. given' \in Opps /\ noop' \in BOOLEAN /\ known' \in BOOLEAN /\ attempt' \in 1..2
      BY <2>1
    <3> QED
      BY <2>1, <3>1, <3>2, <3>3
  <2>3. JudgmentHolds /\ RankingHolds
    BY <2>1
  <2>4. Stable'
    BY <2>1, <2>3, FilterAssumption DEF JudgmentHolds, RankingHolds, EnvelopeHolds, Opps
  <2> QED
    BY <2>1, <2>2, <2>4
<1>13. CASE Ended \/ UNCHANGED vars
  <2>1. UNCHANGED <<given, chosen, noop, known, attempt, phase, loop, file>>
    BY <1>13 DEF Ended, vars
  <2> QED
    BY <2>1 DEF loop, JudgmentHolds, RankingHolds, EnvelopeHolds
<1> QED
  BY <1>1, <1>2, <1>3, <1>4, <1>5, <1>6, <1>7, <1>8, <1>9, <1>10, <1>11, <1>12, <1>13 DEF Next

THEOREM FilterInvariant == Spec => []FilterInv
<1>1. Init => FilterInv
  BY FilterInitially
<1>2. FilterInv /\ [Next]_vars => FilterInv'
  BY FilterSteps
<1> QED
  BY <1>1, <1>2, PTL DEF Spec

(* A replacement for a rejected selection passes the ranking check that    *)
(* comes after it (the loop at the end of filterJudgment).                 *)
THEOREM ReplacementIsRanked == Spec => []ReplacementRanked
<1>1. FilterInv => ReplacementRanked
  BY DEF FilterInv, Leading
<1> QED
  BY <1>1, FilterInvariant, PTL

(* A selection that is not rejected is kept, whatever its new index        *)
(* (selectedFilteredIndex).                                                *)
THEOREM SelectionIsKept == Spec => []SelectionSurvives
<1>1. ASSUME FilterInv PROVE SelectionSurvives
  <2>1. (\A i \in DOMAIN rejected : rejected[i] # chosen) => ~Dropped
    BY <1>1 DEF FilterInv, Types, Dropped
  <2> QED
    BY <1>1, <2>1 DEF FilterInv, Followed, Held, SelectionSurvives
<1> QED
  BY <1>1, FilterInvariant, PTL

-----------------------------------------------------------------------------
(* Where each opportunity went: EachAccountedFor is inductive beside       *)
(* FilterInv.  An inspection adds one place or one rejection, the last; a  *)
(* step that leaves the lists alone leaves their places alone.             *)
LEMMA Ranges ==
  ASSUME NEW S, NEW f \in Seq(S)
  PROVE  DOMAIN f = 1..Len(f) /\ Len(f) \in Nat
OBVIOUS

(* A sequence that ascends below a bound ascends with the bound appended.  *)
LEMMA Ascends ==
  ASSUME NEW f \in Seq(Nat), NEW n \in Nat,
         Ascending(f), \A x \in Indices(f) : x < n
  PROVE  Ascending(Append(f, n)) /\ Indices(Append(f, n)) = Indices(f) \cup {n}
<1> DEFINE k == Len(f)
           g == Append(f, n)
<1>1. /\ k \in Nat /\ DOMAIN f = 1..k /\ DOMAIN g = 1..(k + 1)
      /\ g[k + 1] = n /\ \A i \in 1..k : g[i] = f[i] /\ f[i] \in Nat
  OBVIOUS
<1>2. \A i \in 1..k : f[i] < n
  BY <1>1 DEF Indices
<1>3. Ascending(f)
  OBVIOUS
<1> HIDE DEF k, g
<1>4. Ascending(g)
  <2> SUFFICES ASSUME NEW i \in 1..(k + 1), NEW j \in 1..(k + 1), i < j PROVE g[i] < g[j]
    BY <1>1 DEF Ascending
  <2>1. i \in 1..k /\ g[i] = f[i] /\ f[i] < n
    BY <1>1, <1>2
  <2>2. j \in 1..k => g[j] = f[j] /\ f[i] < f[j]
    BY <1>1, <1>3, <2>1 DEF Ascending
  <2>3. j \in 1..k \/ j = k + 1
    BY <1>1
  <2> QED
    BY <1>1, <2>1, <2>2, <2>3
<1>5. Indices(g) = Indices(f) \cup {n}
  <2>1. 1..(k + 1) = 1..k \cup {k + 1}
    BY <1>1
  <2>2. \A x : x \in Indices(f) <=> \E i \in 1..k : f[i] = x
    BY <1>1 DEF Indices
  <2>3. \A x : x \in Indices(g) <=> \E i \in 1..(k + 1) : g[i] = x
    BY <1>1 DEF Indices
  <2> QED
    BY <1>1, <2>1, <2>2, <2>3
<1> QED
  BY <1>4, <1>5 DEF g

LEMMA InspectingAccounts ==
  ASSUME FilterInv, EachAccountedFor, Inspect
  PROVE  EachAccountedFor'
<1> DEFINE o == given[next]
<1>1. /\ phase = "inspect" /\ next \in 1..Len(given) /\ Len(given) \in Nat
      /\ next' = next + 1
      /\ UNCHANGED <<given, known, phase>>
  BY Ranges DEF Inspect, FilterInv, Types, Opps
<1>2. Seen = next - 1 /\ Seen' = next
  BY <1>1 DEF Seen
<1>3. \A x : Fits(x)' <=> Fits(x)
  BY <1>1 DEF Fits, Resolves, Eligible, Normalized
<1>4. PICK place \in [DOMAIN kept -> 1..(next - 1)] : KeptFrom(place)
  BY <1>1, <1>2 DEF EachAccountedFor
<1>5. /\ Ascending(rejected) /\ Indices(rejected) = {n \in 1..(next - 1) : ~Fits(given[n])}
  BY <1>1, <1>2 DEF EachAccountedFor
<1>6. /\ DOMAIN kept = 1..Len(kept) /\ Len(kept) \in Nat
      /\ DOMAIN rejected = 1..Len(rejected) /\ Len(rejected) \in Nat
  BY Ranges DEF FilterInv, Types, Opps
<1>7. 1..next = 1..(next - 1) \cup {next} /\ next \notin 1..(next - 1)
  BY <1>1
<1>8. CASE Fits(o)
  <2>0. PICK k : k = Len(kept)
    OBVIOUS
  <2>k. k \in Nat /\ DOMAIN kept = 1..k
    BY <1>6, <2>0
  <2>1. kept' = Append(kept, Normalized(o)) /\ rejected' = rejected
    BY <1>1, <1>8 DEF Inspect, Fits, Keep
  <2>2. /\ DOMAIN kept' = 1..(k + 1)
        /\ \A i \in 1..k : kept'[i] = kept[i]
        /\ kept'[k + 1] = Normalized(o)
    BY <1>6, <2>0, <2>1 DEF FilterInv, Types, Opps
  <2>3. PICK longer : longer = Append(place, next)
    OBVIOUS
  <2>p. place \in Seq(Nat) /\ Len(place) = k
    BY <1>1, <1>4, <2>k, IsASeq
  <2>r. /\ longer \in [1..(k + 1) -> 1..next] /\ longer[k + 1] = next
        /\ \A i \in 1..k : longer[i] = place[i]
    <3>1. /\ DOMAIN longer = 1..(k + 1) /\ longer[k + 1] = next /\ longer \in Seq(Nat)
          /\ \A i \in 1..k : longer[i] = place[i]
      BY <1>1, <2>3, <2>p
    <3>2. \A i \in 1..(k + 1) : longer[i] \in 1..next
      <4>1. SUFFICES ASSUME NEW i \in 1..(k + 1) PROVE longer[i] \in 1..next
        OBVIOUS
      <4>2. CASE i \in 1..k
        <5>1. place[i] \in 1..(next - 1) /\ next \in Nat
          BY <1>1, <1>4, <2>k, <4>2
        <5> QED
          BY <3>1, <4>2, <5>1
      <4>3. CASE i = k + 1
        BY <1>1, <3>1, <4>3
      <4> QED
        BY <2>k, <4>1, <4>2, <4>3
    <3> QED
      BY <3>1, <3>2, <2>p
  <2>4. Ascending(longer) /\ Indices(longer) = Indices(place) \cup {next}
    <3>1. Ascending(place) /\ next \in Nat /\ \A x \in Indices(place) : x < next
      BY <1>1, <1>2, <1>4 DEF KeptFrom
    <3> QED
      BY <2>3, <2>p, <3>1, Ascends
  <2>5. Indices(longer) = {n \in 1..next : Fits(given[n])}
    BY <1>2, <1>4, <1>7, <1>8, <2>4 DEF KeptFrom
  <2>6. \A i \in 1..(k + 1) : kept'[i] = Normalized(given[longer[i]])
    <3> SUFFICES ASSUME NEW i \in 1..(k + 1) PROVE kept'[i] = Normalized(given[longer[i]])
      OBVIOUS
    <3>1. CASE i = k + 1
      BY <2>2, <2>r, <3>1
    <3>2. CASE i # k + 1
      <4>1. i \in 1..k
        BY <2>k, <3>2
      <4> QED
        BY <1>4, <2>k, <2>2, <2>r, <4>1 DEF KeptFrom
    <3> QED
      BY <3>1, <3>2
  <2>7. KeptFrom(longer)'
    <3>1. Ascending(longer)' /\ Indices(longer)' = {n \in 1..next : Fits(given[n])}
      BY <2>4, <2>5 DEF Ascending, Indices
    <3>2. \A i \in DOMAIN kept' : kept'[i] = Normalized(given[longer[i]])'
      BY <1>1, <2>2, <2>6 DEF Normalized
    <3>3. {n \in 1..next : Fits(given[n])} = {n \in 1..Seen : Fits(given[n])}'
      BY <1>1, <1>2, <1>3
    <3> QED
      BY <3>1, <3>2, <3>3 DEF KeptFrom
  <2>8. Indices(rejected)' = {n \in 1..next : ~Fits(given[n])}
    BY <1>5, <1>7, <1>8, <2>1 DEF Indices
  <2>9. Ascending(rejected)'
    BY <1>5, <2>1 DEF Ascending
  <2>10. {n \in 1..next : ~Fits(given[n])} = {n \in 1..Seen : ~Fits(given[n])}'
    BY <1>1, <1>2, <1>3
  <2>11. longer \in [DOMAIN kept -> 1..Seen]'
    BY <1>2, <2>2, <2>r
  <2> QED
    BY <2>7, <2>8, <2>9, <2>10, <2>11 DEF EachAccountedFor
<1>9. CASE ~Fits(o)
  <2>1. kept' = kept /\ rejected' = Append(rejected, next)
    BY <1>1, <1>9 DEF Inspect, Fits, Reject
  <2>4. PICK r : r = Append(rejected, next)
    OBVIOUS
  <2>5. Ascending(r) /\ Indices(r) = Indices(rejected) \cup {next}
    <3>1. rejected \in Seq(Nat) /\ next \in Nat /\ Ascending(rejected)
      BY <1>1, <1>5 DEF FilterInv, Types
    <3>2. \A x \in Indices(rejected) : x < next
      BY <1>1, <1>5
    <3> QED
      BY <2>4, <3>1, <3>2, Ascends
  <2>6. Indices(r) = {n \in 1..next : ~Fits(given[n])}
    BY <1>5, <1>7, <1>9, <2>5
  <2>7. Ascending(rejected)' /\ Indices(rejected)' = {n \in 1..next : ~Fits(given[n])}
    BY <2>1, <2>4, <2>5, <2>6 DEF Ascending, Indices
  <2>8. Indices(place) = {n \in 1..next : Fits(given[n])}
    BY <1>2, <1>4, <1>7, <1>9 DEF KeptFrom
  <2>9. KeptFrom(place)'
    BY <1>1, <1>2, <1>3, <1>4, <2>1, <2>8 DEF KeptFrom, Ascending, Indices, Normalized
  <2>10. place \in [DOMAIN kept -> 1..next]
    BY <1>4, <1>7
  <2>11. {n \in 1..next : ~Fits(given[n])} = {n \in 1..Seen : ~Fits(given[n])}'
    BY <1>1, <1>2, <1>3
  <2> QED
    BY <1>2, <2>1, <2>7, <2>9, <2>10, <2>11 DEF EachAccountedFor
<1> QED
  BY <1>8, <1>9

(* Nothing is inspected yet when the envelope is checked.                  *)
LEMMA NothingSeen ==
  ASSUME kept' = <<>>, rejected' = <<>>, Seen' = 0
  PROVE  EachAccountedFor'
<1>1. DOMAIN kept' = {} /\ DOMAIN rejected' = {}
  OBVIOUS
<1>2. PICK place : place \in [DOMAIN kept -> 1..Seen]' /\ DOMAIN place = {}
  <2>1. [i \in {} |-> 0] \in [DOMAIN kept -> 1..Seen]'
    BY <1>1
  <2> QED
    BY <2>1
<1>3. (1..Seen)' = {}
  OBVIOUS
<1>4. /\ Ascending(place)' /\ Ascending(rejected)'
      /\ Indices(place)' = {} /\ Indices(rejected)' = {}
  BY <1>1, <1>2 DEF Ascending, Indices
<1> QED
  BY <1>1, <1>2, <1>3, <1>4 DEF EachAccountedFor, KeptFrom

(* A step of the same judgment that leaves what was seen as it is.         *)
LEMMA SameAccount ==
  ASSUME EachAccountedFor, UNCHANGED <<given, known, kept, rejected>>, Seen' = Seen,
         phase \in {"inspect", "best", "check", "written"}
  PROVE  EachAccountedFor'
<1>1. \A x : Fits(x)' <=> Fits(x)
  BY DEF Fits, Resolves, Eligible, Normalized
<1>2. PICK place \in [DOMAIN kept -> 1..Seen] : KeptFrom(place)
  BY DEF EachAccountedFor
<1>3. KeptFrom(place)'
  BY <1>1, <1>2 DEF KeptFrom, Ascending, Indices, Normalized
<1>4. /\ Ascending(rejected)'
      /\ Indices(rejected)' = {n \in 1..Seen : ~Fits(given[n])}
  BY DEF EachAccountedFor, Ascending, Indices
<1> QED
  BY <1>1, <1>2, <1>3, <1>4 DEF EachAccountedFor

LEMMA AccountSteps ==
  ASSUME FilterInv, EachAccountedFor, [Next]_vars
  PROVE  EachAccountedFor'
<1>1. CASE Inspect
  BY <1>1, InspectingAccounts
<1>2. CASE Envelope
  <2>1. kept' = <<>> /\ rejected' = <<>> /\ next' = 1 /\ given' = given /\ phase = "envelope"
    BY <1>2 DEF Envelope, Fail, loop, FilterInv, Enveloped
  <2>2. CASE phase' \in {"inspect", "check"}
    <3>1. phase' = "check" => Len(given') = 0
      BY <1>2, <2>1 DEF Envelope, Fail
    <3>2. Seen' = 0
      BY <2>1, <2>2, <3>1 DEF Seen
    <3> QED
      BY <2>1, <3>2, NothingSeen
  <2>3. CASE phase' \notin {"inspect", "check"}
    <3>1. phase' = "failed"
      BY <1>2, <2>3 DEF Envelope, Fail
    <3> QED
      BY <3>1 DEF EachAccountedFor
  <2> QED
    BY <2>2, <2>3
<1>3. CASE KeepSelection \/ ReplaceSelection
  <2>1. /\ phase = "inspect" /\ phase' \in {"check", "best"} /\ next > Len(given)
        /\ UNCHANGED <<given, known, kept, rejected>>
    BY <1>3 DEF KeepSelection, ReplaceSelection
  <2>2. next = Len(given) + 1 /\ Len(given) \in Nat
    BY <2>1, Ranges DEF FilterInv, Counted, Types, Opps
  <2>3. Seen' = Seen
    BY <2>1, <2>2 DEF Seen
  <2> QED
    BY <2>1, <2>3, SameAccount
<1>4. CASE Compare \/ TakeBest \/ Check
  <2>1. CASE phase' = "failed"
    BY <2>1 DEF EachAccountedFor
  <2>2. CASE phase' # "failed"
    <3>1. /\ phase \in {"best", "check"} /\ phase' \in {"best", "check", "written"}
          /\ UNCHANGED <<given, known, kept, rejected>>
      BY <1>4, <2>2 DEF Compare, TakeBest, Check, Fail, loop
    <3>2. Seen' = Seen
      BY <3>1 DEF Seen
    <3> QED
      BY <3>1, <3>2, SameAccount
  <2> QED
    BY <2>1, <2>2
<1>5. CASE CatalogFails \/ AskAgain \/ NothingLeft \/ Record \/ Reload
  <2>1. phase' \in {"failed", "envelope", "recorded"}
    BY <1>5 DEF CatalogFails, AskAgain, NothingLeft, Record, Reload, Fail
  <2> QED
    BY <2>1 DEF EachAccountedFor
<1>6. CASE Ended \/ UNCHANGED vars
  <2>1. UNCHANGED <<given, known, kept, rejected, next, phase>>
    BY <1>6 DEF Ended, vars, loop
  <2>2. Seen' = Seen
    BY <2>1 DEF Seen
  <2>3. CASE phase \in {"inspect", "best", "check", "written"}
    BY <2>1, <2>2, <2>3, SameAccount
  <2>4. CASE phase \notin {"inspect", "best", "check", "written"}
    BY <2>1, <2>4 DEF EachAccountedFor
  <2> QED
    BY <2>3, <2>4
<1> QED
  BY <1>1, <1>2, <1>3, <1>4, <1>5, <1>6 DEF Next

(* Every opportunity of the judge is kept or rejected on record, exactly   *)
(* one of the two, in order, and the one the filter's conditions call for  *)
(* (the loop of filterJudgment), up to the judgment that is written.       *)
THEOREM NothingIsLost == Spec => []EachAccountedFor
<1>1. Init => EachAccountedFor
  BY DEF Init, EachAccountedFor
<1>2. FilterInv /\ EachAccountedFor /\ [Next]_vars => EachAccountedFor'
  BY AccountSteps
<1> QED
  BY <1>1, <1>2, FilterInvariant, PTL DEF Spec

-----------------------------------------------------------------------------
(* Of the checks after the filter only the ranking can still fail.         *)
THEOREM LeftoversAreEligible == Spec => []OnlyEligibleKept
<1>1. ASSUME FilterInv, phase = "check" PROVE JudgmentHolds
  <2>1. /\ DOMAIN kept = 1..Len(kept) /\ (chosen = None) = noop
        /\ selected = None <=> chosen = None
    BY <1>1 DEF FilterInv, Types, Opps, Enveloped, EnvelopeHolds, Followed
  <2> QED
    BY <1>1, <2>1 DEF FilterInv, Types, Sound, JudgmentHolds, EnvelopeHolds
<1> QED
  BY <1>1, FilterInvariant, PTL DEF OnlyEligibleKept

(* Filtering a stored judgment again leaves it as it is, so an interrupted *)
(* cycle goes on with the judgment it had.                                 *)
THEOREM ReloadKeeps == Spec => []ReloadIsStable
<1>1. FilterInv => ReloadIsStable
  BY DEF FilterInv, Stable, ReloadIsStable
<1> QED
  BY <1>1, FilterInvariant, PTL

=============================================================================
