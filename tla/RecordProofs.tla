---------------------------- MODULE RecordProofs ----------------------------
(***************************************************************************)
(* Proofs about what is kept of a cycle: its run in Intercore              *)
(* (RunCreation) and its evidence on disk (Evidence), for any number of    *)
(* faults, restarts, orphans and identifiers.                              *)
(*                                                                         *)
(* The creation.  The invariant says why list-then-create is enough until  *)
(* a command outlives its invocation: from the empty list to the end of    *)
(* the command the scope stays empty, because only the command of this     *)
(* call can fill it.                                                       *)
(*                                                                         *)
(* The evidence.  The invariant has two halves.  Facts says of the         *)
(* document, between two steps, what its marks, its stage and its list     *)
(* have to do with each other and with the disk: no kind is recorded       *)
(* before the mark behind which its section never comes to write it        *)
(* again.  Running says where a section is: its plan is unrolled into      *)
(* rows, one per step, each with the kinds that are still to be written    *)
(* and those still to be noted, and what is still written is not recorded. *)
(* A step goes from row to row (Onto), and the record that ends a section  *)
(* keeps the facts.  A command that runs on although the cycle has failed  *)
(* puts an end to both; what holds then for good is that the cycle has     *)
(* failed (RunOn).                                                         *)
(***************************************************************************)
EXTENDS MCRecords, FiniteSetTheorems, SequenceTheorems, WellFoundedInduction, TLAPS

-----------------------------------------------------------------------------
(* The creation of a run. *)

Empty == runs = {}
Single == \E id \in RunIds : runs = {id}

(* What holds while every command has ended with its invocation. *)
Alone ==
  /\ orphans = 0
  /\ Empty \/ Single
  /\ pc = "create" => Empty
  /\ command = "running" => pc = "wait" /\ Empty
  /\ command = "committed" => pc = "wait" /\ Single
  /\ answer # None => runs = {answer}

CreationInv == TypeOK /\ (outlived \/ Alone)

\* The invariant holds initially.
LEMMA CreationInitially ==
  ASSUME Init
  PROVE  CreationInv
<1>1. 0 \in 0..MaxFaults /\ 0 \in 0..MaxOrphans
  BY CreationAssumption
<1>2. cancelled \in BOOLEAN /\ missed \in BOOLEAN /\ outlived \in BOOLEAN
  BY DEF Init
<1> QED
  BY <1>1, <1>2 DEF Init, CreationInv, TypeOK, Alone, Empty, Single

\* Every step keeps the types.
LEMMA CreationTypes ==
  ASSUME TypeOK, [Next]_vars
  PROVE  TypeOK'
<1> USE CreationAssumption DEF TypeOK, Fault
<1>1. CASE Begin
  BY <1>1 DEF Begin
<1>2. CASE List
  BY <1>2 DEF List, Found, OnlyRun, Fits, NotUnique, WhenEmpty
<1>3. CASE ListFails
  BY <1>3 DEF ListFails
<1>4. CASE StartCreate
  BY <1>4 DEF StartCreate
<1>5. CASE Commit
  BY <1>5 DEF Commit
<1>6. CASE Created
  BY <1>6 DEF Created, ReadableAnswer
<1>7. CASE CreateUnclear
  BY <1>7 DEF CreateUnclear
<1>8. CASE Relist
  BY <1>8 DEF Relist, Found, OnlyRun, Fits, NotUnique, Detached
<1>9. CASE RelistFails
  <2>1. cancelled' \in BOOLEAN /\ missed' \in BOOLEAN /\ outlived' \in BOOLEAN
    BY <1>9 DEF RelistFails
  <2> QED
    BY <1>9, <2>1 DEF RelistFails, Detached
<1>10. CASE Cancel
  BY <1>10 DEF Cancel
<1>11. CASE Restart
  <2>1. cancelled' \in BOOLEAN /\ missed' \in BOOLEAN /\ outlived' \in BOOLEAN
    BY <1>11 DEF Restart
  <2>2. orphans' \in 0..MaxOrphans /\ faults' \in 0..MaxFaults
    BY <1>11 DEF Restart
  <2> QED
    BY <1>11, <2>1, <2>2 DEF Restart
<1>12. CASE OrphanEnds
  BY <1>12 DEF OrphanEnds
<1>13. CASE Alter
  BY <1>13 DEF Alter
<1>14. CASE Resting \/ UNCHANGED vars
  BY <1>14 DEF Resting, vars
<1> QED
  BY <1>1, <1>2, <1>3, <1>4, <1>5, <1>6, <1>7, <1>8, <1>9, <1>10, <1>11, <1>12, <1>13, <1>14 DEF Next

(* Until a command outlives its invocation, every step keeps the invariant. *)
LEMMA CreationAlone ==
  ASSUME TypeOK, Alone, ~outlived', [Next]_vars
  PROVE  Alone'
<1> USE CreationAssumption DEF TypeOK, Alone, Empty, Single
<1>1. CASE Begin
  BY <1>1 DEF Begin
<1>2. CASE List
  BY <1>2 DEF List, Found, OnlyRun, Fits, NotUnique, WhenEmpty
<1>3. CASE ListFails
  BY <1>3 DEF ListFails
<1>4. CASE StartCreate
  BY <1>4 DEF StartCreate
<1>5. CASE Commit
  BY <1>5 DEF Commit
<1>6. CASE Created
  BY <1>6 DEF Created, ReadableAnswer
<1>7. CASE CreateUnclear
  BY <1>7 DEF CreateUnclear
<1>8. CASE Relist
  BY <1>8 DEF Relist, Found, OnlyRun, Fits, NotUnique, Detached
<1>9. CASE RelistFails
  BY <1>9 DEF RelistFails, Detached
<1>10. CASE Cancel
  BY <1>10 DEF Cancel
<1>11. CASE Restart
  <2>1. ~(orphans' > orphans)
    BY <1>11, Zenon DEF Restart
  <2>2. orphans' = orphans \/ orphans' = orphans + 1
    BY <1>11 DEF Restart
  <2>3. orphans' = 0
    BY <2>1, <2>2
  <2> QED
    BY <1>11, <2>3 DEF Restart
<1>12. CASE OrphanEnds
  BY <1>12 DEF OrphanEnds
<1>13. CASE Alter
  BY <1>13 DEF Alter
<1>14. CASE Resting \/ UNCHANGED vars
  BY <1>14 DEF Resting, vars
<1> QED
  BY <1>1, <1>2, <1>3, <1>4, <1>5, <1>6, <1>7, <1>8, <1>9, <1>10, <1>11, <1>12, <1>13, <1>14 DEF Next

\* Every step keeps the invariant.
LEMMA CreationSteps ==
  ASSUME CreationInv, [Next]_vars
  PROVE  CreationInv'
<1>1. outlived => outlived'
  BY DEF Next, vars, Begin, List, ListFails, StartCreate, Commit, Created, CreateUnclear, Relist,
     RelistFails, Cancel, Restart, OrphanEnds, Alter, Resting
<1>2. outlived' \/ Alone'
  BY <1>1, CreationAlone DEF CreationInv
<1> QED
  BY <1>2, CreationTypes DEF CreationInv

\* Behind every step the scope holds the run of this call's command or
\* nothing, unless a command has outlived its invocation.
THEOREM CreationInvariant == Spec => []CreationInv
<1>1. Init => CreationInv
  BY CreationInitially
<1>2. CreationInv /\ [Next]_vars => CreationInv'
  BY CreationSteps
<1> QED
  BY <1>1, <1>2, PTL DEF Spec

(* The cycle's scope never holds two runs, however often CreateCycleRun is *)
(* interrupted and repeated, unless a creation outlives its invocation.    *)
THEOREM AtMostOneRun == Spec => []OneRun
<1>1. ASSUME CreationInv PROVE OneRun
  <2>1. CASE Empty
    BY <2>1, FS_EmptySet DEF Empty, OneRun
  <2>0. CASE outlived
    BY <2>0 DEF OneRun
  <2>2. CASE Single
    <3>1. PICK id \in RunIds : runs = {id}
      BY <2>2 DEF Single
    <3>2. Cardinality({id}) = 1
      BY FS_Singleton
    <3> QED
      BY <3>1, <3>2 DEF OneRun
  <2> QED
    BY <1>1, <2>0, <2>1, <2>2 DEF CreationInv, Alone
<1> QED
  BY <1>1, CreationInvariant, PTL

(* The state of the keyed creation. *)
Abstract == <<TheRun, answer, ~outlived>>

\* The run of the abstract specification, when there is one or none.
LEMMA TheOnlyRun ==
  /\ \A id \in RunIds : runs = {id} => TheRun = id /\ TheRun # None
  /\ runs = {} => TheRun = None
BY CreationAssumption DEF TheRun

\* Every step is one of the keyed creation, or a stutter.
LEMMA StepsRefine ==
  ASSUME CreationInv, CreationInv', [Next]_vars
  PROVE  [KeyedRunSpec!Next]_Abstract
<1>1. CASE outlived'
  <2>1. (~outlived)' = FALSE
    BY <1>1
  <2> QED
    BY <2>1 DEF KeyedRunSpec!Next, KeyedRunSpec!Lapse, Abstract
<1>2. CASE ~outlived'
  <2> USE DEF CreationInv, Alone, Empty, Single
  <2>1. ~outlived
    BY <1>2 DEF Next, vars, Begin, List, ListFails, StartCreate, Commit, Created, CreateUnclear,
       Relist, RelistFails, Cancel, Restart, OrphanEnds, Alter, Resting
  <2>2. UNCHANGED (~outlived)
    BY <1>2, <2>1 DEF TypeOK
  <2>3. UNCHANGED runs => UNCHANGED TheRun
    BY DEF TheRun
  <2>4. answer' # None => runs' = {answer'} /\ answer' \in RunIds
    BY <1>2 DEF TypeOK
  <2>5. CASE UNCHANGED runs
    <3>1. CASE answer' = None
      BY <2>2, <2>3, <2>5, <3>1 DEF KeyedRunSpec!Next, KeyedRunSpec!Forget, TheRun
    <3>2. CASE answer' # None
      BY <2>2, <2>3, <2>4, <2>5, <3>2, TheOnlyRun DEF KeyedRunSpec!Next, KeyedRunSpec!Answer, TheRun
    <3> QED
      BY <3>1, <3>2
  <2>6. CASE ~UNCHANGED runs
    <3>1. Commit
      BY <2>1, <2>6 DEF Next, vars, Begin, List, ListFails, StartCreate, Created, CreateUnclear,
         Relist, RelistFails, Cancel, Restart, OrphanEnds, Alter, Resting
    <3>2. runs = {} /\ answer' = answer /\ runs' # {}
      BY <2>1, <3>1 DEF Commit
    <3>3. PICK id \in RunIds : runs' = {id}
      BY <1>2, <3>2
    <3>4. TheRun' = id
      BY <3>3, CreationAssumption DEF TheRun
    <3> QED
      BY <2>2, <3>2, <3>3, <3>4, TheOnlyRun DEF KeyedRunSpec!Next, KeyedRunSpec!Create, TheRun
  <2> QED
    BY <2>5, <2>6
<1> QED
  BY <1>1, <1>2

(* CreateCycleRun implements one keyed, atomic creation until a creation   *)
(* outlives its invocation: the refinement the model of the cycle relies   *)
(* on when it creates the run in one step.                                 *)
THEOREM CreationIsKeyed == Spec => CreatesKeyed
<1>1. Init => KeyedRunSpec!Init
  BY DEF Init, KeyedRunSpec!Init, TheRun
<1>2. CreationInv /\ CreationInv' /\ [Next]_vars => [KeyedRunSpec!Next]_<<TheRun, answer, ~outlived>>
  BY StepsRefine DEF Abstract
<1> QED
  BY <1>1, <1>2, CreationInvariant, PTL DEF Spec, CreatesKeyed, KeyedRunSpec!Spec, TheRun

(* A command that ends in reconcileCycleRun without a run has been told    *)
(* the truth: there is none, the run was altered, the list failed too, or  *)
(* a creation outlived its invocation.                                     *)
THEOREM NoRunIsLost == Spec => ReconciliationFinds
<1>1. CreationInv /\ [Next]_vars =>
        [pc = "relist" /\ pc' = "failed" /\ ~missed' /\ ~outlived => runs \subseteq altered]_vars
  <2> SUFFICES ASSUME CreationInv, [Next]_vars, pc = "relist", pc' = "failed",
                      ~missed', ~outlived
               PROVE  runs \subseteq altered
    OBVIOUS
  <2>1. Relist
    BY DEF Next, vars, Begin, List, ListFails, StartCreate, Commit, Created, CreateUnclear,
       RelistFails, Detached, Cancel, Restart, OrphanEnds, Alter, Resting
  <2>2. runs = {} \/ NotUnique
    BY <2>1 DEF Relist, Found
  <2>3. runs = {} \/ \E id \in RunIds : runs = {id}
    BY DEF CreationInv, Alone, Empty, Single
  <2> QED BY <2>2, <2>3 DEF NotUnique, OnlyRun, Fits
<1> QED BY <1>1, CreationInvariant, PTL DEF Spec, ReconciliationFinds

-----------------------------------------------------------------------------
(* Types. *)

Marks == {"none", "started", "late", "completed"}
Stages == {"observing", "ranked", "awaiting", "approved", "reviewing", "compounding",
           "completed", "failed"}
Artifacts == [kind : E!Kinds, digest : Nat]
Docs ==
  [stage : Stages, list : Seq(Artifacts), mark : [E!Sections -> Marks],
   judgment : Nat, candidate : BOOLEAN,
   reason : {"none", "judge", "shadow", "duplicate"}, declined : BOOLEAN,
   verdict : {"none", "promote", "close"}, cites : SUBSET Artifacts,
   roadmap : Nat, content : Nat, signed : BOOLEAN]

EvidenceTypes ==
  /\ mode \in {"proposal", "shadow"}
  /\ doc \in Docs /\ mem \in Docs /\ receipt \in Docs
  /\ disk \in [E!Kinds -> Nat] /\ bound \in Nat
  /\ choice \in {"none", "noop", "select"}
  /\ place \in {"idle", "claim", "work"}

-----------------------------------------------------------------------------
(* What a document says, of a disk dk, a judgment that decides ch, a cycle *)
(* of mode md and a receipt that shows r.                                  *)

KindsOf(list) == {list[i].kind : i \in DOMAIN list}
In(d, k) == k \in KindsOf(d.list)

(* A list of artifacts that are on disk, one of each kind. *)
Tidy(list, dk) ==
  /\ \A i \in DOMAIN list : dk[list[i].kind] # 0 /\ list[i].digest = dk[list[i].kind]
  /\ \A i, j \in DOMAIN list : list[i].kind = list[j].kind => i = j

(* Once a section has recorded a kind, it does not come to write it again. *)
Past(d) ==
  /\ d.stage # "failed" =>
       /\ In(d, "components") \/ In(d, "observation") => d.mark["capture"] \in {"late", "completed"}
       /\ In(d, "attempt") \/ In(d, "judgment") => d.mark["judge"] # "none"
       /\ In(d, "approval") => d.stage \notin {"observing", "ranked", "awaiting"}
       /\ In(d, "decline") => d.declined
       /\ In(d, "report") \/ In(d, "patch") \/ In(d, "transcript") =>
            d.mark["execute"] = "completed"
       /\ In(d, "streams") \/ In(d, "measurement") =>
            d.stage \notin {"observing", "ranked", "awaiting", "approved"}
       /\ In(d, "material") \/ In(d, "review") => d.mark["review"] # "none"
       /\ In(d, "outcome") => d.mark["outcome"] = "completed"
       /\ In(d, "roadmap") => d.mark["roadmap"] = "completed"
  /\ In(d, "receipt") => d.mark["receipt"] # "none"
  /\ In(d, "signature") => d.signed
  /\ d.stage = "observing" => d.mark["judge"] # "completed"
  /\ d.mark["review"] # "completed"
  /\ d.mark["receipt"] = "completed" => d.signed

(* What the judgment and the end of a cycle leave in its document. *)
Decided(d, dk, ch) ==
  /\ In(d, "judgment") <=> d.judgment # 0
  /\ d.judgment # 0 => d.judgment = dk["judgment"]
  /\ d.candidate => In(d, "judgment") /\ ch = "select"
  /\ d.stage \notin {"observing", "failed"} =>
       In(d, "judgment") /\ (ch = "select" => d.candidate)
  /\ In(d, "judgment") \/ d.mark["capture"] = "completed" => In(d, "observation")
  /\ In(d, "observation") => In(d, "components")
  /\ In(d, "roadmap") <=> d.roadmap # 0
  /\ d.roadmap # 0 => d.roadmap = dk["roadmap"]

Endings(d, md) ==
  /\ In(d, "proposal-backlog") =>
       d.candidate /\ md = "proposal" /\ d.stage \in {"ranked", "completed"}
  /\ d.stage \in {"awaiting", "approved", "reviewing", "compounding"} =>
       d.candidate /\ md = "proposal"
  /\ d.reason # "none" => d.stage = "completed"
  /\ d.stage = "completed" =>
       \/ d.reason = "judge" /\ ~d.candidate
       \/ d.reason = "shadow" /\ d.candidate /\ md = "shadow"
       \/ d.reason = "duplicate" /\ In(d, "proposal-backlog")
       \/ d.reason = "none" /\ d.candidate /\ md = "proposal" /\ ~In(d, "proposal-backlog")

(* What the review has accepted. *)
Projected(d) ==
  d.candidate /\ In(d, "judgment") /\ In(d, "approval") /\ In(d, "measurement")
Accepted(d, dk) ==
  d.stage = "compounding" =>
    /\ Projected(d) /\ In(d, "review")
    /\ \A ref \in d.cites : In(d, ref.kind) /\ ref.digest = dk[ref.kind]
    /\ d.verdict = "promote" => E!Required \subseteq {ref.kind : ref \in d.cites}

(* The receipt shows the document as it is. *)
Shows(r, d, dk) ==
  /\ Tidy(r.list, dk)
  /\ KindsOf(r.list) = KindsOf(d.list) \ {"receipt", "signature"}
  /\ r.stage = IF d.stage = "failed" THEN "failed" ELSE "completed"
  /\ r.judgment = d.judgment /\ r.candidate = d.candidate
  /\ r.reason = d.reason /\ r.roadmap = d.roadmap
  /\ r.mark["capture"] = d.mark["capture"]

Ending(d) ==
  \/ d.stage \in {"completed", "failed"}
  \/ /\ d.stage = "compounding"
     /\ d.mark["outcome"] = "completed" /\ d.mark["roadmap"] = "completed"
Receipted(d, dk, r) ==
  /\ d.signed => d.mark["receipt"] # "none" /\ d.stage \in {"completed", "failed"}
  /\ d.mark["receipt"] # "none" => Shows(r, d, dk) /\ Ending(d)

Facts(d, dk, ch, md, r) ==
  /\ Tidy(d.list, dk) /\ Past(d) /\ Decided(d, dk, ch) /\ Endings(d, md)
  /\ Accepted(d, dk) /\ Receipted(d, dk, r)

OnDisk ==
  /\ disk["observation"] # 0 => disk["components"] # 0 /\ bound = disk["components"]
  /\ disk["judgment"] # 0 => choice # "none"
  /\ doc.mark["capture"] = "none" => disk["observation"] = 0
  /\ disk["measurement"] # 0 => disk["streams"] # 0

-----------------------------------------------------------------------------
(* The sections of a command.  A row is what is left of one: where it is,  *)
(* the steps, and the kinds that are still written and still noted.        *)

Row(p, t, ws, ns) == [at |-> p, left |-> t, writes |-> ws, notes |-> ns]

CaptureRows ==
  LET C == "components"
      O == "observation"
  IN {Row("claim", <<>>, {C, O}, {C, O}),
      Row("work", <<E!W(C), E!W(O), E!N(C), E!N(O), E!Late>>, {C, O}, {C, O}),
      Row("work", <<E!W(O), E!N(C), E!N(O), E!Late>>, {O}, {C, O}),
      Row("work", <<E!N(C), E!N(O), E!Late>>, {}, {C, O}),
      Row("work", <<E!N(O), E!Late>>, {}, {O}),
      Row("work", <<E!Late>>, {}, {}),
      Row("work", <<>>, {}, {})}

JudgeRows ==
  LET C == "components"
      O == "observation"
      A == "attempt"
      J == "judgment"
  IN {Row("claim", <<E!N(C), E!N(O)>>, {A, J}, {C, O, A, J}),
      Row("claim", <<E!N(O)>>, {A, J}, {O, A, J}),
      Row("claim", <<>>, {A, J}, {A, J}),
      Row("work", <<E!W(A), E!N(A), E!Save, E!W(J), E!N(J), E!Adopt>>, {A, J}, {A, J}),
      Row("work", <<E!N(A), E!Save, E!W(J), E!N(J), E!Adopt>>, {J}, {A, J}),
      Row("work", <<E!Save, E!W(J), E!N(J), E!Adopt>>, {J}, {J}),
      Row("work", <<E!W(J), E!N(J), E!Adopt>>, {J}, {J}),
      Row("work", <<E!N(C), E!N(O), E!N(J), E!Adopt>>, {}, {C, O, J}),
      Row("work", <<E!N(O), E!N(J), E!Adopt>>, {}, {O, J}),
      Row("work", <<E!N(J), E!Adopt>>, {}, {J}),
      Row("work", <<E!Adopt>>, {}, {}),
      Row("work", <<>>, {}, {})}

DuplicateRows ==
  LET B == "proposal-backlog"
  IN {Row("work", <<E!W(B), E!N(B), E!Save, E!Late>>, {B}, {B}),
      Row("work", <<E!N(B), E!Save, E!Late>>, {}, {B}),
      Row("work", <<E!Save, E!Late>>, {}, {}),
      Row("work", <<E!Late>>, {}, {}),
      Row("work", <<>>, {}, {})}

(* A section that writes and notes one file. *)
SingleRows(k) ==
  {Row("work", <<E!W(k), E!N(k)>>, {k}, {k}), Row("work", <<E!N(k)>>, {}, {k}),
   Row("work", <<>>, {}, {})}

ExecuteRows ==
  LET R == "report"
      P == "patch"
      T == "transcript"
  IN {Row("claim", <<>>, {R, P, T}, {R, P, T}),
      Row("work", <<E!W(R), E!N(R), E!W(P), E!N(P), E!W(T), E!N(T)>>, {R, P, T}, {R, P, T}),
      Row("work", <<E!N(R), E!W(P), E!N(P), E!W(T), E!N(T)>>, {P, T}, {R, P, T}),
      Row("work", <<E!W(P), E!N(P), E!W(T), E!N(T)>>, {P, T}, {P, T}),
      Row("work", <<E!N(P), E!W(T), E!N(T)>>, {T}, {P, T}),
      Row("work", <<E!W(T), E!N(T)>>, {T}, {T}),
      Row("work", <<E!N(T)>>, {}, {T}),
      Row("work", <<E!N(R), E!W(P), E!N(P)>>, {P}, {R, P}),
      Row("work", <<E!W(P), E!N(P)>>, {P}, {P}),
      Row("work", <<E!N(P)>>, {}, {P}),
      Row("work", <<>>, {}, {})}

BenchmarkRows ==
  LET S == "streams"
      M == "measurement"
  IN {Row("claim", <<>>, {S, M}, {S, M}),
      Row("work", <<E!W(S), E!N(S), E!W(M), E!N(M)>>, {S, M}, {S, M}),
      Row("work", <<E!N(S), E!W(M), E!N(M)>>, {M}, {S, M}),
      Row("work", <<E!W(M), E!N(M)>>, {M}, {M}),
      Row("work", <<E!N(M)>>, {}, {M}),
      Row("work", <<E!N(M), E!N(S)>>, {}, {S, M}),
      Row("work", <<E!N(S)>>, {}, {S}),
      Row("work", <<>>, {}, {})}

ReviewRows ==
  LET M == "material"
      V == "review"
  IN {Row("claim", <<E!W(M), E!N(M)>>, {M, V}, {M, V}),
      Row("claim", <<E!N(M)>>, {V}, {M, V}),
      Row("claim", <<>>, {V}, {V})} \cup SingleRows(V)

RoadmapRows == {Row("claim", <<>>, {"roadmap"}, {"roadmap"})} \cup SingleRows("roadmap")

ReceiptRows ==
  LET R == "receipt"
      S == "signature"
  IN {Row("claim", <<E!W(R), E!N(R)>>, {R, S}, {R, S}),
      Row("claim", <<E!N(R)>>, {S}, {R, S}),
      Row("claim", <<>>, {S}, {R, S}),
      Row("work", <<E!N(R), E!W(S), E!N(S)>>, {S}, {R, S})} \cup SingleRows(S)

Rows(s) ==
  CASE s = "capture" -> CaptureRows
    [] s = "judge" -> JudgeRows
    [] s = "duplicate" -> DuplicateRows
    [] s = "approve" -> SingleRows("approval")
    [] s = "decline" -> SingleRows("decline")
    [] s = "execute" -> ExecuteRows
    [] s = "benchmark" -> BenchmarkRows
    [] s = "review" -> ReviewRows
    [] s = "outcome" -> SingleRows("outcome")
    [] s = "roadmap" -> RoadmapRows
    [] s = "receipt" -> ReceiptRows
    [] OTHER -> {Row("work", <<>>, {}, {})}

(* The files a section writes, and those its record rests on. *)
Owned(s) ==
  CASE s = "capture" -> {"components", "observation"}
    [] s = "judge" -> {"attempt", "judgment"}
    [] s = "duplicate" -> {"proposal-backlog"}
    [] s = "approve" -> {"approval"}
    [] s = "decline" -> {"decline"}
    [] s = "execute" -> {"report", "patch", "transcript"}
    [] s = "benchmark" -> {"streams", "measurement"}
    [] s = "review" -> {"material", "review"}
    [] s = "outcome" -> {"outcome"}
    [] s = "roadmap" -> {"roadmap"}
    [] s = "receipt" -> {"receipt", "signature"}
    [] OTHER -> {}

Owed(s) ==
  IF s \in {"capture", "duplicate", "approve", "benchmark", "roadmap"} THEN Owned(s)
  ELSE IF s = "review" THEN {"review"}
  ELSE IF s = "judge" THEN {"judgment"}
  ELSE {}

(* The document a section is for. *)
Entered(d, md, s) ==
  /\ s \in E!Sections
  /\ s = "capture" => d.stage = "observing" /\ d.mark["capture"] # "completed"
  /\ s = "judge" => d.stage = "observing" /\ d.mark["capture"] = "completed"
  /\ s = "no-op" => d.stage = "ranked" /\ (~d.candidate \/ md = "shadow")
  /\ s \in {"duplicate", "propose"} => d.stage = "ranked" /\ d.candidate /\ md = "proposal"
  /\ s = "propose" => ~In(d, "proposal-backlog")
  /\ s \in {"approve", "decline", "declined"} => d.stage = "awaiting"
  /\ s = "decline" => ~d.declined
  /\ s \in {"execute", "benchmark"} => d.stage = "approved"
  /\ s = "execute" => d.mark["execute"] # "completed"
  /\ s = "review" => d.stage = "reviewing" /\ Projected(d)
  /\ s = "outcome" => d.stage = "compounding" /\ d.mark["outcome"] # "completed"
  /\ s = "roadmap" =>
       /\ d.stage = "compounding" /\ d.mark["outcome"] = "completed"
       /\ d.mark["roadmap"] # "completed"
  /\ s = "receipt" => Ending(d) /\ ~d.signed

(* What a command holds on to while it is in a section. *)
Copied(d, m, s, dk) ==
  /\ m = [d EXCEPT !.list = m.list] /\ Tidy(m.list, dk)
  /\ KindsOf(d.list) \subseteq KindsOf(m.list)
  /\ KindsOf(m.list) \subseteq KindsOf(d.list) \cup Owned(s)

Clear(ws, ns) ==
  /\ ws \subseteq Owned(sec) /\ ws \cap KindsOf(mem.list) = {}
  /\ ns \subseteq Owned(sec) \cup KindsOf(doc.list)
  /\ \A k \in ns \ ws : disk[k] # 0
  /\ sec \in E!Blind => ns \cap KindsOf(mem.list) = {}
  /\ Owed(sec) \subseteq KindsOf(mem.list) \cup ns
  /\ "components" \in ws => disk["observation"] = 0
  /\ sec = "receipt" =>
       IF place = "claim"
       THEN doc.mark["receipt"] = "none" /\ ("receipt" \notin ws => Shows(receipt, mem, disk))
       ELSE "receipt" \notin ws

Running ==
  /\ Copied(doc, mem, sec, disk) /\ Entered(doc, mode, sec)
  /\ \E row \in Rows(sec) : row.at = place /\ row.left = todo /\ Clear(row.writes, row.notes)
  /\ place = "work" /\ E!PlanOf(sec).claim => doc.mark[sec] # "none"
  /\ sec = "capture" => (In(mem, "observation") => In(mem, "components"))
  /\ place = "work" /\ sec = "judge" =>
       /\ In(mem, "judgment") /\ mem.judgment = 0 => todo = <<E!Adopt>>
       /\ todo = <<>> => mem.judgment # 0 /\ (choice = "select" => mem.candidate)

EvidenceInv ==
  /\ EvidenceTypes /\ Facts(doc, disk, choice, mode, receipt) /\ OnDisk
  /\ place # "idle" => Running

-----------------------------------------------------------------------------
(* From row to row. *)

\* What the first step of a row is, and that the rest is a row again.
FirstWrites(s, row) ==
  \E k \in row.writes \cap row.notes :
    /\ row.left[1] = E!W(k) /\ Row(row.at, Tail(row.left), row.writes \ {k}, row.notes) \in Rows(s)
    /\ k = "observation" => "components" \in row.notes \ row.writes
    /\ k = "measurement" => s = "benchmark" /\ "streams" \notin row.writes
    /\ k = "receipt" => row.at = "claim" /\ s = "receipt"
    /\ k = "transcript" => Row(row.at, Tail(Tail(row.left)), {}, {}) \in Rows(s) /\ row.writes = {k}
    /\ s = "judge" => Tail(row.left) # <<>>

FirstNotes(s, row) ==
  \E k \in row.notes \ row.writes : \E n \in {row.notes, row.notes \ {k}} :
    /\ row.left[1] = E!N(k) /\ Row(row.at, Tail(row.left), row.writes, n) \in Rows(s)
    /\ k = "observation" => "components" \notin row.notes
    /\ k = "judgment" => Tail(row.left) = <<E!Adopt>>
    /\ s \in E!Blind => n = row.notes \ {k}
    /\ s = "judge" /\ row.at = "work" => Tail(row.left) # <<>>

FirstKeeps(s, row) ==
  /\ row.at = "work" /\ Row("work", Tail(row.left), row.writes, row.notes) \in Rows(s)
  /\ \/ row.left[1] = E!Save /\ s \in {"judge", "duplicate"}
     \/ row.left[1] = E!Late /\ s \in {"capture", "duplicate"}
  /\ s = "judge" => Tail(row.left) # <<>>
  /\ s = "capture" => row.notes = {}

FirstAdopts(s, row) ==
  /\ s = "judge" /\ row.at = "work" /\ row.left = <<E!Adopt>>
  /\ row.writes = {} /\ row.notes = {}

Onto(s, row) ==
  FirstWrites(s, row) \/ FirstNotes(s, row) \/ FirstKeeps(s, row) \/ FirstAdopts(s, row)

\* The rows of a section that writes and notes one file.
LEMMA SingleOnto ==
  ASSUME NEW s, NEW k, SingleRows(k) \subseteq Rows(s), NEW row \in SingleRows(k),
         row.left # <<>>, s # "judge",
         k \notin {"observation", "measurement", "receipt", "transcript", "judgment"}
  PROVE  Onto(s, row)
<1>1. CASE row = Row("work", <<E!W(k), E!N(k)>>, {k}, {k})
  <2>1. /\ row.at = "work" /\ row.left[1] = E!W(k) /\ Tail(row.left) = <<E!N(k)>>
        /\ row.writes = {k} /\ row.notes = {k} /\ row.writes \ {k} = {}
    BY <1>1 DEF Row
  <2> QED BY <2>1 DEF Onto, FirstWrites, SingleRows
<1>2. CASE row = Row("work", <<E!N(k)>>, {}, {k})
  <2>1. /\ row.at = "work" /\ row.left[1] = E!N(k) /\ Tail(row.left) = <<>>
        /\ row.writes = {} /\ row.notes = {k} /\ row.notes \ {k} = {}
    BY <1>2 DEF Row
  <2> QED BY <2>1 DEF Onto, FirstNotes, SingleRows
<1> QED BY <1>1, <1>2 DEF SingleRows, Row

\* The rows of the capture, one by one.
LEMMA CaptureOnto ==
  ASSUME NEW row \in CaptureRows, row.left # <<>>
  PROVE  Onto("capture", row)
<1>0. Rows("capture") = CaptureRows BY DEF Rows
<1>1. CASE row = Row("work", <<E!W("components"), E!W("observation"), E!N("components"),
     E!N("observation"), E!Late>>, {"components", "observation"}, {"components",
     "observation"})
  <2>1. /\ row.at = "work" /\ row.left[1] = E!W("components")
        /\ Tail(row.left) = <<E!W("observation"), E!N("components"), E!N("observation"), E!Late>>
        /\ row.writes = {"components", "observation"}
        /\ row.notes = {"components", "observation"}
        /\ row.writes \ {"components"} = {"observation"}
    BY <1>1 DEF Row
  <2> QED BY <1>0, <2>1 DEF Onto, FirstWrites, CaptureRows
<1>2. CASE row = Row("work", <<E!W("observation"), E!N("components"),
     E!N("observation"), E!Late>>, {"observation"}, {"components", "observation"})
  <2>1. /\ row.at = "work" /\ row.left[1] = E!W("observation")
        /\ Tail(row.left) = <<E!N("components"), E!N("observation"), E!Late>>
        /\ row.writes = {"observation"} /\ row.notes = {"components", "observation"}
        /\ row.writes \ {"observation"} = {}
    BY <1>2 DEF Row
  <2> QED BY <1>0, <2>1 DEF Onto, FirstWrites, CaptureRows
<1>3. CASE row = Row("work", <<E!N("components"), E!N("observation"), E!Late>>, {},
     {"components", "observation"})
  <2>1. /\ row.at = "work" /\ row.left[1] = E!N("components")
        /\ Tail(row.left) = <<E!N("observation"), E!Late>> /\ row.writes = {}
        /\ row.notes = {"components", "observation"}
        /\ row.notes \ {"components"} = {"observation"}
    BY <1>3 DEF Row
  <2> QED BY <1>0, <2>1 DEF Onto, FirstNotes, CaptureRows, E!Blind
<1>4. CASE row = Row("work", <<E!N("observation"), E!Late>>, {}, {"observation"})
  <2>1. /\ row.at = "work" /\ row.left[1] = E!N("observation")
        /\ Tail(row.left) = <<E!Late>> /\ row.writes = {} /\ row.notes = {"observation"}
        /\ row.notes \ {"observation"} = {}
    BY <1>4 DEF Row
  <2> QED BY <1>0, <2>1 DEF Onto, FirstNotes, CaptureRows, E!Blind
<1>5. CASE row = Row("work", <<E!Late>>, {}, {})
  <2>1. /\ row.at = "work" /\ row.left[1] = E!Late /\ Tail(row.left) = <<>>
        /\ row.writes = {} /\ row.notes = {}
    BY <1>5 DEF Row
  <2> QED BY <1>0, <2>1 DEF Onto, FirstKeeps, CaptureRows, E!Save, E!Late
<1> QED BY <1>1, <1>2, <1>3, <1>4, <1>5 DEF CaptureRows, Row

\* The rows of the judgment, one by one.
LEMMA JudgeOnto ==
  ASSUME NEW row \in JudgeRows, row.left # <<>>
  PROVE  Onto("judge", row)
<1>0. Rows("judge") = JudgeRows BY DEF Rows
<1>1. CASE row = Row("claim", <<E!N("components"), E!N("observation")>>, {"attempt",
     "judgment"}, {"components", "observation", "attempt", "judgment"})
  <2>1. /\ row.at = "claim" /\ row.left[1] = E!N("components")
        /\ Tail(row.left) = <<E!N("observation")>>
        /\ row.writes = {"attempt", "judgment"}
        /\ row.notes = {"components", "observation", "attempt", "judgment"}
        /\ row.notes \ {"components"} = {"observation", "attempt", "judgment"}
    BY <1>1 DEF Row
  <2>2. Row("claim", <<E!N("observation")>>, {"attempt", "judgment"}, {"observation",
       "attempt", "judgment"}) \in Rows("judge")
    BY <1>0 DEF JudgeRows
  <2> QED BY <1>0, <2>1, <2>2 DEF Onto, FirstNotes, E!Blind
<1>2. CASE row = Row("claim", <<E!N("observation")>>, {"attempt", "judgment"},
     {"observation", "attempt", "judgment"})
  <2>1. /\ row.at = "claim" /\ row.left[1] = E!N("observation") /\ Tail(row.left) = <<>>
        /\ row.writes = {"attempt", "judgment"}
        /\ row.notes = {"observation", "attempt", "judgment"}
        /\ row.notes \ {"observation"} = {"attempt", "judgment"}
    BY <1>2 DEF Row
  <2>2. Row("claim", <<>>, {"attempt", "judgment"}, {"attempt", "judgment"}) \in
       Rows("judge")
    BY <1>0 DEF JudgeRows
  <2> QED BY <1>0, <2>1, <2>2 DEF Onto, FirstNotes, E!Blind
<1>3. CASE row = Row("work", <<E!W("attempt"), E!N("attempt"), E!Save, E!W("judgment"),
     E!N("judgment"), E!Adopt>>, {"attempt", "judgment"}, {"attempt", "judgment"})
  <2>1. /\ row.at = "work" /\ row.left[1] = E!W("attempt")
        /\ Tail(row.left) = <<E!N("attempt"), E!Save, E!W("judgment"), E!N("judgment"), E!Adopt>>
        /\ row.writes = {"attempt", "judgment"} /\ row.notes = {"attempt", "judgment"}
        /\ row.writes \ {"attempt"} = {"judgment"} /\ Tail(row.left) # <<>>
    BY <1>3 DEF Row
  <2>2. Row("work", <<E!N("attempt"), E!Save, E!W("judgment"), E!N("judgment"),
       E!Adopt>>, {"judgment"}, {"attempt", "judgment"}) \in Rows("judge")
    BY <1>0 DEF JudgeRows
  <2> QED BY <1>0, <2>1, <2>2 DEF Onto, FirstWrites
<1>4. CASE row = Row("work", <<E!N("attempt"), E!Save, E!W("judgment"), E!N("judgment"),
     E!Adopt>>, {"judgment"}, {"attempt", "judgment"})
  <2>1. /\ row.at = "work" /\ row.left[1] = E!N("attempt")
        /\ Tail(row.left) = <<E!Save, E!W("judgment"), E!N("judgment"), E!Adopt>>
        /\ row.writes = {"judgment"} /\ row.notes = {"attempt", "judgment"}
        /\ row.notes \ {"attempt"} = {"judgment"} /\ Tail(row.left) # <<>>
    BY <1>4 DEF Row
  <2>2. Row("work", <<E!Save, E!W("judgment"), E!N("judgment"), E!Adopt>>, {"judgment"},
       {"judgment"}) \in Rows("judge")
    BY <1>0 DEF JudgeRows
  <2> QED BY <1>0, <2>1, <2>2 DEF Onto, FirstNotes, E!Blind
<1>5. CASE row = Row("work", <<E!Save, E!W("judgment"), E!N("judgment"), E!Adopt>>,
     {"judgment"}, {"judgment"})
  <2>1. /\ row.at = "work" /\ row.left[1] = E!Save
        /\ Tail(row.left) = <<E!W("judgment"), E!N("judgment"), E!Adopt>>
        /\ row.writes = {"judgment"} /\ row.notes = {"judgment"} /\ Tail(row.left) # <<>>
    BY <1>5 DEF Row
  <2>2. Row("work", <<E!W("judgment"), E!N("judgment"), E!Adopt>>, {"judgment"},
       {"judgment"}) \in Rows("judge")
    BY <1>0 DEF JudgeRows
  <2> QED BY <1>0, <2>1, <2>2 DEF Onto, FirstKeeps, E!Save, E!Late
<1>6. CASE row = Row("work", <<E!W("judgment"), E!N("judgment"), E!Adopt>>,
     {"judgment"}, {"judgment"})
  <2>1. /\ row.at = "work" /\ row.left[1] = E!W("judgment")
        /\ Tail(row.left) = <<E!N("judgment"), E!Adopt>> /\ row.writes = {"judgment"}
        /\ row.notes = {"judgment"} /\ row.writes \ {"judgment"} = {}
        /\ Tail(row.left) # <<>>
    BY <1>6 DEF Row
  <2>2. Row("work", <<E!N("judgment"), E!Adopt>>, {}, {"judgment"}) \in Rows("judge")
    BY <1>0 DEF JudgeRows
  <2> QED BY <1>0, <2>1, <2>2 DEF Onto, FirstWrites
<1>7. CASE row = Row("work", <<E!N("components"), E!N("observation"), E!N("judgment"),
     E!Adopt>>, {}, {"components", "observation", "judgment"})
  <2>1. /\ row.at = "work" /\ row.left[1] = E!N("components")
        /\ Tail(row.left) = <<E!N("observation"), E!N("judgment"), E!Adopt>>
        /\ row.writes = {} /\ row.notes = {"components", "observation", "judgment"}
        /\ row.notes \ {"components"} = {"observation", "judgment"}
        /\ Tail(row.left) # <<>>
    BY <1>7 DEF Row
  <2>2. Row("work", <<E!N("observation"), E!N("judgment"), E!Adopt>>, {},
       {"observation", "judgment"}) \in Rows("judge")
    BY <1>0 DEF JudgeRows
  <2> QED BY <1>0, <2>1, <2>2 DEF Onto, FirstNotes, E!Blind
<1>8. CASE row = Row("work", <<E!N("observation"), E!N("judgment"), E!Adopt>>, {},
     {"observation", "judgment"})
  <2>1. /\ row.at = "work" /\ row.left[1] = E!N("observation")
        /\ Tail(row.left) = <<E!N("judgment"), E!Adopt>> /\ row.writes = {}
        /\ row.notes = {"observation", "judgment"}
        /\ row.notes \ {"observation"} = {"judgment"} /\ Tail(row.left) # <<>>
    BY <1>8 DEF Row
  <2>2. Row("work", <<E!N("judgment"), E!Adopt>>, {}, {"judgment"}) \in Rows("judge")
    BY <1>0 DEF JudgeRows
  <2> QED BY <1>0, <2>1, <2>2 DEF Onto, FirstNotes, E!Blind
<1>9. CASE row = Row("work", <<E!N("judgment"), E!Adopt>>, {}, {"judgment"})
  <2>1. /\ row.at = "work" /\ row.left[1] = E!N("judgment")
        /\ Tail(row.left) = <<E!Adopt>> /\ row.writes = {} /\ row.notes = {"judgment"}
        /\ row.notes \ {"judgment"} = {} /\ Tail(row.left) # <<>>
    BY <1>9 DEF Row
  <2>2. Row("work", <<E!Adopt>>, {}, {}) \in Rows("judge")
    BY <1>0 DEF JudgeRows
  <2> QED BY <1>0, <2>1, <2>2 DEF Onto, FirstNotes, E!Blind
<1>10. CASE row = Row("work", <<E!Adopt>>, {}, {})
  <2>1. /\ row.left = <<E!Adopt>> /\ row.at = "work" /\ row.writes = {} /\ row.notes = {}
    BY <1>10 DEF Row
  <2> QED BY <1>0, <2>1 DEF Onto, FirstAdopts, JudgeRows
<1> QED BY <1>1, <1>2, <1>3, <1>4, <1>5, <1>6, <1>7, <1>8, <1>9, <1>10 DEF JudgeRows,
     Row

\* The rows of the deduplication, one by one.
LEMMA DuplicateOnto ==
  ASSUME NEW row \in DuplicateRows, row.left # <<>>
  PROVE  Onto("duplicate", row)
<1>0. Rows("duplicate") = DuplicateRows BY DEF Rows
<1>1. CASE row = Row("work", <<E!W("proposal-backlog"), E!N("proposal-backlog"), E!Save,
     E!Late>>, {"proposal-backlog"}, {"proposal-backlog"})
  <2>1. /\ row.at = "work" /\ row.left[1] = E!W("proposal-backlog")
        /\ Tail(row.left) = <<E!N("proposal-backlog"), E!Save, E!Late>>
        /\ row.writes = {"proposal-backlog"} /\ row.notes = {"proposal-backlog"}
        /\ row.writes \ {"proposal-backlog"} = {}
    BY <1>1 DEF Row
  <2> QED BY <1>0, <2>1 DEF Onto, FirstWrites, DuplicateRows
<1>2. CASE row = Row("work", <<E!N("proposal-backlog"), E!Save, E!Late>>, {},
     {"proposal-backlog"})
  <2>1. /\ row.at = "work" /\ row.left[1] = E!N("proposal-backlog")
        /\ Tail(row.left) = <<E!Save, E!Late>> /\ row.writes = {}
        /\ row.notes = {"proposal-backlog"} /\ row.notes \ {"proposal-backlog"} = {}
    BY <1>2 DEF Row
  <2> QED BY <1>0, <2>1 DEF Onto, FirstNotes, DuplicateRows, E!Blind
<1>3. CASE row = Row("work", <<E!Save, E!Late>>, {}, {})
  <2>1. /\ row.at = "work" /\ row.left[1] = E!Save /\ Tail(row.left) = <<E!Late>>
        /\ row.writes = {} /\ row.notes = {}
    BY <1>3 DEF Row
  <2> QED BY <1>0, <2>1 DEF Onto, FirstKeeps, DuplicateRows, E!Save, E!Late
<1>4. CASE row = Row("work", <<E!Late>>, {}, {})
  <2>1. /\ row.at = "work" /\ row.left[1] = E!Late /\ Tail(row.left) = <<>>
        /\ row.writes = {} /\ row.notes = {}
    BY <1>4 DEF Row
  <2> QED BY <1>0, <2>1 DEF Onto, FirstKeeps, DuplicateRows, E!Save, E!Late
<1> QED BY <1>1, <1>2, <1>3, <1>4 DEF DuplicateRows, Row

\* The rows of the execution, one by one.
LEMMA ExecuteOnto ==
  ASSUME NEW row \in ExecuteRows, row.left # <<>>
  PROVE  Onto("execute", row)
<1>0. Rows("execute") = ExecuteRows BY DEF Rows
<1>1. CASE row = Row("work", <<E!W("report"), E!N("report"), E!W("patch"), E!N("patch"),
     E!W("transcript"), E!N("transcript")>>, {"report", "patch", "transcript"},
     {"report", "patch", "transcript"})
  <2>1. /\ row.at = "work" /\ row.left[1] = E!W("report")
        /\ Tail(row.left) = <<E!N("report"), E!W("patch"), E!N("patch"), E!W("transcript"), E!N("transcript")>>
        /\ row.writes = {"report", "patch", "transcript"}
        /\ row.notes = {"report", "patch", "transcript"}
        /\ row.writes \ {"report"} = {"patch", "transcript"}
    BY <1>1 DEF Row
  <2> QED BY <1>0, <2>1 DEF Onto, FirstWrites, ExecuteRows
<1>2. CASE row = Row("work", <<E!N("report"), E!W("patch"), E!N("patch"),
     E!W("transcript"), E!N("transcript")>>, {"patch", "transcript"}, {"report",
     "patch", "transcript"})
  <2>1. /\ row.at = "work" /\ row.left[1] = E!N("report")
        /\ Tail(row.left) = <<E!W("patch"), E!N("patch"), E!W("transcript"), E!N("transcript")>>
        /\ row.writes = {"patch", "transcript"}
        /\ row.notes = {"report", "patch", "transcript"}
        /\ row.notes \ {"report"} = {"patch", "transcript"}
    BY <1>2 DEF Row
  <2> QED BY <1>0, <2>1 DEF Onto, FirstNotes, ExecuteRows, E!Blind
<1>3. CASE row = Row("work", <<E!W("patch"), E!N("patch"), E!W("transcript"),
     E!N("transcript")>>, {"patch", "transcript"}, {"patch", "transcript"})
  <2>1. /\ row.at = "work" /\ row.left[1] = E!W("patch")
        /\ Tail(row.left) = <<E!N("patch"), E!W("transcript"), E!N("transcript")>>
        /\ row.writes = {"patch", "transcript"} /\ row.notes = {"patch", "transcript"}
        /\ row.writes \ {"patch"} = {"transcript"}
    BY <1>3 DEF Row
  <2> QED BY <1>0, <2>1 DEF Onto, FirstWrites, ExecuteRows
<1>4. CASE row = Row("work", <<E!N("patch"), E!W("transcript"), E!N("transcript")>>,
     {"transcript"}, {"patch", "transcript"})
  <2>1. /\ row.at = "work" /\ row.left[1] = E!N("patch")
        /\ Tail(row.left) = <<E!W("transcript"), E!N("transcript")>>
        /\ row.writes = {"transcript"} /\ row.notes = {"patch", "transcript"}
        /\ row.notes \ {"patch"} = {"transcript"}
    BY <1>4 DEF Row
  <2> QED BY <1>0, <2>1 DEF Onto, FirstNotes, ExecuteRows, E!Blind
<1>5. CASE row = Row("work", <<E!W("transcript"), E!N("transcript")>>, {"transcript"},
     {"transcript"})
  <2>1. /\ row.at = "work" /\ row.left[1] = E!W("transcript")
        /\ Tail(row.left) = <<E!N("transcript")>> /\ row.writes = {"transcript"}
        /\ row.notes = {"transcript"} /\ row.writes \ {"transcript"} = {}
        /\ Tail(Tail(row.left)) = <<>>
    BY <1>5 DEF Row
  <2> QED BY <1>0, <2>1 DEF Onto, FirstWrites, ExecuteRows
<1>6. CASE row = Row("work", <<E!N("transcript")>>, {}, {"transcript"})
  <2>1. /\ row.at = "work" /\ row.left[1] = E!N("transcript") /\ Tail(row.left) = <<>>
        /\ row.writes = {} /\ row.notes = {"transcript"}
        /\ row.notes \ {"transcript"} = {}
    BY <1>6 DEF Row
  <2> QED BY <1>0, <2>1 DEF Onto, FirstNotes, ExecuteRows, E!Blind
<1>7. CASE row = Row("work", <<E!N("report"), E!W("patch"), E!N("patch")>>, {"patch"},
     {"report", "patch"})
  <2>1. /\ row.at = "work" /\ row.left[1] = E!N("report")
        /\ Tail(row.left) = <<E!W("patch"), E!N("patch")>> /\ row.writes = {"patch"}
        /\ row.notes = {"report", "patch"} /\ row.notes \ {"report"} = {"patch"}
    BY <1>7 DEF Row
  <2> QED BY <1>0, <2>1 DEF Onto, FirstNotes, ExecuteRows, E!Blind
<1>8. CASE row = Row("work", <<E!W("patch"), E!N("patch")>>, {"patch"}, {"patch"})
  <2>1. /\ row.at = "work" /\ row.left[1] = E!W("patch")
        /\ Tail(row.left) = <<E!N("patch")>> /\ row.writes = {"patch"}
        /\ row.notes = {"patch"} /\ row.writes \ {"patch"} = {}
    BY <1>8 DEF Row
  <2> QED BY <1>0, <2>1 DEF Onto, FirstWrites, ExecuteRows
<1>9. CASE row = Row("work", <<E!N("patch")>>, {}, {"patch"})
  <2>1. /\ row.at = "work" /\ row.left[1] = E!N("patch") /\ Tail(row.left) = <<>>
        /\ row.writes = {} /\ row.notes = {"patch"} /\ row.notes \ {"patch"} = {}
    BY <1>9 DEF Row
  <2> QED BY <1>0, <2>1 DEF Onto, FirstNotes, ExecuteRows, E!Blind
<1> QED BY <1>1, <1>2, <1>3, <1>4, <1>5, <1>6, <1>7, <1>8, <1>9 DEF ExecuteRows, Row

\* The rows of the benchmark, one by one.
LEMMA BenchmarkOnto ==
  ASSUME NEW row \in BenchmarkRows, row.left # <<>>
  PROVE  Onto("benchmark", row)
<1>0. Rows("benchmark") = BenchmarkRows BY DEF Rows
<1>1. CASE row = Row("work", <<E!W("streams"), E!N("streams"), E!W("measurement"),
     E!N("measurement")>>, {"streams", "measurement"}, {"streams", "measurement"})
  <2>1. /\ row.at = "work" /\ row.left[1] = E!W("streams")
        /\ Tail(row.left) = <<E!N("streams"), E!W("measurement"), E!N("measurement")>>
        /\ row.writes = {"streams", "measurement"}
        /\ row.notes = {"streams", "measurement"}
        /\ row.writes \ {"streams"} = {"measurement"}
    BY <1>1 DEF Row
  <2> QED BY <1>0, <2>1 DEF Onto, FirstWrites, BenchmarkRows
<1>2. CASE row = Row("work", <<E!N("streams"), E!W("measurement"), E!N("measurement")>>,
     {"measurement"}, {"streams", "measurement"})
  <2>1. /\ row.at = "work" /\ row.left[1] = E!N("streams")
        /\ Tail(row.left) = <<E!W("measurement"), E!N("measurement")>>
        /\ row.writes = {"measurement"} /\ row.notes = {"streams", "measurement"}
        /\ row.notes \ {"streams"} = {"measurement"}
    BY <1>2 DEF Row
  <2> QED BY <1>0, <2>1 DEF Onto, FirstNotes, BenchmarkRows, E!Blind
<1>3. CASE row = Row("work", <<E!W("measurement"), E!N("measurement")>>,
     {"measurement"}, {"measurement"})
  <2>1. /\ row.at = "work" /\ row.left[1] = E!W("measurement")
        /\ Tail(row.left) = <<E!N("measurement")>> /\ row.writes = {"measurement"}
        /\ row.notes = {"measurement"} /\ row.writes \ {"measurement"} = {}
    BY <1>3 DEF Row
  <2> QED BY <1>0, <2>1 DEF Onto, FirstWrites, BenchmarkRows
<1>4. CASE row = Row("work", <<E!N("measurement")>>, {}, {"measurement"})
  <2>1. /\ row.at = "work" /\ row.left[1] = E!N("measurement") /\ Tail(row.left) = <<>>
        /\ row.writes = {} /\ row.notes = {"measurement"}
        /\ row.notes \ {"measurement"} = {}
    BY <1>4 DEF Row
  <2> QED BY <1>0, <2>1 DEF Onto, FirstNotes, BenchmarkRows, E!Blind
<1>5. CASE row = Row("work", <<E!N("measurement"), E!N("streams")>>, {}, {"streams",
     "measurement"})
  <2>1. /\ row.at = "work" /\ row.left[1] = E!N("measurement")
        /\ Tail(row.left) = <<E!N("streams")>> /\ row.writes = {}
        /\ row.notes = {"streams", "measurement"}
        /\ row.notes \ {"measurement"} = {"streams"}
    BY <1>5 DEF Row
  <2> QED BY <1>0, <2>1 DEF Onto, FirstNotes, BenchmarkRows, E!Blind
<1>6. CASE row = Row("work", <<E!N("streams")>>, {}, {"streams"})
  <2>1. /\ row.at = "work" /\ row.left[1] = E!N("streams") /\ Tail(row.left) = <<>>
        /\ row.writes = {} /\ row.notes = {"streams"} /\ row.notes \ {"streams"} = {}
    BY <1>6 DEF Row
  <2> QED BY <1>0, <2>1 DEF Onto, FirstNotes, BenchmarkRows, E!Blind
<1> QED BY <1>1, <1>2, <1>3, <1>4, <1>5, <1>6 DEF BenchmarkRows, Row

\* The rows of the review, one by one.
LEMMA ReviewOnto ==
  ASSUME NEW row \in ReviewRows, row.left # <<>>
  PROVE  Onto("review", row)
<1>0. Rows("review") = ReviewRows BY DEF Rows
<1>1. CASE row = Row("claim", <<E!W("material"), E!N("material")>>, {"material",
     "review"}, {"material", "review"})
  <2>1. /\ row.at = "claim" /\ row.left[1] = E!W("material")
        /\ Tail(row.left) = <<E!N("material")>> /\ row.writes = {"material", "review"}
        /\ row.notes = {"material", "review"} /\ row.writes \ {"material"} = {"review"}
    BY <1>1 DEF Row
  <2> QED BY <1>0, <2>1 DEF Onto, FirstWrites, ReviewRows
<1>2. CASE row = Row("claim", <<E!N("material")>>, {"review"}, {"material", "review"})
  <2>1. /\ row.at = "claim" /\ row.left[1] = E!N("material") /\ Tail(row.left) = <<>>
        /\ row.writes = {"review"} /\ row.notes = {"material", "review"}
        /\ row.notes \ {"material"} = {"review"}
    BY <1>2 DEF Row
  <2> QED BY <1>0, <2>1 DEF Onto, FirstNotes, ReviewRows, E!Blind
<1>3. CASE row \in SingleRows("review")
  BY <1>0, <1>3, SingleOnto DEF ReviewRows
<1> QED BY <1>1, <1>2, <1>3 DEF ReviewRows, Row

\* The rows of the receipt, one by one.
LEMMA ReceiptOnto ==
  ASSUME NEW row \in ReceiptRows, row.left # <<>>
  PROVE  Onto("receipt", row)
<1>0. Rows("receipt") = ReceiptRows BY DEF Rows
<1>1. CASE row = Row("claim", <<E!W("receipt"), E!N("receipt")>>, {"receipt",
     "signature"}, {"receipt", "signature"})
  <2>1. /\ row.at = "claim" /\ row.left[1] = E!W("receipt")
        /\ Tail(row.left) = <<E!N("receipt")>> /\ row.writes = {"receipt", "signature"}
        /\ row.notes = {"receipt", "signature"}
        /\ row.writes \ {"receipt"} = {"signature"}
    BY <1>1 DEF Row
  <2>2. Row("claim", <<E!N("receipt")>>, {"signature"}, {"receipt", "signature"}) \in
       Rows("receipt")
    BY <1>0 DEF ReceiptRows, SingleRows
  <2> QED BY <1>0, <2>1, <2>2 DEF Onto, FirstWrites
<1>2. CASE row = Row("claim", <<E!N("receipt")>>, {"signature"}, {"receipt",
     "signature"})
  <2>1. /\ row.at = "claim" /\ row.left[1] = E!N("receipt") /\ Tail(row.left) = <<>>
        /\ row.writes = {"signature"} /\ row.notes = {"receipt", "signature"}
        /\ row.notes \ {"receipt"} = {"signature"}
    BY <1>2 DEF Row
  <2>2. Row("claim", <<>>, {"signature"}, {"receipt", "signature"}) \in Rows("receipt")
    BY <1>0 DEF ReceiptRows, SingleRows
  <2> QED BY <1>0, <2>1, <2>2 DEF Onto, FirstNotes, E!Blind
<1>3. CASE row = Row("work", <<E!N("receipt"), E!W("signature"), E!N("signature")>>,
     {"signature"}, {"receipt", "signature"})
  <2>1. /\ row.at = "work" /\ row.left[1] = E!N("receipt")
        /\ Tail(row.left) = <<E!W("signature"), E!N("signature")>>
        /\ row.writes = {"signature"} /\ row.notes = {"receipt", "signature"}
        /\ row.notes \ {"receipt"} = {"signature"}
    BY <1>3 DEF Row
  <2>2. Row("work", <<E!W("signature"), E!N("signature")>>, {"signature"},
       {"signature"}) \in Rows("receipt")
    BY <1>0 DEF ReceiptRows, SingleRows
  <2> QED BY <1>0, <2>1, <2>2 DEF Onto, FirstNotes, E!Blind
<1>4. CASE row \in SingleRows("signature")
  BY <1>0, <1>4, SingleOnto DEF ReceiptRows
<1> QED BY <1>1, <1>2, <1>3, <1>4 DEF ReceiptRows, Row
\* Every row that has a step left goes on to a row.
LEMMA Onward ==
  ASSUME NEW s, NEW row \in Rows(s), row.left # <<>>
  PROVE  Onto(s, row)
<1>1. CASE s \in {"approve", "decline", "outcome"}
  <2>1. PICK k \in {"approval", "decline", "outcome"} : Rows(s) = SingleRows(k)
    BY <1>1 DEF Rows
  <2> QED BY <1>1, <2>1, SingleOnto
<1>2. CASE s = "roadmap"
  <2>1. SingleRows("roadmap") \subseteq Rows("roadmap") /\ row \in SingleRows("roadmap")
    BY <1>2 DEF Rows, RoadmapRows, Row
  <2> QED BY <1>2, <2>1, SingleOnto
<1> QED BY <1>1, <1>2, CaptureOnto, JudgeOnto, DuplicateOnto, ExecuteOnto, BenchmarkOnto,
          ReviewOnto, ReceiptOnto DEF Rows, Row

\* The plans of the sections, field by field.
PlanIs(plan, claim, before, work, found, rest, stuck, failing) ==
  /\ plan.claim = claim /\ plan.before = before /\ plan.work = work
  /\ plan.found = found /\ plan.rest = rest /\ plan.stuck = stuck /\ plan.failing = failing

\* The plans of ResumeObservation and of the deduplication.
LEMMA ObservationPlans ==
  /\ PlanIs(E!PlanOf("capture"), TRUE, <<>>,
       <<E!W("components"), E!W("observation"), E!N("components"), E!N("observation"), E!Late>>,
       "observation", <<E!N("components"), E!N("observation"), E!Late>>, "fail", "all")
  /\ PlanIs(E!PlanOf("judge"), TRUE, <<E!N("components"), E!N("observation")>>,
       <<E!W("attempt"), E!N("attempt"), E!Save, E!W("judgment"), E!N("judgment"), E!Adopt>>,
       "judgment", <<E!N("components"), E!N("observation"), E!N("judgment"), E!Adopt>>,
       "fail", "all")
  /\ PlanIs(E!PlanOf("duplicate"), FALSE, <<>>,
       <<E!W("proposal-backlog"), E!N("proposal-backlog"), E!Save, E!Late>>,
       "proposal-backlog", <<E!N("proposal-backlog"), E!Save, E!Late>>, "stop", "none")
<1>1. /\ E!PlanOf("capture") = E!Capture
      /\ E!PlanOf("judge") = E!Judge
      /\ E!PlanOf("duplicate") = E!Duplicate
  BY DEF E!PlanOf
<1> QED BY <1>1, ZenonT(40) DEF E!Plan, PlanIs, E!Capture, E!Judge, E!Duplicate

\* The plans of the principal's decision, and the empty ones.
LEMMA DecisionPlans ==
  /\ PlanIs(E!PlanOf("approve"), FALSE, <<>>, <<E!W("approval"), E!N("approval")>>, "none", <<>>,
       "repeat", "none")
  /\ PlanIs(E!PlanOf("decline"), FALSE, <<>>, <<E!W("decline"), E!N("decline")>>, "none", <<>>,
       "repeat", "none")
  /\ \A s \in {"no-op", "propose", "declined"} :
       PlanIs(E!PlanOf(s), FALSE, <<>>, <<>>, "none", <<>>, "repeat", "none")
<1>1. /\ E!PlanOf("approve") = E!Approve
      /\ E!PlanOf("decline") = E!Decline
      /\ \A s \in {"no-op", "propose", "declined"} : E!PlanOf(s) = E!Plan
  BY DEF E!PlanOf
<1> QED BY <1>1 DEF E!Plan, PlanIs, E!Approve, E!Decline

\* The plans of Execute and Review.
LEMMA ExecutionPlans ==
  /\ PlanIs(E!PlanOf("execute"), TRUE, <<>>,
       <<E!W("report"), E!N("report"), E!W("patch"), E!N("patch"),
         E!W("transcript"), E!N("transcript")>>,
       "report", <<E!N("report"), E!W("patch"), E!N("patch")>>, "stop", "writes")
  /\ PlanIs(E!PlanOf("benchmark"), TRUE, <<>>,
       <<E!W("streams"), E!N("streams"), E!W("measurement"), E!N("measurement")>>,
       "measurement", <<E!N("measurement"), E!N("streams")>>, "stop", "writes")
  /\ PlanIs(E!PlanOf("review"), TRUE, <<E!W("material"), E!N("material")>>,
       <<E!W("review"), E!N("review")>>, "review", <<E!N("review")>>, "stop", "writes")
<1>1. /\ E!PlanOf("execute") = E!Execute
      /\ E!PlanOf("benchmark") = E!Benchmark
      /\ E!PlanOf("review") = E!Review
  BY DEF E!PlanOf
<1> QED BY <1>1, ZenonT(40) DEF E!Plan, PlanIs, E!Execute, E!Benchmark, E!Review

\* The plans of Compound.
LEMMA CompoundPlans ==
  /\ PlanIs(E!PlanOf("outcome"), FALSE, <<>>, <<E!W("outcome"), E!N("outcome")>>, "none", <<>>,
       "repeat", "none")
  /\ PlanIs(E!PlanOf("roadmap"), TRUE, <<>>, <<E!W("roadmap"), E!N("roadmap")>>, "none", <<>>,
       "repeat", "none")
  /\ PlanIs(E!PlanOf("receipt"), TRUE, <<E!W("receipt"), E!N("receipt")>>,
       <<E!N("receipt"), E!W("signature"), E!N("signature")>>,
       "receipt", <<E!N("receipt"), E!W("signature"), E!N("signature")>>, "stop", "none")
<1>1. /\ E!PlanOf("outcome") = E!Outcome
      /\ E!PlanOf("roadmap") = E!Roadmap
      /\ E!PlanOf("receipt") = E!Receipt
  BY DEF E!PlanOf
<1> QED BY <1>1, ZenonT(40) DEF E!Plan, PlanIs, E!Outcome, E!Roadmap, E!Receipt

ClaimSections == {"capture", "judge", "execute", "benchmark", "review", "roadmap", "receipt"}
Restarts == {"capture", "judge", "duplicate", "execute", "benchmark", "review", "receipt"}

\* Which sections claim, restart and fail, in one table.
LEMMA PlanFields ==
  ASSUME NEW s \in E!Sections
  PROVE  LET plan == E!PlanOf(s)
         IN /\ s \in ClaimSections <=> plan.claim
            /\ s \in {"capture", "judge"} <=> plan.failing = "all"
            /\ s \in {"capture", "judge", "execute", "benchmark", "review"} <=>
                 plan.failing # "none"
            /\ s \in {"capture", "judge"} <=> plan.stuck = "fail"
            /\ s \in {"roadmap"} => plan.stuck = "repeat"
            /\ s \in Restarts \ {"capture", "judge"} => plan.stuck = "stop"
            /\ s \notin Restarts <=> plan.found = "none"
            /\ s = "capture" => plan.found = "observation"
            /\ s = "judge" => plan.found = "judgment"
            /\ s = "duplicate" => plan.found = "proposal-backlog"
            /\ s = "execute" => plan.found = "report"
            /\ s = "benchmark" => plan.found = "measurement"
            /\ s \in {"review", "receipt"} => plan.found = s
<1> USE DEF PlanIs, ClaimSections, Restarts
<1>1. CASE s = "capture" BY <1>1, ObservationPlans
<1>2. CASE s = "judge" BY <1>2, ObservationPlans
<1>3. CASE s = "duplicate" BY <1>3, ObservationPlans
<1>4. CASE s \in {"approve", "decline", "no-op", "propose", "declined"} BY <1>4, DecisionPlans
<1>5. CASE s = "execute" BY <1>5, ExecutionPlans
<1>6. CASE s = "benchmark" BY <1>6, ExecutionPlans
<1>7. CASE s = "review" BY <1>7, ExecutionPlans
<1>8. CASE s \in {"outcome", "roadmap"} BY <1>8, CompoundPlans
<1>9. CASE s = "receipt" BY <1>9, CompoundPlans
<1> QED BY <1>1, <1>2, <1>3, <1>4, <1>5, <1>6, <1>7, <1>8, <1>9 DEF E!Sections

\* The rows a section begins with, anew or with what it finds, and the one
\* behind a claim.
Outset(s) == Owned(s) \cup (IF s = "judge" THEN {"components", "observation"} ELSE {})
Resumed(s, ws, ns) ==
  \/ s = "capture" /\ ws = {} /\ ns = {"components", "observation"}
  \/ s = "judge" /\ ws = {} /\ ns = {"components", "observation", "judgment"}
  \/ s = "duplicate" /\ ws = {} /\ ns = {"proposal-backlog"}
  \/ s = "execute" /\ ws = {"patch"} /\ ns = {"report", "patch"}
  \/ s = "benchmark" /\ ws = {} /\ ns = {"streams", "measurement"}
  \/ s = "review" /\ ws = {} /\ ns = {"review"}
  \/ s = "receipt" /\ ws = {"signature"} /\ ns = {"receipt", "signature"}
First(s, plan) ==
  /\ IF s \in ClaimSections THEN Row("claim", plan.before, Owned(s), Outset(s)) \in Rows(s)
     ELSE Row("work", plan.work, Owned(s), Outset(s)) \in Rows(s)
  /\ \A ws, ns : Resumed(s, ws, ns) => Row("work", plan.rest, ws, ns) \in Rows(s)
  /\ \A ws, ns : Row("claim", <<>>, ws, ns) \in Rows(s) => Row("work", plan.work, ws, ns) \in Rows(s)

\* A plan begins, resumes and goes on behind its claim in its rows.
LEMMA FirstRows ==
  ASSUME NEW s \in E!Sections
  PROVE  First(s, E!PlanOf(s))
<1> USE DEF ClaimSections, Owned, Outset, Rows, Resumed, First, PlanIs
<1>1. CASE s = "capture" BY <1>1, ObservationPlans DEF CaptureRows, Row
<1>2. CASE s = "judge" BY <1>2, ObservationPlans, ZenonT(40) DEF JudgeRows, Row
<1>3. CASE s = "duplicate" BY <1>3, ObservationPlans DEF DuplicateRows, Row
<1>4. CASE s \in {"approve", "decline"} BY <1>4, DecisionPlans DEF SingleRows, Row
<1>5. CASE s \in {"no-op", "propose", "declined"} BY <1>5, DecisionPlans DEF Row
<1>6. CASE s = "execute" BY <1>6, ExecutionPlans, ZenonT(40) DEF ExecuteRows, Row
<1>7. CASE s = "benchmark" BY <1>7, ExecutionPlans DEF BenchmarkRows, Row
<1>8. CASE s = "review" BY <1>8, ExecutionPlans DEF ReviewRows, SingleRows, Row
<1>9. CASE s = "outcome" BY <1>9, CompoundPlans DEF SingleRows, Row
<1>10. CASE s = "roadmap" BY <1>10, CompoundPlans DEF RoadmapRows, SingleRows, Row
<1>11. CASE s = "receipt" BY <1>11, CompoundPlans DEF ReceiptRows, SingleRows, Row
<1> QED BY <1>1, <1>2, <1>3, <1>4, <1>5, <1>6, <1>7, <1>8, <1>9, <1>10, <1>11 DEF E!Sections

-----------------------------------------------------------------------------
(* Lists of artifacts. *)

\* The cardinality of the instance is that of this module.
LEMMA SameCardinality == ASSUME NEW S PROVE E!Cardinality(S) = Cardinality(S)
BY DEF E!Cardinality, Cardinality

\* What a tidy list says of a kind.
LEMMA Listed ==
  ASSUME NEW l \in Seq(Artifacts), NEW dk \in [E!Kinds -> Nat], Tidy(l, dk), NEW k \in E!Kinds
  PROVE  /\ E!Count(l, k) = IF k \in KindsOf(l) THEN 1 ELSE 0
         /\ \A a \in E!Of(l, k) : a.digest = dk[k]
         /\ E!Has(l, k) <=> k \in KindsOf(l)
         /\ k \in KindsOf(l) =>
              E!Digest(l, k) = dk[k] /\ dk[k] # 0 /\ E!Artifact(k, dk[k]) \in E!ToSet(l)
         /\ E!Artifact(k, dk[k]) \in E!ToSet(l) => k \in KindsOf(l)
         /\ \A a \in E!ToSet(l) : a.kind \in KindsOf(l) /\ a.digest = dk[a.kind]
<1>1. \A i \in DOMAIN l : l[i] \in Artifacts
  OBVIOUS
<1>2. \A a \in E!ToSet(l) : \E i \in DOMAIN l : a = l[i]
  BY DEF E!ToSet
<1>3. \A i \in DOMAIN l : l[i] \in E!ToSet(l)
  BY DEF E!ToSet
<1>4. \A a \in E!ToSet(l) :
        a \in Artifacts /\ a.kind \in KindsOf(l) /\ a.digest = dk[a.kind] /\ dk[a.kind] # 0
  BY <1>1, <1>2 DEF Tidy, KindsOf
<1>5. \A a \in E!Of(l, k) : a \in E!ToSet(l) /\ a.kind = k
  BY DEF E!Of
<1>6. E!Of(l, k) # {} <=> k \in KindsOf(l)
  <2>1. ASSUME NEW i \in DOMAIN l, l[i].kind = k PROVE l[i] \in E!Of(l, k)
    BY <1>3, <2>1 DEF E!Of
  <2> QED BY <1>4, <1>5, <2>1 DEF KindsOf
<1>7. ASSUME k \in KindsOf(l)
      PROVE  E!Digest(l, k) = dk[k] /\ dk[k] # 0 /\ E!Artifact(k, dk[k]) \in E!ToSet(l)
  <2>1. PICK a \in E!Of(l, k) : a = CHOOSE b \in E!Of(l, k) : TRUE
    BY <1>6, <1>7
  <2>2. a \in Artifacts /\ a.kind = k /\ a.digest = dk[k] /\ dk[k] # 0 /\ a \in E!ToSet(l)
    BY <1>4, <1>5
  <2>3. a = E!Artifact(k, dk[k])
    BY <2>2 DEF Artifacts, E!Artifact
  <2> QED BY <2>1, <2>2, <2>3 DEF E!Digest
<1>8. E!Count(l, k) = IF k \in KindsOf(l) THEN 1 ELSE 0
  <2> DEFINE S == {i \in DOMAIN l : l[i].kind = k}
  <2>1. CASE k \in KindsOf(l)
    <3>1. PICK i \in DOMAIN l : l[i].kind = k
      BY <2>1 DEF KindsOf
    <3>2. S = {i}
      BY <3>1 DEF Tidy
    <3> QED BY <2>1, <3>2, FS_Singleton, SameCardinality DEF E!Count
  <2>2. CASE k \notin KindsOf(l)
    <3>1. S = {}
      BY <2>2 DEF KindsOf
    <3> QED BY <2>2, <3>1, FS_EmptySet, SameCardinality DEF E!Count
  <2> QED BY <2>1, <2>2
<1>9. E!Artifact(k, dk[k]) \in E!ToSet(l) => k \in KindsOf(l)
  <2>1. E!Artifact(k, dk[k]).kind = k
    BY DEF E!Artifact
  <2> QED BY <1>4, <2>1
<1> QED BY <1>4, <1>5, <1>6, <1>7, <1>8, <1>9 DEF E!Has

\* What appending an artifact does to a list.
LEMMA Appended ==
  ASSUME NEW l \in Seq(Artifacts), NEW dk \in [E!Kinds -> Nat], NEW a \in Artifacts
  PROVE  /\ Append(l, a) \in Seq(Artifacts)
         /\ KindsOf(Append(l, a)) = KindsOf(l) \cup {a.kind}
         /\ Tidy(l, dk) /\ a.kind \notin KindsOf(l) /\ a.digest = dk[a.kind] /\ a.digest # 0 =>
              Tidy(Append(l, a), dk)
<1> DEFINE n == Len(l)
           b == Append(l, a)
<1>1. /\ n \in Nat /\ DOMAIN l = 1..n /\ DOMAIN b = 1..(n + 1) /\ n + 1 \notin 1..n
      /\ 1..(n + 1) = (1..n) \cup {n + 1}
      /\ b \in Seq(Artifacts) /\ b[n + 1] = a /\ \A i \in 1..n : b[i] = l[i]
  OBVIOUS
<1> HIDE DEF n, b
<1>2. KindsOf(b) = KindsOf(l) \cup {a.kind}
  BY <1>1 DEF KindsOf
<1>3. ASSUME Tidy(l, dk), a.kind \notin KindsOf(l), a.digest = dk[a.kind], a.digest # 0
      PROVE  Tidy(b, dk)
  <2>1. \A i \in 1..n : l[i].kind # a.kind
    BY <1>1, <1>3 DEF KindsOf
  <2> QED BY <1>1, <1>3, <2>1 DEF Tidy
<1> QED BY <1>1, <1>2, <1>3 DEF b

\* Noting the file of a kind, with a look at the list or, when the kind is
\* new, without.
LEMMA NotedList ==
  ASSUME NEW l \in Seq(Artifacts), NEW dk \in [E!Kinds -> Nat], Tidy(l, dk),
         NEW k \in E!Kinds, dk[k] # 0, NEW b,
         \/ b = E!AppendArtifact(l, E!Artifact(k, dk[k]))
         \/ b = Append(l, E!Artifact(k, dk[k])) /\ k \notin KindsOf(l)
  PROVE  /\ b \in Seq(Artifacts) /\ KindsOf(b) = KindsOf(l) \cup {k} /\ Tidy(b, dk)
         /\ E!Binds(l, k, dk[k])
<1> DEFINE a == E!Artifact(k, dk[k])
<1>1. a \in Artifacts /\ a.kind = k /\ a.digest = dk[k]
  BY DEF Artifacts, E!Artifact
<1>2. E!Binds(l, k, dk[k])
  BY Listed DEF E!Binds
<1>3. a \in E!ToSet(l) <=> k \in KindsOf(l)
  BY Listed
<1> HIDE DEF a
<1>4. CASE k \in KindsOf(l)
  <2>1. b = l
    BY <1>3, <1>4 DEF E!AppendArtifact, a
  <2> QED BY <1>2, <1>4, <2>1
<1>5. CASE k \notin KindsOf(l)
  <2>1. b = Append(l, a)
    BY <1>3, <1>5 DEF E!AppendArtifact, a
  <2> QED BY <1>1, <1>2, <1>5, <2>1, Appended
<1> QED BY <1>4, <1>5

\* A file that no list names may change.
LEMMA TidyKept ==
  ASSUME NEW l, NEW dk, NEW dn, Tidy(l, dk), \A k \in KindsOf(l) : dn[k] = dk[k]
  PROVE  Tidy(l, dn)
BY DEF Tidy, KindsOf

\* Induction up to n, for sets: a least element outside S would have a
\* predecessor outside S.
LEMMA InductionTo ==
  ASSUME NEW n \in Nat, NEW S, 0 \in S, \A i \in 1..n : i - 1 \in S => i \in S
  PROVE  0..n \subseteq S
<1> DEFINE T == {i \in 0..n : i \notin S}
<1>1. SUFFICES ASSUME T # {} PROVE FALSE
  OBVIOUS
<1>2. T \subseteq Nat
  OBVIOUS
<1>3. PICK x \in T : \A y \in T : <<y, x>> \notin OpToRel(<, Nat)
  BY <1>1, <1>2, WFMin, NatLessThanWellFounded
<1>4. \A y \in T : ~(y < x)
  BY <1>2, <1>3 DEF OpToRel
<1>5. x \in 0..n /\ x \notin S
  BY <1>3
<1>6. x # 0 /\ x \in 1..n /\ x - 1 \in 0..n /\ x - 1 < x
  BY <1>5
<1> QED BY <1>4, <1>5, <1>6

Omitted == {"receipt", "signature"}

\* The recursion of Filtered has a solution, so its equations hold.
LEMMA FilteredSteps ==
  ASSUME NEW l \in Seq(Artifacts)
  PROVE  /\ E!Filtered(l)[0] = <<>>
         /\ \A i \in 1..Len(l) :
              E!Filtered(l)[i] =
                IF l[i].kind \in Omitted THEN E!Filtered(l)[i - 1]
                ELSE Append(E!Filtered(l)[i - 1], l[i])
<1> DEFINE n == Len(l)
           Step(g, i) ==
             IF i = 0 THEN <<>>
             ELSE IF l[i].kind \in Omitted THEN g[i - 1] ELSE Append(g[i - 1], l[i])
           Solves(g, k) == g = [i \in 0..k |-> Step(g, i)]
           S == {k \in 0..n : \E g : Solves(g, k)}
<1>1. n \in Nat
  OBVIOUS
<1>2. 0 \in S
  <2>1. Solves([i \in 0..0 |-> <<>>], 0)
    OBVIOUS
  <2>2. 0 \in 0..n
    BY <1>1
  <2> HIDE DEF Solves
  <2> QED BY <2>1, <2>2
<1>3. ASSUME NEW k \in 1..n, k - 1 \in S PROVE k \in S
  <2>1. PICK g : Solves(g, k - 1)
    BY <1>3
  <2> DEFINE next == IF l[k].kind \in Omitted THEN g[k - 1] ELSE Append(g[k - 1], l[k])
             h == [i \in 0..k |-> IF i = k THEN next ELSE g[i]]
  <2>2. /\ k - 1 \in 0..(k - 1) /\ k \notin 0..(k - 1) /\ k # 0
        /\ \A i \in 0..k : i # k => i \in 0..(k - 1) /\ (i # 0 => i - 1 \in 0..k /\ i - 1 # k)
    BY <1>1
  <2>3. \A i \in 0..(k - 1) : g[i] = Step(g, i)
    <3> HIDE DEF Step
    <3> QED BY <2>1
  <2>4. ASSUME NEW i \in 0..k PROVE h[i] = Step(h, i)
    <3>1. CASE i = k
      <4>1. h[i] = next /\ h[i - 1] = g[k - 1]
        <5> HIDE DEF next
        <5> QED BY <2>2, <3>1
      <4> QED BY <2>2, <3>1, <4>1
    <3>2. CASE i # k
      <4>1. h[i] = g[i] /\ (i # 0 => h[i - 1] = g[i - 1])
        <5> HIDE DEF next
        <5> QED BY <2>2, <3>2
      <4>2. g[i] = Step(g, i)
        BY <2>2, <2>3, <3>2
      <4>3. Step(h, i) = Step(g, i)
        BY <4>1
      <4> QED BY <4>1, <4>2, <4>3
    <3> QED BY <3>1, <3>2
  <2>5. Solves(h, k)
    <3>1. h = [i \in 0..k |-> h[i]]
      <4> HIDE DEF next
      <4> QED OBVIOUS
    <3> HIDE DEF h, Step
    <3> QED BY <2>4, <3>1
  <2> HIDE DEF Solves, h
  <2> QED BY <1>1, <2>5
<1>4. n \in S
  <2> HIDE DEF S
  <2>1. 0..n \subseteq S
    BY <1>1, <1>2, <1>3, InductionTo
  <2> QED BY <1>1, <2>1
<1>5. PICK g : Solves(g, n)
  BY <1>4
<1>6. E!Filtered(l) = CHOOSE h : h = [i \in 0..n |-> Step(h, i)]
  BY DEF E!Filtered, Omitted
<1>7. E!Filtered(l) = [i \in 0..n |-> Step(E!Filtered(l), i)]
  <2> HIDE DEF Step
  <2> QED BY <1>5, <1>6
<1>8. \A i \in 0..n : E!Filtered(l)[i] = Step(E!Filtered(l), i)
  <2> HIDE DEF Step
  <2> QED BY <1>7
<1> QED BY <1>1, <1>8

\* The receipt lists what the document lists but for itself.
LEMMA FilteredList ==
  ASSUME NEW l \in Seq(Artifacts), NEW dk \in [E!Kinds -> Nat], Tidy(l, dk)
  PROVE  LET f == E!Filtered(l)[Len(l)]
         IN f \in Seq(Artifacts) /\ KindsOf(f) = KindsOf(l) \ Omitted /\ Tidy(f, dk)
<1> DEFINE n == Len(l)
           F(i) == E!Filtered(l)[i]
           Upto(i) == {l[j].kind : j \in 1..i}
           S == {i \in 0..n :
                   F(i) \in Seq(Artifacts) /\ KindsOf(F(i)) = Upto(i) \ Omitted /\ Tidy(F(i), dk)}
<1>1. n \in Nat /\ DOMAIN l = 1..n /\ \A i \in 1..n : l[i] \in Artifacts
  OBVIOUS
<1>2. 0 \in S
  <2>1. F(0) = <<>>
    BY FilteredSteps
  <2>2. <<>> \in Seq(Artifacts) /\ KindsOf(<<>>) = {} /\ Tidy(<<>>, dk)
    BY DEF KindsOf, Tidy
  <2>3. Upto(0) = {}
    OBVIOUS
  <2>4. 0 \in 0..n
    BY <1>1
  <2> HIDE DEF F, Upto
  <2> QED BY <2>1, <2>2, <2>3, <2>4
<1>3. ASSUME NEW i \in 1..n, i - 1 \in S PROVE i \in S
  <2>1. F(i) = IF l[i].kind \in Omitted THEN F(i - 1) ELSE Append(F(i - 1), l[i])
    BY FilteredSteps
  <2>2. Upto(i) = Upto(i - 1) \cup {l[i].kind}
    <3>1. 1..i = (1..(i - 1)) \cup {i}
      BY <1>1
    <3> QED BY <3>1
  <2>3. l[i].kind \notin Upto(i - 1)
    <3>1. \A j \in 1..(i - 1) : j \in 1..n /\ j # i
      BY <1>1
    <3> QED BY <1>1, <3>1 DEF Tidy
  <2>4. l[i].digest = dk[l[i].kind] /\ l[i].digest # 0 /\ i \in 0..n
    BY <1>1 DEF Tidy
  <2> HIDE DEF F, Upto
  <2>5. F(i - 1) \in Seq(Artifacts) /\ KindsOf(F(i - 1)) = Upto(i - 1) \ Omitted /\ Tidy(F(i - 1), dk)
    BY <1>3
  <2>6. F(i) \in Seq(Artifacts) /\ KindsOf(F(i)) = Upto(i) \ Omitted /\ Tidy(F(i), dk)
    BY <1>1, <2>1, <2>2, <2>3, <2>4, <2>5, Appended
  <2> QED BY <2>4, <2>6
<1>4. n \in S
  <2> HIDE DEF S
  <2>1. 0..n \subseteq S
    BY <1>1, <1>2, <1>3, InductionTo
  <2> QED BY <1>1, <2>1
<1>5. Upto(n) = KindsOf(l)
  BY <1>1 DEF KindsOf
<1> HIDE DEF Upto
<1> QED BY <1>4, <1>5

-----------------------------------------------------------------------------
(* Documents stay documents. *)

\* A field may take any value of its type.
LEMMA FieldTypes ==
  ASSUME NEW m \in Docs
  PROVE  /\ \A x \in Stages : [m EXCEPT !.stage = x] \in Docs
         /\ \A x \in Seq(Artifacts) : [m EXCEPT !.list = x] \in Docs
         /\ \A s \in E!Sections, x \in Marks : [m EXCEPT !.mark[s] = x] \in Docs
         /\ \A x \in Nat : [m EXCEPT !.judgment = x] \in Docs
         /\ \A x \in Nat : [m EXCEPT !.roadmap = x] \in Docs
         /\ \A x \in Nat : [m EXCEPT !.content = x] \in Docs
         /\ \A x \in {"none", "judge", "shadow", "duplicate"} : [m EXCEPT !.reason = x] \in Docs
         /\ \A x \in {"none", "promote", "close"} : [m EXCEPT !.verdict = x] \in Docs
         /\ \A x \in SUBSET Artifacts : [m EXCEPT !.cites = x] \in Docs
<1>1. \A x \in Stages : [m EXCEPT !.stage = x] \in Docs
  BY DEF Docs
<1>2. \A x \in Seq(Artifacts) : [m EXCEPT !.list = x] \in Docs
  BY DEF Docs
<1>3. \A s \in E!Sections, x \in Marks : [m EXCEPT !.mark[s] = x] \in Docs
  BY DEF Docs
<1>4. \A x \in Nat : [m EXCEPT !.judgment = x] \in Docs
  BY DEF Docs
<1>5. \A x \in Nat : [m EXCEPT !.roadmap = x] \in Docs
  BY DEF Docs
<1>6. \A x \in Nat : [m EXCEPT !.content = x] \in Docs
  BY DEF Docs
<1>7. \A x \in {"none", "judge", "shadow", "duplicate"} : [m EXCEPT !.reason = x] \in Docs
  BY DEF Docs
<1>8. \A x \in {"none", "promote", "close"} : [m EXCEPT !.verdict = x] \in Docs
  BY DEF Docs
<1>9. \A x \in SUBSET Artifacts : [m EXCEPT !.cites = x] \in Docs
  BY DEF Docs
<1> QED BY <1>1, <1>2, <1>3, <1>4, <1>5, <1>6, <1>7, <1>8, <1>9

\* So may a flag.
LEMMA FlagTypes ==
  ASSUME NEW m \in Docs, NEW x \in BOOLEAN
  PROVE  /\ [m EXCEPT !.candidate = x] \in Docs
         /\ [m EXCEPT !.declined = x] \in Docs
         /\ [m EXCEPT !.signed = x] \in Docs
BY DEF Docs

-----------------------------------------------------------------------------
(* The facts of a document through the steps of a section. *)

\* The files of kinds that a document does not name may change.
LEMMA FactsKept ==
  ASSUME NEW d \in Docs, NEW dk, NEW ch, NEW md, NEW r, Facts(d, dk, ch, md, r),
         NEW dn, \A k \in E!Kinds : In(d, k) => dn[k] = dk[k],
         NEW cn, cn = ch \/ (~In(d, "judgment") /\ d.stage = "observing"),
         NEW rn, rn = r \/ d.mark["receipt"] = "none"
  PROVE  Facts(d, dn, cn, md, rn)
<1>1. \A k \in KindsOf(d.list) : dn[k] = dk[k] /\ In(d, k)
  <2>1. KindsOf(d.list) \subseteq E!Kinds
    <3>1. d.list \in Seq(Artifacts)
      BY DEF Docs
    <3>2. \A i \in DOMAIN d.list : d.list[i] \in Artifacts
      BY <3>1
    <3> QED BY <3>2 DEF KindsOf, Artifacts
  <2> QED BY <2>1 DEF In
<1>2. Tidy(d.list, dn) /\ Past(d) /\ Endings(d, md)
  BY <1>1, TidyKept DEF Facts
<1>3. Decided(d, dn, cn)
  BY <1>1 DEF Facts, Decided, In
<1>4. Accepted(d, dn)
  BY <1>1 DEF Facts, Accepted, In
<1>5. Receipted(d, dn, rn)
  <2>1. CASE d.mark["receipt"] = "none"
    BY <2>1 DEF Facts, Receipted
  <2>2. CASE d.mark["receipt"] # "none"
    <3>1. Shows(r, d, dk) /\ rn = r
      BY <2>2 DEF Facts, Receipted
    <3>2. Tidy(r.list, dn)
      BY <1>1, <3>1, TidyKept DEF Shows
    <3>3. Shows(rn, d, dn)
      BY <3>1, <3>2 DEF Shows
    <3> QED BY <2>2, <3>3 DEF Facts, Receipted
  <2> QED BY <2>1, <2>2
<1> QED BY <1>2, <1>3, <1>4, <1>5 DEF Facts

\* A copy differs from its document in the list.
LEMMA CopyFields ==
  ASSUME NEW d \in Docs, NEW m \in Docs, NEW s, NEW dk, Copied(d, m, s, dk)
  PROVE  /\ m.stage = d.stage /\ m.mark = d.mark /\ m.judgment = d.judgment
         /\ m.candidate = d.candidate /\ m.reason = d.reason /\ m.declined = d.declined
         /\ m.verdict = d.verdict /\ m.cites = d.cites /\ m.roadmap = d.roadmap
         /\ m.content = d.content /\ m.signed = d.signed
         /\ \A k : In(d, k) => In(m, k)
         /\ \A k : In(m, k) => In(d, k) \/ k \in Owned(s)
BY DEF Docs, Copied, In

\* fail, in a section that may fail its cycle.
FailSections == {"capture", "judge", "execute", "benchmark", "review"}

\* The record of a failure keeps the facts.
LEMMA FailedFacts ==
  ASSUME NEW d \in Docs, NEW dk, NEW ch, NEW md, NEW r, Facts(d, dk, ch, md, r),
         NEW s \in FailSections, NEW m \in Docs, Copied(d, m, s, dk),
         d.stage \in {"observing", "approved", "reviewing"},
         s = "judge" => d.mark["capture"] = "completed",
         s = "capture" => (In(m, "observation") => In(m, "components")),
         In(m, "judgment") => m.judgment # 0
  PROVE  Facts([m EXCEPT !.stage = "failed"], dk, ch, md, r)
<1> DEFINE n == [m EXCEPT !.stage = "failed"]
<1>1. /\ n.stage = "failed" /\ n.list = m.list /\ n.mark = d.mark /\ n.judgment = d.judgment
      /\ n.candidate = d.candidate /\ n.reason = d.reason /\ n.roadmap = d.roadmap
      /\ n.signed = d.signed
  BY CopyFields DEF Docs
<1>2. \A k : (In(n, k) <=> In(m, k)) /\ (In(d, k) => In(m, k))
  BY <1>1, CopyFields DEF In
<1>3. \A k \in E!Kinds \ {"components", "observation", "attempt", "judgment", "report", "patch",
                          "transcript", "streams", "measurement", "material", "review"} :
        In(m, k) => In(d, k)
  BY CopyFields DEF Owned, FailSections
<1>4. d.mark["receipt"] = "none" /\ ~d.signed /\ d.reason = "none"
  BY DEF Facts, Receipted, Ending, Endings
<1> HIDE DEF n
<1>5. Tidy(n.list, dk)
  BY <1>1 DEF Copied
<1>6. Past(n)
  BY <1>1, <1>2, <1>3 DEF Facts, Past, E!Kinds
<1>7. Decided(n, dk, ch)
  BY <1>1, <1>2, <1>3, CopyFields DEF Facts, Decided, E!Kinds, Owned, FailSections
<1>8. Endings(n, md)
  BY <1>1, <1>2, <1>3, <1>4 DEF Facts, Endings, E!Kinds
<1>9. Accepted(n, dk) /\ Receipted(n, dk, r)
  BY <1>1, <1>4 DEF Accepted, Receipted
<1> QED BY <1>5, <1>6, <1>7, <1>8, <1>9 DEF Facts, n

\* What a copy and a document n with its list have in common.
LEMMA SameList ==
  ASSUME NEW d \in Docs, NEW m \in Docs, NEW s, NEW dk, Copied(d, m, s, dk), NEW n,
         n.list = m.list
  PROVE  /\ Tidy(n.list, dk)
         /\ \A k : In(n, k) <=> In(m, k)
         /\ \A k : In(d, k) => In(n, k)
         /\ \A k : In(n, k) /\ k \notin Owned(s) => In(d, k)
BY CopyFields DEF Copied, In

\* Until its end a document has no receipt.
LEMMA NoReceipt ==
  ASSUME NEW d, NEW dk, NEW ch, NEW md, NEW r, Facts(d, dk, ch, md, r), ~Ending(d)
  PROVE  d.mark["receipt"] = "none" /\ ~d.signed
BY DEF Facts, Receipted, Ending

\* The record of a claim.
Behind(s) == Owned(s) \ {"material", "receipt"}

\* The record of a claim keeps the facts.
LEMMA ClaimedFacts ==
  ASSUME NEW d \in Docs, NEW dk, NEW ch, NEW md, NEW r, Facts(d, dk, ch, md, r),
         NEW s \in ClaimSections, NEW m \in Docs, Copied(d, m, s, dk), Entered(d, md, s),
         \A k \in Behind(s) : ~In(m, k),
         s = "receipt" => d.mark["receipt"] = "none" /\ Shows(r, m, dk),
         NEW x \in Nat
  PROVE  Facts([m EXCEPT !.content = x, !.mark[s] = "started"], dk, ch, md, r)
<1> DEFINE n == [m EXCEPT !.content = x, !.mark[s] = "started"]
<1>1. /\ n.stage = d.stage /\ n.list = m.list /\ n.mark = [d.mark EXCEPT ![s] = "started"]
      /\ n.judgment = d.judgment /\ n.candidate = d.candidate /\ n.reason = d.reason
      /\ n.declined = d.declined /\ n.verdict = d.verdict /\ n.cites = d.cites
      /\ n.roadmap = d.roadmap /\ n.signed = d.signed
  BY CopyFields DEF Docs
<1> HIDE DEF n
<1>2. \A y \in E!Sections : n.mark[y] = IF y = s THEN "started" ELSE d.mark[y]
  BY <1>1 DEF Docs
<1>4. /\ Tidy(n.list, dk)
      /\ \A k : In(n, k) <=> In(m, k)
      /\ \A k : In(d, k) => In(n, k)
      /\ \A k : In(n, k) /\ k \notin Owned(s) => In(d, k)
  BY <1>1, SameList
<1>5. Past(n)
  <2>1. CASE s \in {"capture", "judge"}
    BY <1>1, <1>2, <1>4, <2>1 DEF Facts, Past, Entered, Behind, Owned, E!Sections
  <2>2. CASE s \in {"execute", "benchmark"}
    BY <1>1, <1>2, <1>4, <2>2 DEF Facts, Past, Entered, Behind, Owned, E!Sections
  <2>3. CASE s \in {"review", "roadmap"}
    BY <1>1, <1>2, <1>4, <2>3 DEF Facts, Past, Entered, Behind, Owned, E!Sections
  <2>4. CASE s = "receipt"
    BY <1>1, <1>2, <1>4, <2>4 DEF Facts, Past, Entered, Behind, Owned, E!Sections
  <2> QED BY <2>1, <2>2, <2>3, <2>4 DEF ClaimSections
<1>6. Decided(n, dk, ch)
  BY <1>1, <1>2, <1>4
     DEF Facts, Decided, Entered, Behind, Owned, ClaimSections, E!Sections
<1>7. Endings(n, md)
  BY <1>1, <1>2, <1>4 DEF Facts, Endings, Entered, Owned, ClaimSections
<1>8. Accepted(n, dk)
  BY <1>1, <1>4 DEF Facts, Accepted, Projected
<1>9. Receipted(n, dk, r)
  <2>1. n.mark["outcome"] = d.mark["outcome"]
    BY <1>2 DEF ClaimSections, E!Sections
  <2>2. CASE s = "receipt"
    <3>1. Shows(r, n, dk)
      BY <1>1, <1>2, <2>2, CopyFields DEF Shows, E!Sections
    <3>2. Ending(n)
      BY <1>1, <1>2, <2>2 DEF Ending, Entered, E!Sections
    <3>3. ~n.signed
      BY <1>1, <2>2 DEF Entered
    <3> QED BY <3>1, <3>2, <3>3 DEF Receipted
  <2>3. CASE s # "receipt"
    <3>1. ~Ending(d)
      BY <2>3 DEF Entered, Ending, ClaimSections
    <3>2. n.mark["receipt"] = "none" /\ ~n.signed
      BY <1>1, <1>2, <2>3, <3>1, NoReceipt DEF E!Sections
    <3> QED BY <3>2 DEF Receipted
  <2> QED BY <2>2, <2>3
<1> QED BY <1>4, <1>5, <1>6, <1>7, <1>8, <1>9 DEF Facts, n

\* A record in the middle of a section.
LEMMA KeptFacts ==
  ASSUME NEW d \in Docs, NEW dk, NEW ch, NEW md, NEW r, Facts(d, dk, ch, md, r),
         NEW s, NEW m \in Docs, Copied(d, m, s, dk), Entered(d, md, s),
         s \in {"judge", "duplicate"} => d.mark["judge"] # "none",
         In(m, "judgment") => m.judgment # 0,
         s = "capture" => (In(m, "observation") => In(m, "components")),
         NEW n,
         \/ n = m /\ s \in {"judge", "duplicate"}
         \/ n = [m EXCEPT !.mark[s] = "late"] /\ s \in {"capture", "duplicate"}
  PROVE  Facts(n, dk, ch, md, r)
<1>1. /\ n.stage = d.stage /\ n.list = m.list /\ n.judgment = d.judgment
      /\ n.candidate = d.candidate /\ n.reason = d.reason
      /\ n.declined = d.declined /\ n.verdict = d.verdict /\ n.cites = d.cites
      /\ n.roadmap = d.roadmap /\ n.signed = d.signed
      /\ \A y \in E!Sections :
           \/ n.mark[y] = d.mark[y]
           \/ y = s /\ n.mark[y] = "late" /\ s \in {"capture", "duplicate"}
      /\ s = "capture" => n.mark[s] = "late"
  <2>1. CASE n = m /\ s \in {"judge", "duplicate"}
    BY <2>1, CopyFields
  <2>2. CASE n = [m EXCEPT !.mark[s] = "late"] /\ s \in {"capture", "duplicate"}
    BY <2>2, CopyFields, ZenonT(40) DEF Docs, E!Sections
  <2> QED BY <2>1, <2>2
<1>2. /\ Tidy(n.list, dk)
      /\ \A k : In(n, k) <=> In(m, k)
      /\ \A k : In(d, k) => In(n, k)
      /\ \A k : In(n, k) /\ k \notin Owned(s) => In(d, k)
  BY <1>1, SameList
<1>3. n.mark["receipt"] = "none" /\ ~n.signed
  BY <1>1, NoReceipt DEF Entered, Ending, E!Sections
<1>4. Past(n)
  BY <1>1, <1>2 DEF Facts, Past, Entered, Owned, E!Sections
<1>5. Decided(n, dk, ch)
  BY <1>1, <1>2, CopyFields DEF Facts, Decided, Entered, Owned, E!Sections
<1>6. Endings(n, md)
  BY <1>1, <1>2 DEF Facts, Endings, Entered, Owned
<1>7. Accepted(n, dk) /\ Receipted(n, dk, r)
  BY <1>1, <1>3 DEF Accepted, Receipted, Entered
<1> QED BY <1>2, <1>4, <1>5, <1>6, <1>7 DEF Facts

\* The judgment is taken over; a selection that cannot be used fails the cycle.
LEMMA AdoptedFacts ==
  ASSUME NEW d \in Docs, NEW dk, NEW ch, NEW md, NEW r, Facts(d, dk, ch, md, r),
         NEW m \in Docs, Copied(d, m, "judge", dk), Entered(d, md, "judge"),
         d.mark["judge"] # "none", In(m, "judgment"), dk["judgment"] # 0,
         NEW c \in BOOLEAN, c => ch = "select",
         NEW x \in {"observing", "failed"}
  PROVE  Facts([m EXCEPT !.judgment = dk["judgment"], !.candidate = c, !.stage = x],
               dk, ch, md, r)
<1> DEFINE n == [m EXCEPT !.judgment = dk["judgment"], !.candidate = c, !.stage = x]
<1>1. /\ n.stage = x /\ n.list = m.list /\ n.judgment = dk["judgment"] /\ n.mark = d.mark
      /\ n.candidate = c /\ n.reason = d.reason /\ n.declined = d.declined
      /\ n.roadmap = d.roadmap /\ n.signed = d.signed /\ d.stage = "observing"
  BY CopyFields DEF Docs, Entered
<1> HIDE DEF n
<1>2. /\ Tidy(n.list, dk)
      /\ \A k : In(n, k) <=> In(m, k)
      /\ \A k : In(d, k) => In(n, k)
      /\ \A k : In(n, k) /\ k \notin Owned("judge") => In(d, k)
  BY <1>1, SameList
<1>3. n.mark["receipt"] = "none" /\ ~n.signed /\ d.reason = "none"
  BY <1>1, NoReceipt DEF Ending, Facts, Endings
<1>4. Past(n)
  BY <1>1, <1>2 DEF Facts, Past, Owned
<1>5. Decided(n, dk, ch)
  BY <1>1, <1>2 DEF Facts, Decided, Entered, Owned
<1>6. Endings(n, md)
  BY <1>1, <1>2, <1>3 DEF Facts, Endings, Owned
<1>7. Accepted(n, dk) /\ Receipted(n, dk, r)
  BY <1>1, <1>3 DEF Accepted, Receipted
<1> QED BY <1>2, <1>4, <1>5, <1>6, <1>7 DEF Facts, n

\* What the record that ends a section changes.
EndedOf(n, d, m, s, dk) ==
  /\ n.list = m.list /\ n.judgment = d.judgment /\ n.candidate = d.candidate
  /\ n.verdict = d.verdict /\ n.cites = d.cites
  /\ \A y \in E!Sections : n.mark[y] = IF y = s THEN "completed" ELSE d.mark[y]
  /\ n.stage = CASE s = "judge" -> "ranked"
                 [] s \in {"no-op", "duplicate", "declined"} -> "completed"
                 [] s = "propose" -> "awaiting"
                 [] s = "approve" -> "approved"
                 [] s = "benchmark" -> "reviewing"
                 [] s = "receipt" /\ d.stage = "compounding" -> "completed"
                 [] OTHER -> d.stage
  /\ n.reason = CASE s = "no-op" -> IF d.candidate THEN "shadow" ELSE "judge"
                  [] s = "duplicate" -> "duplicate"
                  [] OTHER -> d.reason
  /\ n.declined <=> (d.declined \/ s = "decline")
  /\ n.roadmap = IF s = "roadmap" THEN dk["roadmap"] ELSE d.roadmap
  /\ n.signed <=> (d.signed \/ s = "receipt")

\* Ended changes what EndedOf says.
LEMMA EndedFields ==
  ASSUME doc \in Docs, mem \in Docs, disk \in [E!Kinds -> Nat], sec \in E!Sections \ {"review"},
         Copied(doc, mem, sec, disk), Entered(doc, mode, sec)
  PROVE  EndedOf(E!Ended, doc, mem, sec, disk) /\ E!Ended \in Docs
<1> DEFINE m == E!SetMark(mem, sec, "completed")
<1>1. m \in Docs
  BY FieldTypes DEF E!SetMark, Marks
<1>2. /\ m.stage = doc.stage /\ m.list = mem.list /\ m.judgment = doc.judgment
      /\ m.candidate = doc.candidate /\ m.reason = doc.reason /\ m.declined = doc.declined
      /\ m.verdict = doc.verdict /\ m.cites = doc.cites /\ m.roadmap = doc.roadmap
      /\ m.content = doc.content /\ m.signed = doc.signed
      /\ \A y \in E!Sections : m.mark[y] = IF y = sec THEN "completed" ELSE doc.mark[y]
  <2>1. mem.mark = doc.mark /\ mem.mark \in [E!Sections -> Marks]
    BY CopyFields DEF Docs
  <2>2. m = [mem EXCEPT !.mark = [mem.mark EXCEPT ![sec] = "completed"]]
    BY DEF E!SetMark
  <2>3. m.mark = [mem.mark EXCEPT ![sec] = "completed"]
    BY <2>2 DEF Docs
  <2> HIDE DEF m
  <2>4. /\ m.stage = mem.stage /\ m.list = mem.list /\ m.judgment = mem.judgment
        /\ m.candidate = mem.candidate /\ m.reason = mem.reason /\ m.declined = mem.declined
        /\ m.verdict = mem.verdict /\ m.cites = mem.cites /\ m.roadmap = mem.roadmap
        /\ m.content = mem.content /\ m.signed = mem.signed
    BY <2>2 DEF Docs
  <2> QED BY <2>1, <2>3, <2>4, CopyFields
<1> HIDE DEF m
<1>3. E!Ended =
        CASE sec = "capture" -> m
          [] sec = "judge" -> [m EXCEPT !.stage = "ranked"]
          [] sec = "no-op" -> [m EXCEPT !.stage = "completed", !.reason = IF m.candidate THEN "shadow" ELSE "judge"]
          [] sec = "duplicate" -> [m EXCEPT !.stage = "completed", !.reason = "duplicate"]
          [] sec = "propose" -> [m EXCEPT !.stage = "awaiting"]
          [] sec = "approve" -> [m EXCEPT !.stage = "approved"]
          [] sec = "decline" -> [m EXCEPT !.declined = TRUE]
          [] sec = "declined" -> [m EXCEPT !.stage = "completed"]
          [] sec = "benchmark" -> [m EXCEPT !.stage = "reviewing"]
          [] sec = "roadmap" -> [m EXCEPT !.roadmap = disk["roadmap"]]
          [] sec = "receipt" -> [m EXCEPT !.signed = TRUE,
                                   !.stage = IF @ = "compounding" THEN "completed" ELSE @]
          [] OTHER -> m
  <2>1. sec = "benchmark" => E!Onward(m, "reviewing") = [m EXCEPT !.stage = "reviewing"]
    BY <1>2 DEF E!Onward, Entered
  <2> QED BY <2>1 DEF E!Ended, m
<1>4. CASE sec \in {"capture", "execute", "outcome"}
  BY <1>1, <1>2, <1>3, <1>4 DEF EndedOf
<1>5. CASE sec \in {"judge", "declined", "propose", "approve", "benchmark"}
  <2>1. \E x \in Stages : /\ E!Ended = [m EXCEPT !.stage = x]
                          /\ x = CASE sec = "judge" -> "ranked" [] sec = "declined" -> "completed"
                                   [] sec = "propose" -> "awaiting" [] sec = "approve" -> "approved"
                                   [] OTHER -> "reviewing"
    BY <1>3, <1>5 DEF Stages
  <2>2. PICK x \in Stages : /\ E!Ended = [m EXCEPT !.stage = x]
                            /\ x = CASE sec = "judge" -> "ranked" [] sec = "declined" -> "completed"
                                     [] sec = "propose" -> "awaiting" [] sec = "approve" -> "approved"
                                     [] OTHER -> "reviewing"
    BY <2>1
  <2>3. /\ E!Ended.stage = x /\ E!Ended.list = m.list /\ E!Ended.judgment = m.judgment
        /\ E!Ended.candidate = m.candidate /\ E!Ended.reason = m.reason
        /\ E!Ended.declined = m.declined /\ E!Ended.verdict = m.verdict
        /\ E!Ended.cites = m.cites /\ E!Ended.roadmap = m.roadmap
        /\ E!Ended.signed = m.signed /\ E!Ended.mark = m.mark /\ E!Ended \in Docs
    BY <1>1, <2>2 DEF Docs
  <2> QED BY <1>2, <1>5, <2>2, <2>3 DEF EndedOf
<1>6. CASE sec \in {"no-op", "duplicate"}
  <2>1. \E x \in {"shadow", "judge", "duplicate"} :
          /\ E!Ended = [m EXCEPT !.stage = "completed", !.reason = x]
          /\ x = CASE sec = "no-op" -> IF m.candidate THEN "shadow" ELSE "judge"
                   [] OTHER -> "duplicate"
    BY <1>3, <1>6
  <2>2. PICK x \in {"shadow", "judge", "duplicate"} :
          /\ E!Ended = [m EXCEPT !.stage = "completed", !.reason = x]
          /\ x = CASE sec = "no-op" -> IF m.candidate THEN "shadow" ELSE "judge"
                   [] OTHER -> "duplicate"
    BY <2>1
  <2>3. /\ E!Ended.stage = "completed" /\ E!Ended.list = m.list
        /\ E!Ended.judgment = m.judgment /\ E!Ended.candidate = m.candidate
        /\ E!Ended.reason = x /\ E!Ended.declined = m.declined
        /\ E!Ended.verdict = m.verdict /\ E!Ended.cites = m.cites
        /\ E!Ended.roadmap = m.roadmap /\ E!Ended.signed = m.signed
        /\ E!Ended.mark = m.mark /\ E!Ended \in Docs
    BY <1>1, <2>2, ZenonT(40) DEF Docs, Stages
  <2> QED BY <1>2, <1>6, <2>2, <2>3 DEF EndedOf
<1>7. CASE sec = "decline"
  <2>1. E!Ended = [m EXCEPT !.declined = TRUE]
    BY <1>3, <1>7
  <2> QED BY <1>1, <1>2, <1>7, <2>1 DEF EndedOf, Docs
<1>8. CASE sec = "roadmap"
  <2>1. E!Ended = [m EXCEPT !.roadmap = disk["roadmap"]] /\ disk["roadmap"] \in Nat
    BY <1>3, <1>8 DEF E!Kinds
  <2> QED BY <1>1, <1>2, <1>8, <2>1 DEF EndedOf, Docs
<1>9. CASE sec = "receipt"
  <2>1. \E x \in Stages : /\ E!Ended = [m EXCEPT !.signed = TRUE, !.stage = x]
                          /\ x = IF m.stage = "compounding" THEN "completed" ELSE m.stage
    <3>1. m.stage \in Stages
      BY <1>1 DEF Docs
    <3>2. E!Ended = [m EXCEPT !.signed = TRUE,
                              !.stage = IF m.stage = "compounding" THEN "completed" ELSE m.stage]
      BY <1>1, <1>3, <1>9 DEF Docs
    <3> QED BY <3>1, <3>2 DEF Stages
  <2>2. PICK x \in Stages : /\ E!Ended = [m EXCEPT !.signed = TRUE, !.stage = x]
                            /\ x = IF m.stage = "compounding" THEN "completed" ELSE m.stage
    BY <2>1
  <2>3. /\ E!Ended.stage = x /\ E!Ended.list = m.list /\ E!Ended.judgment = m.judgment
        /\ E!Ended.candidate = m.candidate /\ E!Ended.reason = m.reason
        /\ E!Ended.declined = m.declined /\ E!Ended.verdict = m.verdict
        /\ E!Ended.cites = m.cites /\ E!Ended.roadmap = m.roadmap
        /\ E!Ended.signed = TRUE /\ E!Ended.mark = m.mark /\ E!Ended \in Docs
    BY <1>1, <2>2 DEF Docs
  <2> QED BY <1>2, <1>9, <2>2, <2>3 DEF EndedOf
<1> QED BY <1>4, <1>5, <1>6, <1>7, <1>8, <1>9 DEF E!Sections

\* The record that ends a section keeps the facts.
LEMMA EndedFacts ==
  ASSUME NEW d \in Docs, NEW dk, NEW ch, NEW md \in {"proposal", "shadow"}, NEW r,
         Facts(d, dk, ch, md, r),
         NEW s \in E!Sections \ {"review"}, NEW m \in Docs, Copied(d, m, s, dk),
         Entered(d, md, s), \A k \in Owed(s) : In(m, k),
         s \in ClaimSections => d.mark[s] # "none",
         s = "judge" => m.judgment # 0 /\ (ch = "select" => m.candidate),
         NEW n, EndedOf(n, d, m, s, dk)
  PROVE  Facts(n, dk, ch, md, r)
<1>1. /\ n.list = m.list /\ n.judgment = d.judgment /\ n.candidate = d.candidate
      /\ n.verdict = d.verdict /\ n.cites = d.cites
      /\ m.judgment = d.judgment /\ m.candidate = d.candidate
  BY CopyFields DEF EndedOf
<1>2. \A y \in E!Sections : n.mark[y] = IF y = s THEN "completed" ELSE d.mark[y]
  BY DEF EndedOf
<1>3. /\ Tidy(n.list, dk)
      /\ \A k : In(n, k) <=> In(m, k)
      /\ \A k : In(d, k) => In(n, k)
      /\ \A k : In(n, k) /\ k \notin Owned(s) => In(d, k)
  BY <1>1, SameList
<1>4. CASE s \in {"capture", "execute"}
  <2>1. n.stage = d.stage /\ n.reason = d.reason /\ (n.declined <=> d.declined)
        /\ n.roadmap = d.roadmap /\ (n.signed <=> d.signed)
    BY <1>4 DEF EndedOf
  <2>2. Past(n)
    BY <1>1, <1>2, <1>3, <1>4, <2>1 DEF Facts, Past, Entered, Owned, E!Sections
  <2>3. Decided(n, dk, ch)
    BY <1>1, <1>2, <1>3, <1>4, <2>1 DEF Facts, Decided, Entered, Owned, Owed, E!Sections
  <2>4. Endings(n, md)
    BY <1>1, <1>2, <1>3, <1>4, <2>1 DEF Facts, Endings, Entered, Owned
  <2>5. Accepted(n, dk) /\ Receipted(n, dk, r)
    BY <1>1, <1>2, <1>4, <2>1, NoReceipt DEF Accepted, Receipted, Entered, Ending, E!Sections
  <2> QED BY <1>3, <2>2, <2>3, <2>4, <2>5 DEF Facts
<1>5. CASE s \in {"judge", "propose", "approve", "benchmark"}
  <2>1. n.reason = d.reason /\ (n.declined <=> d.declined)
        /\ n.roadmap = d.roadmap /\ (n.signed <=> d.signed)
    BY <1>5 DEF EndedOf
  <2>2. n.stage = CASE s = "judge" -> "ranked" [] s = "propose" -> "awaiting"
                    [] s = "approve" -> "approved" [] OTHER -> "reviewing"
    BY <1>5 DEF EndedOf
  <2>3. Past(n)
    BY <1>1, <1>2, <1>3, <1>5, <2>1, <2>2 DEF Facts, Past, Entered, Owned, E!Sections
  <2>4. Decided(n, dk, ch)
    BY <1>1, <1>2, <1>3, <1>5, <2>1, <2>2 DEF Facts, Decided, Entered, Owned, Owed, E!Sections
  <2>5. Endings(n, md)
    BY <1>1, <1>2, <1>3, <1>5, <2>1, <2>2 DEF Facts, Endings, Entered, Owned
  <2>6. Accepted(n, dk) /\ Receipted(n, dk, r)
    BY <1>1, <1>2, <1>5, <2>1, <2>2, NoReceipt DEF Accepted, Receipted, Entered, Ending, E!Sections
  <2> QED BY <1>3, <2>3, <2>4, <2>5, <2>6 DEF Facts
<1>6. CASE s \in {"no-op", "duplicate", "declined"}
  <2>1. n.stage = "completed" /\ (n.declined <=> d.declined)
        /\ n.roadmap = d.roadmap /\ (n.signed <=> d.signed)
    BY <1>6 DEF EndedOf
  <2>2. n.reason = CASE s = "no-op" -> IF d.candidate THEN "shadow" ELSE "judge"
                     [] s = "duplicate" -> "duplicate" [] OTHER -> d.reason
    BY <1>6 DEF EndedOf
  <2>3. Past(n)
    BY <1>1, <1>2, <1>3, <1>6, <2>1, <2>2 DEF Facts, Past, Entered, Owned, E!Sections
  <2>4. Decided(n, dk, ch)
    BY <1>1, <1>2, <1>3, <1>6, <2>1, <2>2 DEF Facts, Decided, Entered, Owned, Owed, E!Sections
  <2>5. Endings(n, md)
    BY <1>1, <1>2, <1>3, <1>6, <2>1, <2>2 DEF Facts, Endings, Entered, Owned, Owed
  <2>6. Accepted(n, dk) /\ Receipted(n, dk, r)
    BY <1>1, <1>2, <1>6, <2>1, <2>2, NoReceipt DEF Accepted, Receipted, Entered, Ending, E!Sections
  <2> QED BY <1>3, <2>3, <2>4, <2>5, <2>6 DEF Facts
<1>7. CASE s \in {"decline", "outcome", "roadmap"}
  <2>1. n.stage = d.stage /\ n.reason = d.reason /\ (n.declined <=> (d.declined \/ s = "decline"))
        /\ n.roadmap = (IF s = "roadmap" THEN dk["roadmap"] ELSE d.roadmap)
        /\ (n.signed <=> d.signed)
    BY <1>7 DEF EndedOf
  <2>2. In(n, "roadmap") => dk["roadmap"] # 0
    BY <1>3 DEF Tidy, In, KindsOf
  <2>3. Past(n)
    BY <1>1, <1>2, <1>3, <1>7, <2>1 DEF Facts, Past, Entered, Owned, E!Sections
  <2>4. Decided(n, dk, ch)
    BY <1>1, <1>2, <1>3, <1>7, <2>1, <2>2 DEF Facts, Decided, Entered, Owned, Owed, E!Sections
  <2>5. Endings(n, md)
    BY <1>1, <1>2, <1>3, <1>7, <2>1 DEF Facts, Endings, Entered, Owned
  <2>6. Accepted(n, dk)
    BY <1>1, <1>2, <1>3, <1>7, <2>1 DEF Facts, Accepted, Projected, Entered
  <2>7. Receipted(n, dk, r)
    <3>1. ~Ending(d)
      BY <1>7 DEF Entered, Ending
    <3> QED BY <1>2, <1>7, <2>1, <3>1, NoReceipt DEF Receipted, E!Sections
  <2> QED BY <1>3, <2>3, <2>4, <2>5, <2>6, <2>7 DEF Facts
<1>8. CASE s = "receipt"
  <2>1. n.stage = (IF d.stage = "compounding" THEN "completed" ELSE d.stage)
        /\ n.reason = d.reason /\ (n.declined <=> d.declined)
        /\ n.roadmap = d.roadmap /\ n.signed
    BY <1>8 DEF EndedOf
  <2>2. d.stage \in {"compounding", "completed", "failed"} /\ d.mark["receipt"] # "none"
    BY <1>8 DEF Entered, Ending, ClaimSections
  <2>3. Past(n)
    BY <1>1, <1>2, <1>3, <1>8, <2>1, <2>2 DEF Facts, Past, Owned, E!Sections
  <2>4. Decided(n, dk, ch)
    BY <1>1, <1>2, <1>3, <1>8, <2>1, <2>2 DEF Facts, Decided, Owned, E!Sections
  <2>5. Endings(n, md)
    BY <1>1, <1>3, <1>8, <2>1, <2>2 DEF Facts, Endings, Owned
  <2>6. Accepted(n, dk)
    BY <2>1, <2>2 DEF Accepted
  <2>7. Shows(r, n, dk)
    <3>1. Shows(r, d, dk)
      BY <2>2 DEF Facts, Receipted
    <3>2. KindsOf(n.list) \ {"receipt", "signature"} = KindsOf(d.list) \ {"receipt", "signature"}
      BY <1>3, <1>8 DEF In, Owned
    <3>3. n.mark["capture"] = d.mark["capture"]
      BY <1>2, <1>8 DEF E!Sections
    <3> QED BY <1>1, <2>1, <2>2, <3>1, <3>2, <3>3 DEF Shows
  <2>8. Receipted(n, dk, r)
    BY <1>2, <1>8, <2>1, <2>2, <2>7 DEF Receipted, Ending, E!Sections
  <2> QED BY <1>3, <2>3, <2>4, <2>5, <2>6, <2>8 DEF Facts
<1> QED BY <1>4, <1>5, <1>6, <1>7, <1>8 DEF E!Sections

\* A review that is accepted.
CitedKinds(cites) == {ref.kind : ref \in cites}
ReviewedOf(m, v, C) == [m EXCEPT !.stage = "compounding", !.verdict = v, !.cites = C]

\* The record of a review that is accepted keeps the facts.
LEMMA ReviewedFacts ==
  ASSUME NEW d \in Docs, NEW dk, NEW ch, NEW md, NEW r, Facts(d, dk, ch, md, r),
         NEW m \in Docs, Copied(d, m, "review", dk), Entered(d, md, "review"),
         In(m, "review"), d.mark["review"] # "none",
         NEW v \in {"promote", "close"}, NEW C \in SUBSET Artifacts,
         \A ref \in C : In(m, ref.kind) /\ ref.digest = dk[ref.kind],
         v = "promote" => E!Required \subseteq CitedKinds(C),
         NEW x, x = ReviewedOf(m, v, C)
  PROVE  Facts(x, dk, ch, md, r) /\ x \in Docs /\ x.mark = d.mark
<1> DEFINE n == ReviewedOf(m, v, C)
<1>1. /\ n.stage = "compounding" /\ n.list = m.list /\ n.judgment = d.judgment /\ n.mark = d.mark
      /\ n.candidate = d.candidate /\ n.reason = d.reason /\ (n.declined <=> d.declined)
      /\ n.verdict = v /\ n.cites = C /\ n.roadmap = d.roadmap /\ (n.signed <=> d.signed)
  <2>1. /\ n.stage = "compounding" /\ n.list = m.list /\ n.judgment = m.judgment /\ n.mark = m.mark
        /\ n.candidate = m.candidate /\ n.reason = m.reason /\ n.declined = m.declined
        /\ n.verdict = v /\ n.cites = C /\ n.roadmap = m.roadmap /\ n.signed = m.signed
    BY DEF Docs, ReviewedOf
  <2> QED BY <2>1, CopyFields
<1>2. n \in Docs
  BY DEF Docs, Stages, ReviewedOf
<1>0. x = n
  OBVIOUS
<1> HIDE DEF n
<1>3. /\ Tidy(n.list, dk)
      /\ \A k : In(n, k) <=> In(m, k)
      /\ \A k : In(d, k) => In(n, k)
      /\ \A k : In(n, k) /\ k \notin Owned("review") => In(d, k)
  BY <1>1, SameList
<1>4. d.stage = "reviewing" /\ Projected(d)
  BY DEF Entered
<1>5. n.mark["receipt"] = "none" /\ ~n.signed
  BY <1>1, <1>4, NoReceipt DEF Ending
<1>6. Past(n)
  BY <1>1, <1>3, <1>4 DEF Facts, Past, Owned
<1>7. Decided(n, dk, ch)
  BY <1>1, <1>3, <1>4 DEF Facts, Decided, Owned
<1>8. Endings(n, md)
  BY <1>1, <1>3, <1>4 DEF Facts, Endings, Owned
<1>9. Accepted(n, dk)
  BY <1>1, <1>3, <1>4 DEF Accepted, Projected, CitedKinds
<1>10. Receipted(n, dk, r)
  BY <1>5 DEF Receipted
<1> QED BY <1>0, <1>1, <1>2, <1>3, <1>6, <1>7, <1>8, <1>9, <1>10 DEF Facts

\* A document is a copy of itself.
LEMMA SelfCopied ==
  ASSUME NEW d \in Docs, NEW dk, Tidy(d.list, dk), NEW s
  PROVE  Copied(d, d, s, dk)
BY DEF Docs, Copied

\* fail, behind a record.
LEMMA FailedRecord ==
  ASSUME NEW d \in Docs, NEW dk, NEW ch, NEW md, NEW r, Facts(d, dk, ch, md, r),
         d.stage \in {"observing", "approved", "reviewing"},
         NEW n, n = [d EXCEPT !.stage = "failed"]
  PROVE  Facts(n, dk, ch, md, r) /\ n \in Docs /\ n.mark = d.mark
<1>1. Copied(d, d, "capture", dk)
  BY SelfCopied DEF Facts
<1>2. In(d, "observation") => In(d, "components")
  BY DEF Facts, Decided
<1>3. In(d, "judgment") => d.judgment # 0
  BY DEF Facts, Decided
<1>4. Facts(n, dk, ch, md, r)
  BY <1>1, <1>2, <1>3, FailedFacts DEF FailSections
<1> QED BY <1>4 DEF Docs, Stages

\* A new document.
LEMMA NewDocTypes ==
  /\ E!NewDoc \in Docs
  /\ E!NewDoc.list = <<>> /\ KindsOf(E!NewDoc.list) = {}
  /\ E!NewDoc.stage = "observing" /\ \A s \in E!Sections : E!NewDoc.mark[s] = "none"
  /\ E!NewDoc.judgment = 0 /\ ~E!NewDoc.candidate /\ E!NewDoc.reason = "none"
  /\ E!NewDoc.roadmap = 0 /\ ~E!NewDoc.signed
BY DEF E!NewDoc, Docs, Stages, Marks, KindsOf

\* A command that ends leaves its record.
LEMMA Stops ==
  ASSUME EvidenceInv, E!Stop, UNCHANGED <<mode, disk, bound, choice, receipt>>,
         doc' \in Docs, Facts(doc', disk, choice, mode, receipt),
         doc'.mark["capture"] = "none" => doc.mark["capture"] = "none"
  PROVE  EvidenceInv'
<1>1. place' = "idle" /\ mem' \in Docs
  BY NewDocTypes DEF E!Stop
<1>2. EvidenceTypes'
  BY <1>1 DEF EvidenceInv, EvidenceTypes
<1>3. Facts(doc', disk', choice', mode', receipt')
  OBVIOUS
<1>4. OnDisk'
  BY DEF EvidenceInv, OnDisk
<1> QED BY <1>1, <1>2, <1>3, <1>4 DEF EvidenceInv

\* fail, in the midst of a section.
LEMMA Fails ==
  ASSUME EvidenceInv, place # "idle", sec \in FailSections,
         In(mem, "judgment") => mem.judgment # 0,
         NEW n, n = [mem EXCEPT !.stage = "failed"]
  PROVE  Facts(n, disk, choice, mode, receipt) /\ n \in Docs /\ n.mark = doc.mark
<1>1. /\ doc \in Docs /\ mem \in Docs /\ Facts(doc, disk, choice, mode, receipt)
      /\ Copied(doc, mem, sec, disk) /\ Entered(doc, mode, sec)
      /\ sec = "capture" => (In(mem, "observation") => In(mem, "components"))
  BY DEF EvidenceInv, EvidenceTypes, Running
<1>2. doc.stage \in {"observing", "approved", "reviewing"}
      /\ (sec = "judge" => doc.mark["capture"] = "completed")
  BY <1>1 DEF Entered, FailSections
<1>3. Facts(n, disk, choice, mode, receipt)
  BY <1>1, <1>2, FailedFacts
<1>4. n.mark = mem.mark /\ n \in Docs
  BY <1>1 DEF Docs, Stages
<1> QED BY <1>1, <1>3, <1>4, CopyFields

\* The judgment of a copy is taken over, except right before that step.
LEMMA Adopted ==
  ASSUME EvidenceInv, place # "idle", todo # <<E!Adopt>>, In(mem, "judgment")
  PROVE  mem.judgment # 0
<1>1. /\ doc \in Docs /\ mem \in Docs /\ Facts(doc, disk, choice, mode, receipt)
      /\ Copied(doc, mem, sec, disk) /\ place \in {"claim", "work"}
  BY DEF EvidenceInv, EvidenceTypes, Running
<1>2. CASE sec = "judge" /\ place = "work"
  BY <1>2 DEF EvidenceInv, Running
<1>3. CASE sec = "judge" /\ place = "claim"
  <2>1. PICK row \in Rows("judge") : row.at = "claim" /\ Clear(row.writes, row.notes)
    BY <1>3 DEF EvidenceInv, Running
  <2>2. "judgment" \in row.writes
    BY <2>1 DEF Rows, JudgeRows, Row
  <2> QED BY <2>1, <2>2 DEF Clear, In
<1>4. CASE sec # "judge"
  <2>1. "judgment" \notin Owned(sec)
    BY <1>4 DEF Owned
  <2>2. In(doc, "judgment") /\ mem.judgment = doc.judgment
    BY <1>1, <2>1, CopyFields
  <2> QED BY <1>1, <2>2 DEF Facts, Decided
<1> QED BY <1>1, <1>2, <1>3, <1>4

\* The kinds of a list of artifacts.
LEMMA KindsTyped == ASSUME NEW l \in Seq(Artifacts) PROVE KindsOf(l) \subseteq E!Kinds
<1>1. \A i \in DOMAIN l : l[i] \in Artifacts
  OBVIOUS
<1> QED BY <1>1 DEF KindsOf, Artifacts

\* Every artifact of a tidy list is its only one, with its file.
LEMMA ListedEach ==
  ASSUME NEW l \in Seq(Artifacts), NEW dk \in [E!Kinds -> Nat], Tidy(l, dk),
         NEW a \in E!ToSet(l)
  PROVE  E!Count(l, a.kind) = 1 /\ dk[a.kind] = a.digest
<1>1. \A i \in DOMAIN l : l[i] \in Artifacts
  OBVIOUS
<1>2. PICK i \in DOMAIN l : a = l[i]
  BY DEF E!ToSet
<1>3. a.kind \in E!Kinds /\ a.kind \in KindsOf(l)
  BY <1>1, <1>2 DEF Artifacts, KindsOf
<1> QED BY <1>3, Listed

-----------------------------------------------------------------------------
(* The steps. *)

\* What holds in a section.
LEMMA InSection ==
  ASSUME EvidenceInv, place # "idle"
  PROVE  /\ doc \in Docs /\ mem \in Docs /\ Facts(doc, disk, choice, mode, receipt)
         /\ disk \in [E!Kinds -> Nat] /\ mode \in {"proposal", "shadow"}
         /\ place \in {"claim", "work"}
         /\ Copied(doc, mem, sec, disk) /\ Entered(doc, mode, sec) /\ sec \in E!Sections
         /\ \A k : In(mem, k) => disk[k] # 0
<1>1. Copied(doc, mem, sec, disk) /\ Entered(doc, mode, sec) /\ EvidenceTypes
      /\ Facts(doc, disk, choice, mode, receipt)
  BY DEF EvidenceInv, Running
<1>2. \A k : In(mem, k) => disk[k] # 0
  BY <1>1 DEF Copied, Tidy, In, KindsOf
<1> QED BY <1>1, <1>2 DEF EvidenceTypes, Entered

\* A crash keeps the invariant.
LEMMA CrashStep == ASSUME EvidenceInv, E!Crash PROVE EvidenceInv'
<1>1. /\ E!Stop /\ UNCHANGED <<mode, doc, disk, bound, choice, receipt>>
  BY DEF E!Crash, E!Files
<1>2. doc' \in Docs /\ Facts(doc', disk, choice, mode, receipt)
  BY <1>1 DEF EvidenceInv, EvidenceTypes
<1> QED BY <1>1, <1>2, Stops

\* fail, or an error that ends the command, with the copy in a section that
\* may fail its cycle.
LEMMA FailedStep ==
  ASSUME EvidenceInv, place # "idle", sec \in FailSections, E!Failed(mem),
         todo # <<E!Adopt>> \/ (In(mem, "judgment") => mem.judgment # 0)
  PROVE  EvidenceInv'
<1>1. /\ E!Stop /\ UNCHANGED <<mode, disk, bound, choice, receipt>>
      /\ doc' = doc \/ doc' = [mem EXCEPT !.stage = "failed"]
  BY DEF E!Failed, E!FailWith, E!Files
<1>2. In(mem, "judgment") => mem.judgment # 0
  BY Adopted
<1>3. CASE doc' = doc
  BY <1>1, <1>3, Stops, InSection
<1>4. CASE doc' = [mem EXCEPT !.stage = "failed"]
  <2>1. Facts(doc', disk, choice, mode, receipt) /\ doc' \in Docs /\ doc'.mark = doc.mark
    BY <1>2, <1>4, Fails
  <2> QED BY <1>1, <2>1, Stops
<1> QED BY <1>1, <1>3, <1>4

\* An error of a call ends the command, or fails the cycle first.
LEMMA BrokenStep ==
  ASSUME EvidenceInv, place # "idle", NEW x \in BOOLEAN, x => sec \in FailSections,
         E!Broken(mem, x), todo # <<E!Adopt>>
  PROVE  EvidenceInv'
<1>1. /\ E!Stop /\ UNCHANGED <<mode, disk, bound, choice, receipt>>
      /\ doc' = IF x THEN [mem EXCEPT !.stage = "failed"] ELSE doc
  BY DEF E!Broken, E!Files
<1>2. In(mem, "judgment") => mem.judgment # 0
  BY Adopted
<1>3. CASE ~x
  BY <1>1, <1>3, Stops, InSection
<1>4. CASE x
  <2>1. Facts(doc', disk, choice, mode, receipt) /\ doc' \in Docs /\ doc'.mark = doc.mark
    BY <1>1, <1>2, <1>4, Fails
  <2> QED BY <1>1, <2>1, Stops
<1> QED BY <1>3, <1>4

\* A record that fails before or behind its effect.
LEMMA LostStep ==
  ASSUME EvidenceInv, place # "idle", NEW m \in Docs, NEW x \in BOOLEAN,
         Facts(m, disk, choice, mode, receipt),
         m.mark["capture"] = "none" => doc.mark["capture"] = "none",
         x => m.stage \in {"observing", "approved", "reviewing"},
         E!Lost(m, x)
  PROVE  EvidenceInv'
<1>1. /\ E!Stop /\ UNCHANGED <<mode, disk, bound, choice, receipt>>
      /\ doc' \in IF x THEN {[m EXCEPT !.stage = "failed"]} ELSE {doc, m}
  BY DEF E!Lost, E!Files
<1>2. CASE x
  <2>1. doc' = [m EXCEPT !.stage = "failed"]
    BY <1>1, <1>2
  <2>2. Facts(doc', disk, choice, mode, receipt) /\ doc' \in Docs /\ doc'.mark = m.mark
    BY <1>2, <2>1, FailedRecord
  <2> QED BY <1>1, <2>2, Stops
<1>3. CASE doc' = m
  BY <1>1, <1>3, Stops
<1>4. CASE doc' = doc
  BY <1>1, <1>4, Stops, InSection
<1> QED BY <1>1, <1>2, <1>3, <1>4

\* Nothing is left to note at the end of a section.
Spent(rows) == \A row \in rows : row.at = "work" /\ row.left = <<>> => row.notes = {}

\* Nothing is left to note behind the last step of any section.
LEMMA EndRows == ASSUME NEW s \in E!Sections PROVE Spent(Rows(s))
<1>1. Spent(CaptureRows) BY SMTT(20) DEF Spent, CaptureRows, Row
<1>2. Spent(JudgeRows) BY DEF Spent, JudgeRows, Row
<1>3. Spent(DuplicateRows)
  <2> SUFFICES ASSUME NEW row \in DuplicateRows, row.left = <<>> PROVE row.notes = {}
    BY DEF Spent
  <2>1. row = Row("work", <<>>, {}, {})
    BY DEF DuplicateRows, Row
  <2> QED BY <2>1 DEF Row
<1>4. Spent(ExecuteRows)
  <2> SUFFICES ASSUME NEW row \in ExecuteRows, row.at = "work", row.left = <<>>
               PROVE  row.notes = {}
    BY DEF Spent
  <2>1. row = Row("work", <<>>, {}, {})
    BY SMTT(20) DEF ExecuteRows, Row
  <2> QED BY <2>1 DEF Row
<1>5. Spent(BenchmarkRows) BY DEF Spent, BenchmarkRows, Row
<1>6. Spent(ReviewRows) BY DEF Spent, ReviewRows, SingleRows, Row
<1>7. Spent(RoadmapRows) BY DEF Spent, RoadmapRows, SingleRows, Row
<1>8. Spent(ReceiptRows) BY DEF Spent, ReceiptRows, SingleRows, Row
<1>9. \A k : Spent(SingleRows(k)) BY DEF Spent, SingleRows, Row
<1>10. Spent({Row("work", <<>>, {}, {})}) BY DEF Spent, Row
<1> QED BY <1>1, <1>2, <1>3, <1>4, <1>5, <1>6, <1>7, <1>8, <1>9, <1>10 DEF Rows, E!Sections

\* At its end a section has recorded what it owes.
LEMMA AtEnd ==
  ASSUME EvidenceInv, place = "work", todo = <<>>
  PROVE  \A k \in Owed(sec) : In(mem, k)
<1>1. PICK row \in Rows(sec) : row.at = place /\ row.left = todo /\ Clear(row.writes, row.notes)
  BY DEF EvidenceInv, Running
<1>2. row.notes = {}
  BY <1>1, InSection, EndRows DEF Spent
<1> QED BY <1>1, <1>2 DEF Clear, In

\* The end of a section keeps the invariant.
LEMMA FinishStep == ASSUME EvidenceInv, E!Finish PROVE EvidenceInv'
<1>1. place = "work" /\ todo = <<>> /\ sec \in E!Sections \ {"review"}
  BY InSection DEF E!Finish
<1>2. sec \in ClaimSections => doc.mark[sec] # "none"
  BY <1>1, PlanFields DEF EvidenceInv, Running
<1>3. sec = "judge" => mem.judgment # 0 /\ (choice = "select" => mem.candidate)
  BY <1>1 DEF EvidenceInv, Running
<1>4. EndedOf(E!Ended, doc, mem, sec, disk) /\ E!Ended \in Docs
  BY <1>1, EndedFields, InSection
<1>5. Facts(E!Ended, disk, choice, mode, receipt)
  BY <1>1, <1>2, <1>3, <1>4, EndedFacts, InSection, AtEnd
<1>6. E!Ended.mark["capture"] = "none" => doc.mark["capture"] = "none"
  BY <1>4 DEF EndedOf, E!Sections
<1>7. CASE doc' = E!Ended /\ E!Stop /\ E!Quiet /\ UNCHANGED <<mode, E!Files>>
  BY <1>4, <1>5, <1>6, <1>7, Stops DEF E!Files
<1>8. CASE E!Lost(E!Ended, sec = "capture")
  <2>1. sec = "capture" => E!Ended.stage = "observing"
    BY <1>1, <1>4, InSection DEF EndedOf, Entered
  <2> QED BY <1>1, <1>4, <1>5, <1>6, <1>8, <2>1, LostStep
<1>9. CASE sec \in E!MayFail /\ E!Failed(mem)
  BY <1>1, <1>3, <1>9, FailedStep DEF E!MayFail, FailSections, E!Adopt
<1> QED BY <1>7, <1>8, <1>9 DEF E!Finish

\* The end of the review keeps the invariant.
LEMMA FinishReviewStep == ASSUME EvidenceInv, E!FinishReview PROVE EvidenceInv'
<1>1. place = "work" /\ todo = <<>> /\ sec = "review"
  BY DEF E!FinishReview
<1>2. In(mem, "review") /\ doc.mark["review"] # "none"
  <2>1. "review" \in Owed(sec)
    BY <1>1 DEF Owed
  <2>2. E!PlanOf("review").claim
    BY PlanFields DEF E!Sections, ClaimSections
  <2> QED BY <1>1, <2>1, <2>2, AtEnd DEF EvidenceInv, Running
<1>3. PICK m \in E!Reviewed :
        IF E!EvidenceValid(m, m.verdict, m.cites)
        THEN \/ doc' = m /\ E!Stop /\ E!Quiet /\ UNCHANGED <<mode, E!Files>>
             \/ E!Lost(m, FALSE)
        ELSE E!Failed(mem)
  BY DEF E!FinishReview
<1>4. CASE ~E!EvidenceValid(m, m.verdict, m.cites)
  <2>1. todo # <<E!Adopt>>
    BY <1>1
  <2> QED BY <1>1, <1>3, <1>4, <2>1, FailedStep DEF FailSections
<1>5. CASE E!EvidenceValid(m, m.verdict, m.cites)
  <2> DEFINE Cites(cited, real) ==
        {E!Artifact(k, IF k \in real /\ E!Has(mem.list, k)
                       THEN E!Digest(mem.list, k) ELSE 0) : k \in cited}
  <2>0. PICK v \in {"promote", "close"},
             cited \in {{}, E!Required \ {"transcript"}, E!Required},
             real \in {{}, E!Required} :
          m = [E!Onward(mem, "compounding") EXCEPT !.verdict = v, !.cites = Cites(cited, real)]
    BY DEF E!Reviewed
  <2>1. m = [mem EXCEPT !.stage = "compounding", !.verdict = v, !.cites = Cites(cited, real)]
    <3>1. mem.stage = "reviewing" /\ mem \in Docs
      BY <1>1, InSection, CopyFields DEF Entered
    <3>2. E!Onward(mem, "compounding") = [mem EXCEPT !.stage = "compounding"]
      BY <3>1 DEF E!Onward
    <3> QED BY <2>0, <3>2
  <2> DEFINE C == Cites(cited, real)
  <2>2. mem.list \in Seq(Artifacts) /\ Tidy(mem.list, disk)
    BY <1>1, InSection DEF Docs, Copied
  <2>3. C \in SUBSET Artifacts
    <3>1. ASSUME NEW k \in cited
          PROVE  E!Artifact(k, IF k \in real /\ E!Has(mem.list, k)
                               THEN E!Digest(mem.list, k) ELSE 0) \in Artifacts
      <4>1. k \in E!Kinds
        BY <3>1 DEF E!Required, E!Kinds
      <4>2. disk[k] \in Nat
        BY <1>1, <4>1, InSection
      <4>3. E!Has(mem.list, k) => E!Digest(mem.list, k) = disk[k]
        BY <1>1, <2>2, <4>1, InSection, Listed
      <4> QED BY <4>1, <4>2, <4>3 DEF E!Artifact, Artifacts
    <3> QED BY <3>1
  <2>4. m = ReviewedOf(mem, v, C)
    BY <2>1 DEF ReviewedOf
  <2> HIDE DEF C
  <2>5. m.verdict = v /\ m.cites = C
    BY <1>1, <2>4, InSection DEF ReviewedOf, Docs
  <2>6. \A ref \in C : ref \in E!ToSet(m.list) /\ disk[ref.kind] = ref.digest
    BY <1>5, <2>5 DEF E!EvidenceValid
  <2>7. v = "promote" => E!Required \subseteq CitedKinds(C)
    BY <1>5, <2>5 DEF E!EvidenceValid, CitedKinds
  <2>8. m.list = mem.list
    BY <1>1, <2>4, InSection DEF ReviewedOf, Docs
  <2>9. \A ref \in C : In(mem, ref.kind) /\ ref.digest = disk[ref.kind]
    <3>1. ASSUME NEW ref \in C PROVE In(mem, ref.kind)
      <4>1. PICK i \in DOMAIN mem.list : ref = mem.list[i]
        BY <2>6, <2>8 DEF E!ToSet
      <4> QED BY <4>1 DEF In, KindsOf
    <3> QED BY <2>6, <3>1
  <2>10. Facts(m, disk, choice, mode, receipt) /\ m \in Docs /\ m.mark = doc.mark
    <3>1. /\ doc \in Docs /\ mem \in Docs /\ Facts(doc, disk, choice, mode, receipt)
          /\ Copied(doc, mem, "review", disk) /\ Entered(doc, mode, "review")
      BY <1>1, InSection
    <3> QED BY <1>2, <2>3, <2>4, <2>7, <2>9, <3>1, ReviewedFacts
  <2>11. CASE doc' = m /\ E!Stop /\ E!Quiet /\ UNCHANGED <<mode, E!Files>>
    BY <2>10, <2>11, Stops DEF E!Files
  <2>12. CASE E!Lost(m, FALSE)
    BY <1>1, <2>10, <2>12, LostStep
  <2> QED BY <1>3, <1>5, <2>11, <2>12
<1> QED BY <1>4, <1>5

\* A step of a section establishes the invariant behind it.
LEMMA GoesOn ==
  ASSUME doc' \in Docs, mem' \in Docs, receipt' \in Docs, disk' \in [E!Kinds -> Nat],
         bound' \in Nat, choice' \in {"none", "noop", "select"},
         mode' \in {"proposal", "shadow"}, place' \in {"claim", "work"},
         Facts(doc, disk, choice, mode, receipt)', OnDisk', Running'
  PROVE  EvidenceInv'
BY DEF EvidenceInv, EvidenceTypes

\* Taking over the judgment keeps the invariant.
LEMMA TakeOverStep == ASSUME EvidenceInv, E!TakeOver PROVE EvidenceInv'
<1>1. place \in {"claim", "work"} /\ todo # <<>> /\ todo[1][1] = "adopt"
  BY DEF E!TakeOver, E!Step
<1>2. PICK row \in Rows(sec) : row.at = place /\ row.left = todo /\ Clear(row.writes, row.notes)
  BY <1>1 DEF EvidenceInv, Running
<1>3. FirstAdopts(sec, row)
  <2>1. Onto(sec, row)
    BY <1>1, <1>2, Onward
  <2>2. \A k : E!W(k)[1] = "write" /\ E!N(k)[1] = "note"
    BY DEF E!W, E!N
  <2>3. E!Save[1] = "save" /\ E!Late[1] = "late"
    BY DEF E!Save, E!Late
  <2> QED BY <1>1, <1>2, <2>1, <2>2, <2>3 DEF Onto, FirstWrites, FirstNotes, FirstKeeps
<1>4. sec = "judge" /\ place = "work" /\ todo = <<E!Adopt>> /\ row.notes = {} /\ row.writes = {}
  BY <1>2, <1>3 DEF FirstAdopts
<1>5. In(mem, "judgment") /\ disk["judgment"] # 0 /\ choice # "none"
  <2>1. In(mem, "judgment")
    BY <1>2, <1>4 DEF Clear, Owed, In
  <2> QED BY <1>1, <2>1, InSection DEF EvidenceInv, OnDisk
<1>6. doc.mark["judge"] # "none"
  BY <1>4, PlanFields DEF EvidenceInv, Running, E!Sections, ClaimSections
<1>7. disk["judgment"] \in Nat /\ doc.stage = "observing" /\ mem.stage = "observing"
      /\ mem.mark = doc.mark
  BY <1>1, <1>4, InSection, CopyFields DEF E!Kinds, Entered
<1>8. ASSUME NEW c \in BOOLEAN, c => choice = "select", NEW x \in {"observing", "failed"},
             NEW n, n = [mem EXCEPT !.judgment = disk["judgment"], !.candidate = c, !.stage = x]
      PROVE  Facts(n, disk, choice, mode, receipt) /\ n \in Docs /\ n.mark = doc.mark
  <2>1. Facts(n, disk, choice, mode, receipt)
    BY <1>1, <1>4, <1>5, <1>6, <1>8, InSection, AdoptedFacts
  <2>2. n \in Docs /\ n.mark = mem.mark
    BY <1>1, <1>7, <1>8, InSection DEF Docs, Stages
  <2> QED BY <1>7, <2>1, <2>2
<1> DEFINE a == E!Adopting(TRUE)
<1>9. a = [mem EXCEPT !.judgment = disk["judgment"], !.candidate = (choice = "select"),
                      !.stage = "observing"]
  BY <1>1, <1>7, InSection DEF E!Adopting, Docs
<1>10. Facts(a, disk, choice, mode, receipt) /\ a \in Docs /\ a.mark = doc.mark
  BY <1>8, <1>9
<1>11. CASE doc' = a /\ E!Rest(a) /\ E!Quiet /\ UNCHANGED <<mode, E!Files>>
  <2>1. /\ doc' = a /\ mem' = a /\ place' = "work" /\ sec' = "judge" /\ todo' = <<>>
        /\ UNCHANGED <<mode, disk, bound, choice, receipt>>
    BY <1>4, <1>11 DEF E!Rest, E!Go, E!Files
  <2>2. /\ a.list = mem.list /\ a.judgment = disk["judgment"] /\ a.stage = "observing"
        /\ (a.candidate <=> choice = "select")
    BY <1>1, <1>9, InSection DEF Docs
  <2> HIDE DEF a
  <2>3. Copied(a, a, "judge", disk)
    BY <1>10, SelfCopied DEF Facts
  <2>4. Entered(a, mode, "judge")
    BY <1>1, <1>4, <1>10, <2>2, InSection DEF Entered, E!Sections
  <2>5. Row("work", <<>>, {}, {}) \in Rows("judge")
    BY DEF Rows, JudgeRows
  <2>6. Clear({}, {})'
    BY <1>2, <1>4, <2>1, <2>2 DEF Clear, E!Blind
  <2>7. Running'
    <3>1. /\ Row("work", <<>>, {}, {}).at = "work" /\ Row("work", <<>>, {}, {}).left = <<>>
          /\ Row("work", <<>>, {}, {}).writes = {} /\ Row("work", <<>>, {}, {}).notes = {}
      BY DEF Row
    <3>2. \E row_1 \in Rows("judge") : /\ row_1.at = "work" /\ row_1.left = <<>>
                                       /\ row_1.writes = {} /\ row_1.notes = {}
      BY <2>5, <3>1
    <3> QED BY <1>5, <1>6, <1>10, <2>1, <2>2, <2>3, <2>4, <2>6, <3>2 DEF Running
  <2>8. Facts(doc, disk, choice, mode, receipt)'
    BY <1>10, <2>1
  <2>9. OnDisk'
    BY <1>10, <2>1 DEF EvidenceInv, OnDisk
  <2> QED BY <1>10, <2>1, <2>7, <2>8, <2>9, GoesOn DEF EvidenceInv, EvidenceTypes
<1>12. CASE E!Lost(a, FALSE)
  BY <1>1, <1>10, <1>12, LostStep
<1>13. CASE choice = "select" /\ E!Failed(E!Adopting(FALSE))
  <2>1. E!Adopting(FALSE) = [mem EXCEPT !.judgment = disk["judgment"], !.candidate = FALSE]
    BY DEF E!Adopting
  <2> DEFINE f == [mem EXCEPT !.judgment = disk["judgment"], !.candidate = FALSE,
                              !.stage = "failed"]
  <2>2. [E!Adopting(FALSE) EXCEPT !.stage = "failed"] = f
    BY <1>1, <2>1, InSection DEF Docs
  <2>3. Facts(f, disk, choice, mode, receipt) /\ f \in Docs /\ f.mark = doc.mark
    BY <1>8
  <2> HIDE DEF f
  <2>4. /\ E!Stop /\ UNCHANGED <<mode, disk, bound, choice, receipt>>
        /\ doc' = doc \/ doc' = f
    BY <1>13, <2>2 DEF E!Failed, E!FailWith, E!Files
  <2>5. CASE doc' = doc
    BY <1>1, <2>4, <2>5, Stops, InSection
  <2>6. CASE doc' = f
    BY <2>3, <2>4, <2>6, Stops
  <2> QED BY <2>4, <2>5, <2>6
<1> QED BY <1>11, <1>12, <1>13 DEF E!TakeOver

\* The row of a step, and what the step is.
LEMMA RowFields ==
  ASSUME NEW p, NEW t, NEW ws, NEW ns
  PROVE  /\ Row(p, t, ws, ns).at = p /\ Row(p, t, ws, ns).left = t
         /\ Row(p, t, ws, ns).writes = ws /\ Row(p, t, ws, ns).notes = ns
BY DEF Row

At(row) == row.at = place /\ row.left = todo /\ Clear(row.writes, row.notes)

\* The row of a section that has a step left, and the kind of the step.
LEMMA AtStep ==
  ASSUME EvidenceInv, place # "idle", todo # <<>>
  PROVE  \E row \in Rows(sec) :
           /\ At(row)
           /\ todo[1][1] = "write" => FirstWrites(sec, row)
           /\ todo[1][1] = "note" => FirstNotes(sec, row)
           /\ todo[1][1] \in {"save", "late"} => FirstKeeps(sec, row)
           /\ todo[1][1] = "adopt" => FirstAdopts(sec, row)
<1>1. PICK row \in Rows(sec) : At(row)
  BY DEF EvidenceInv, Running, At
<1>2. Onto(sec, row)
  BY <1>1, Onward DEF At
<1>3. \A k : E!W(k)[1] = "write" /\ E!N(k)[1] = "note"
  BY DEF E!W, E!N
<1>4. /\ E!Save[1] = "save" /\ E!Late[1] = "late" /\ E!Adopt[1] = "adopt"
      /\ <<E!Adopt>>[1] = E!Adopt
  BY DEF E!Save, E!Late, E!Adopt
<1>5. row.left = todo
  BY <1>1 DEF At
<1>6. FirstWrites(sec, row) => todo[1][1] = "write"
  BY <1>3, <1>5 DEF FirstWrites
<1>7. FirstNotes(sec, row) => todo[1][1] = "note"
  BY <1>3, <1>5 DEF FirstNotes
<1>8. FirstKeeps(sec, row) => todo[1][1] \in {"save", "late"}
  BY <1>4, <1>5 DEF FirstKeeps
<1>9. FirstAdopts(sec, row) => todo[1][1] = "adopt"
  BY <1>4, <1>5 DEF FirstAdopts
<1> QED BY <1>1, <1>2, <1>6, <1>7, <1>8, <1>9 DEF Onto

\* The step that follows a claim or a record.
LEMMA Recorded ==
  ASSUME EvidenceInv, place # "idle", NEW m \in Docs, Facts(m, disk, choice, mode, receipt),
         Entered(m, mode, sec), m.list = mem.list,
         m.mark["capture"] = "none" => doc.mark["capture"] = "none",
         NEW t, NEW ws, NEW ns, Row("work", t, ws, ns) \in Rows(sec), Clear(ws, ns),
         sec = "receipt" => "receipt" \notin ws,
         sec \in ClaimSections => m.mark[sec] # "none",
         sec = "judge" => t # <<>> /\ (In(m, "judgment") => m.judgment # 0),
         doc' = m, E!Go("work", sec, t, m), UNCHANGED <<mode, E!Files>>
  PROVE  EvidenceInv'
<1>1. /\ doc' = m /\ mem' = m /\ place' = "work" /\ sec' = sec /\ todo' = t
      /\ UNCHANGED <<mode, disk, bound, choice, receipt>>
  BY DEF E!Go, E!Files
<1>2. /\ \A k : In(m, k) <=> In(mem, k)
      /\ KindsOf(doc.list) \subseteq KindsOf(m.list)
  BY InSection DEF In, Copied
<1>3. Copied(m, m, sec, disk)
  BY SelfCopied DEF Facts
<1>4. Clear(ws, ns)'
  BY <1>1, <1>2 DEF Clear
<1>5. sec = "capture" => (In(m, "observation") => In(m, "components"))
  BY <1>2 DEF EvidenceInv, Running
<1>6. E!PlanOf(sec).claim => m.mark[sec] # "none"
  BY InSection, PlanFields
<1>7. \E row \in Rows(sec) : /\ row.at = "work" /\ row.left = t
                             /\ row.writes = ws /\ row.notes = ns
  BY RowFields
<1>8. (\E row \in Rows(sec) : row.at = place /\ row.left = todo /\ Clear(row.writes, row.notes))'
  BY <1>1, <1>4, <1>7
<1>9. (E!PlanOf(sec).claim)' <=> E!PlanOf(sec).claim
  BY <1>1 DEF E!PlanOf
<1>10. Running'
  BY <1>1, <1>3, <1>5, <1>6, <1>8, <1>9 DEF Running
<1>11. OnDisk'
  BY <1>1 DEF EvidenceInv, OnDisk
<1> QED BY <1>1, <1>10, <1>11, GoesOn DEF EvidenceInv, EvidenceTypes

\* A record in the midst of a section keeps the invariant.
LEMMA KeepStep == ASSUME EvidenceInv, E!Keep PROVE EvidenceInv'
<1>1. place \in {"claim", "work"} /\ todo # <<>> /\ todo[1][1] \in {"save", "late"}
  BY DEF E!Keep, E!Step
<1>2. PICK row \in Rows(sec) : At(row) /\ FirstKeeps(sec, row)
  BY <1>1, AtStep
<1>3. /\ place = "work" /\ Row("work", Tail(todo), row.writes, row.notes) \in Rows(sec)
      /\ Clear(row.writes, row.notes)
      /\ \/ todo[1] = E!Save /\ sec \in {"judge", "duplicate"}
         \/ todo[1] = E!Late /\ sec \in {"capture", "duplicate"}
      /\ sec = "judge" => Tail(todo) # <<>>
  BY <1>2 DEF At, FirstKeeps
<1>0. /\ E!Save[1] = "save" /\ E!Late[1] = "late" /\ E!Adopt[1] = "adopt"
      /\ <<E!Adopt>>[1] = E!Adopt
  BY DEF E!Save, E!Late, E!Adopt
<1>4. todo # <<E!Adopt>>
  BY <1>0, <1>1
<1>5. In(mem, "judgment") => mem.judgment # 0
  BY <1>1, <1>4, Adopted
<1>6. sec = "capture" => (In(mem, "observation") => In(mem, "components"))
  BY <1>1 DEF EvidenceInv, Running
<1>7. sec \in {"capture", "judge"} => doc.mark[sec] # "none"
  BY <1>3, PlanFields DEF EvidenceInv, Running, E!Sections, ClaimSections
<1>8. sec \in {"judge", "duplicate"} => doc.mark["judge"] # "none"
  <2>1. CASE sec = "judge"
    BY <1>7, <2>1
  <2>2. CASE sec = "duplicate"
    <3>1. doc.stage = "ranked"
      BY <1>1, <2>2, InSection DEF Entered
    <3> QED BY <1>1, <3>1, InSection DEF Facts, Decided, Past
  <2> QED BY <2>1, <2>2
<1> DEFINE m == IF E!Step("late") THEN E!SetMark(mem, sec, "late") ELSE mem
<1>9. \/ m = mem /\ sec \in {"judge", "duplicate"}
      \/ m = [mem EXCEPT !.mark[sec] = "late"] /\ sec \in {"capture", "duplicate"}
  <2>1. CASE todo[1] = E!Save /\ sec \in {"judge", "duplicate"}
    <3>1. ~E!Step("late")
      BY <1>0, <2>1 DEF E!Step
    <3> QED BY <2>1, <3>1
  <2>2. CASE todo[1] = E!Late /\ sec \in {"capture", "duplicate"}
    <3>1. E!Step("late")
      BY <1>0, <1>1, <2>2 DEF E!Step
    <3> QED BY <2>2, <3>1 DEF E!SetMark
  <2> QED BY <1>3, <2>1, <2>2
<1> HIDE DEF m
<1>10. Facts(m, disk, choice, mode, receipt)
  BY <1>1, <1>5, <1>6, <1>8, <1>9, InSection, KeptFacts
<1>11. /\ m \in Docs /\ m.list = mem.list /\ m.judgment = mem.judgment /\ m.stage = mem.stage
       /\ m.candidate = mem.candidate
       /\ \A y \in E!Sections :
            m.mark[y] = mem.mark[y] \/ (y = sec /\ sec # "judge" /\ m.mark[y] = "late")
  <2>1. CASE m = mem /\ sec \in {"judge", "duplicate"}
    BY <1>1, <2>1, InSection
  <2>2. CASE m = [mem EXCEPT !.mark[sec] = "late"] /\ sec \in {"capture", "duplicate"}
    <3>1. m \in Docs
      BY <1>1, <2>2, InSection, FieldTypes DEF Marks
    <3> QED BY <1>1, <2>2, <3>1, InSection DEF Docs
  <2> QED BY <1>9, <2>1, <2>2
<1>12. \A k : In(m, k) <=> In(mem, k)
  BY <1>11 DEF In
<1>13. /\ mem.mark = doc.mark /\ mem.stage = doc.stage /\ mem.candidate = doc.candidate
  BY <1>1, InSection, CopyFields
<1>14. Entered(m, mode, sec)
  BY <1>1, <1>3, <1>11, <1>13, InSection DEF Entered, E!Sections
<1>15. m.mark["capture"] = "none" => doc.mark["capture"] = "none"
  BY <1>11, <1>13 DEF E!Sections
<1>16. sec \in ClaimSections => m.mark[sec] # "none"
  BY <1>3, <1>7, <1>11, <1>13 DEF ClaimSections, E!Sections
<1>17. CASE doc' = m /\ E!Rest(m) /\ E!Quiet /\ UNCHANGED <<mode, E!Files>>
  <2>1. E!Go("work", sec, Tail(todo), m)
    BY <1>3, <1>17 DEF E!Rest
  <2>2. sec = "judge" => Tail(todo) # <<>> /\ (In(m, "judgment") => m.judgment # 0)
    BY <1>3, <1>5, <1>11, <1>12
  <2>3. sec # "receipt"
    BY <1>3
  <2> QED BY <1>1, <1>3, <1>10, <1>11, <1>14, <1>15, <1>16, <1>17, <2>1, <2>2, <2>3, Recorded
<1>18. CASE E!Lost(m, E!PlanOf(sec).failing = "all")
  <2>1. E!PlanOf(sec).failing = "all" => m.stage = "observing"
    BY <1>1, <1>3, <1>11, <1>13, InSection, PlanFields DEF Entered
  <2> QED BY <1>1, <1>10, <1>11, <1>15, <1>18, <2>1, LostStep
<1> QED BY <1>17, <1>18 DEF E!Keep, m

\* Every row has this form.
LEMMA AreRows ==
  ASSUME NEW s \in E!Sections, NEW row \in Rows(s)
  PROVE  \E p, t, ws, ns : row = Row(p, t, ws, ns)
<1>1. \A k : \A x \in SingleRows(k) : \E p, t, ws, ns : x = Row(p, t, ws, ns)
  BY DEF SingleRows
<1>2. CASE s = "capture" BY <1>2 DEF Rows, CaptureRows
<1>3. CASE s = "judge" BY <1>3 DEF Rows, JudgeRows
<1>4. CASE s = "duplicate" BY <1>4 DEF Rows, DuplicateRows
<1>5. CASE s \in {"approve", "decline", "outcome"} BY <1>1, <1>5 DEF Rows
<1>6. CASE s \in {"no-op", "propose", "declined"} BY <1>6 DEF Rows
<1>7. CASE s = "execute" BY <1>7 DEF Rows, ExecuteRows
<1>8. CASE s = "benchmark" BY <1>8 DEF Rows, BenchmarkRows
<1>9. CASE s = "review" BY <1>1, <1>9 DEF Rows, ReviewRows
<1>10. CASE s = "roadmap" BY <1>1, <1>10 DEF Rows, RoadmapRows
<1>11. CASE s = "receipt" BY <1>1, <1>11 DEF Rows, ReceiptRows
<1> QED BY <1>2, <1>3, <1>4, <1>5, <1>6, <1>7, <1>8, <1>9, <1>10, <1>11 DEF E!Sections

\* A claim is recorded before any of its work is done.
ClaimWrites(s) ==
  \A row \in Rows(s) : row.at = "claim" /\ row.left = <<>> => row.writes = Behind(s)

\* Behind a claim everything but what came before it is still to be written.
LEMMA ClaimRows == ASSUME NEW s \in ClaimSections PROVE ClaimWrites(s)
<1> USE DEF ClaimWrites, Rows, Behind, Owned
<1>1. CASE s = "capture" BY <1>1 DEF CaptureRows, Row
<1>2. CASE s = "judge" BY <1>2 DEF JudgeRows, Row
<1>3. CASE s = "execute" BY <1>3 DEF ExecuteRows, Row
<1>4. CASE s = "benchmark" BY <1>4 DEF BenchmarkRows, Row
<1>5. CASE s = "review" BY <1>5 DEF ReviewRows, SingleRows, Row
<1>6. CASE s = "roadmap" BY <1>6 DEF RoadmapRows, SingleRows, Row
<1>7. CASE s = "receipt" BY <1>7 DEF ReceiptRows, SingleRows, Row
<1> QED BY <1>1, <1>2, <1>3, <1>4, <1>5, <1>6, <1>7 DEF ClaimSections

\* Only these sections claim.
LEMMA ClaimAt ==
  ASSUME NEW s \in E!Sections, NEW row \in Rows(s), row.at = "claim"
  PROVE  s \in ClaimSections
<1>1. CASE s = "duplicate" BY <1>1 DEF Rows, DuplicateRows, Row
<1>2. CASE s \in {"approve", "decline", "outcome"} BY <1>2 DEF Rows, SingleRows, Row
<1>3. CASE s \in {"no-op", "propose", "declined"} BY <1>3 DEF Rows, Row
<1> QED BY <1>1, <1>2, <1>3 DEF E!Sections, ClaimSections

\* The record of a claim keeps the invariant.
LEMMA ClaimStep == ASSUME EvidenceInv, E!Claim PROVE EvidenceInv'
<1>1. place = "claim" /\ todo = <<>>
  BY DEF E!Claim
<1>2. PICK row \in Rows(sec) : At(row)
  BY <1>1 DEF EvidenceInv, Running, At
<1>3. /\ row.at = "claim" /\ row.left = <<>> /\ Clear(row.writes, row.notes)
  BY <1>1, <1>2 DEF At
<1>4. sec \in ClaimSections /\ row.writes = Behind(sec)
  BY <1>1, <1>2, <1>3, InSection, ClaimAt, ClaimRows DEF ClaimWrites
<1>5. Row("claim", <<>>, row.writes, row.notes) \in Rows(sec)
  <2>1. row = Row("claim", <<>>, row.writes, row.notes)
    <3>1. \E p, t, ws, ns : row = Row(p, t, ws, ns)
      BY <1>1, InSection, AreRows
    <3> QED BY <1>3, <3>1, RowFields
  <2> QED BY <2>1
<1>6. Row("work", E!PlanOf(sec).work, row.writes, row.notes) \in Rows(sec)
  BY <1>1, <1>5, InSection, FirstRows DEF First
<1> DEFINE m == E!Claimed
<1>7. \E x \in Nat : m = [mem EXCEPT !.content = x, !.mark[sec] = "started"]
  <2>1. CASE sec = "receipt"
    <3>1. m = [mem EXCEPT !.content = disk["receipt"], !.mark[sec] = "started"]
      BY <2>1 DEF E!Claimed, E!SetMark
    <3> QED BY <1>1, <3>1, InSection DEF E!Kinds
  <2>2. CASE sec # "receipt"
    <3>1. m = [mem EXCEPT !.mark[sec] = "started"]
      BY <2>2 DEF E!Claimed, E!SetMark
    <3>2. mem = [mem EXCEPT !.content = mem.content] /\ mem.content \in Nat
      BY <1>1, InSection DEF Docs
    <3> QED BY <3>1, <3>2
  <2> QED BY <2>1, <2>2
<1> HIDE DEF m
<1>8. PICK x \in Nat : m = [mem EXCEPT !.content = x, !.mark[sec] = "started"]
  BY <1>7
<1>9. \A k \in Behind(sec) : ~In(mem, k)
  BY <1>3, <1>4 DEF Clear, In
<1>10. sec = "receipt" => doc.mark["receipt"] = "none" /\ Shows(receipt, mem, disk)
  BY <1>1, <1>3, <1>4 DEF Clear, Behind
<1>11. Facts(m, disk, choice, mode, receipt)
  BY <1>1, <1>4, <1>8, <1>9, <1>10, InSection, ClaimedFacts
<1>12. /\ m \in Docs /\ m.list = mem.list /\ m.judgment = mem.judgment /\ m.stage = mem.stage
       /\ (m.candidate <=> mem.candidate) /\ (m.declined <=> mem.declined)
       /\ (m.signed <=> mem.signed)
       /\ \A y \in E!Sections : m.mark[y] = IF y = sec THEN "started" ELSE mem.mark[y]
  <2>1. [mem EXCEPT !.content = x] \in Docs
    BY <1>1, InSection, FieldTypes
  <2>2. m \in Docs
    BY <1>1, <1>8, <2>1, InSection, FieldTypes DEF Marks
  <2>3. m = [mem EXCEPT !.content = x, !.mark = [mem.mark EXCEPT ![sec] = "started"]]
    BY <1>1, <1>8, InSection DEF Docs
  <2>4. m.mark = [mem.mark EXCEPT ![sec] = "started"]
    BY <1>1, <2>3, InSection DEF Docs
  <2>5. mem.mark \in [E!Sections -> Marks]
    BY <1>1, InSection DEF Docs
  <2>6. /\ m.list = mem.list /\ m.judgment = mem.judgment /\ m.stage = mem.stage
        /\ (m.candidate <=> mem.candidate) /\ (m.declined <=> mem.declined)
        /\ (m.signed <=> mem.signed)
    BY <1>1, <2>3, InSection DEF Docs
  <2> QED BY <2>2, <2>4, <2>5, <2>6
<1>13. /\ mem.mark = doc.mark /\ mem.stage = doc.stage /\ (mem.candidate <=> doc.candidate)
       /\ (mem.declined <=> doc.declined) /\ (mem.signed <=> doc.signed)
       /\ \A k : In(doc, k) => In(mem, k)
  BY <1>1, InSection, CopyFields
<1>14. \A k : In(m, k) <=> In(mem, k)
  BY <1>12 DEF In
<1>15. Entered(m, mode, sec)
  <2>1. sec \in E!Sections /\ Entered(doc, mode, sec)
    BY <1>1, InSection
  <2> QED BY <1>4, <1>12, <1>13, <1>14, <2>1
         DEF Entered, E!Sections, ClaimSections, Ending, Projected
<1>16. m.mark["capture"] = "none" => doc.mark["capture"] = "none"
  BY <1>12, <1>13 DEF E!Sections
<1>17. sec \in ClaimSections => m.mark[sec] # "none"
  BY <1>12 DEF ClaimSections, E!Sections
<1>18. CASE doc' = m /\ E!Go("work", sec, E!PlanOf(sec).work, m) /\ E!Quiet /\ UNCHANGED <<mode, E!Files>>
  <2>1. sec = "judge" => E!PlanOf(sec).work # <<>>
    <3>1. E!PlanOf("judge").work =
            <<E!W("attempt"), E!N("attempt"), E!Save, E!W("judgment"), E!N("judgment"), E!Adopt>>
      BY ObservationPlans DEF PlanIs
    <3> QED BY <3>1
  <2>2. todo # <<E!Adopt>>
    BY <1>1
  <2>3. In(m, "judgment") => m.judgment # 0
    BY <1>1, <1>12, <1>14, <2>2, Adopted
  <2>4. sec = "receipt" => "receipt" \notin row.writes
    BY <1>4 DEF Behind
  <2> QED BY <1>1, <1>3, <1>6, <1>11, <1>12, <1>15, <1>16, <1>17, <1>18, <2>1, <2>3, <2>4, Recorded
<1>19. CASE E!Lost(m, E!PlanOf(sec).failing = "all")
  <2>1. E!PlanOf(sec).failing = "all" => m.stage = "observing"
    BY <1>1, <1>12, <1>13, InSection, PlanFields DEF Entered
  <2> QED BY <1>1, <1>11, <1>12, <1>16, <1>19, <2>1, LostStep
<1> QED BY <1>18, <1>19 DEF E!Claim, m

\* A file is noted.
LEMMA NoteStep == ASSUME EvidenceInv, E!Note PROVE EvidenceInv'
<1>1. place \in {"claim", "work"} /\ todo # <<>> /\ todo[1][1] = "note"
  BY DEF E!Note, E!Step
<1>2. PICK row \in Rows(sec) : At(row) /\ FirstNotes(sec, row)
  BY <1>1, AtStep
<1> DEFINE ws == row.writes
           ns == row.notes
<1>3. PICK k \in ns \ ws : \E n \in {ns, ns \ {k}} :
        /\ todo[1] = E!N(k) /\ Row(place, Tail(todo), ws, n) \in Rows(sec)
        /\ k = "observation" => "components" \notin ns
        /\ k = "judgment" => Tail(todo) = <<E!Adopt>>
        /\ sec \in E!Blind => n = ns \ {k}
        /\ sec = "judge" /\ place = "work" => Tail(todo) # <<>>
  BY <1>2 DEF At, FirstNotes
<1>4. PICK n \in {ns, ns \ {k}} :
        /\ todo[1] = E!N(k) /\ Row(place, Tail(todo), ws, n) \in Rows(sec)
        /\ k = "observation" => "components" \notin ns
        /\ k = "judgment" => Tail(todo) = <<E!Adopt>>
        /\ sec \in E!Blind => n = ns \ {k}
        /\ sec = "judge" /\ place = "work" => Tail(todo) # <<>>
  BY <1>3
<1>5. Clear(ws, ns)
  BY <1>2 DEF At
<1>6. disk[k] # 0 /\ k \in Owned(sec) \cup KindsOf(doc.list)
  BY <1>3, <1>5 DEF Clear
<1>7. k \in E!Kinds
  <2>1. Owned(sec) \subseteq E!Kinds
    BY DEF Owned, E!Kinds
  <2>2. KindsOf(doc.list) \subseteq E!Kinds
    BY <1>1, InSection, KindsTyped DEF Docs
  <2> QED BY <1>6, <2>1, <2>2
<1>8. E!Kind = k
  BY <1>4 DEF E!Kind, E!N
<1>9. /\ E!Adopt[1] = "adopt" /\ <<E!Adopt>>[1] = E!Adopt
  BY DEF E!Adopt
<1>10. todo # <<E!Adopt>>
  BY <1>1, <1>9
<1>11. mem.list \in Seq(Artifacts) /\ Tidy(mem.list, disk)
  BY <1>1, InSection DEF Docs, Copied
<1> DEFINE b == IF sec \in E!Blind THEN Append(mem.list, E!Artifact(k, disk[k]))
                ELSE E!AppendArtifact(mem.list, E!Artifact(k, disk[k]))
<1>12. sec \in E!Blind => k \notin KindsOf(mem.list)
  BY <1>3, <1>5 DEF Clear
<1>13. b \in Seq(Artifacts) /\ KindsOf(b) = KindsOf(mem.list) \cup {k} /\ Tidy(b, disk)
       /\ E!Binds(mem.list, k, disk[k])
  <2>1. \/ b = E!AppendArtifact(mem.list, E!Artifact(k, disk[k]))
        \/ b = Append(mem.list, E!Artifact(k, disk[k])) /\ k \notin KindsOf(mem.list)
    BY <1>12
  <2> HIDE DEF b
  <2> QED BY <1>1, <1>6, <1>7, <1>11, <2>1, InSection, NotedList
<1> HIDE DEF b
<1> DEFINE m == [mem EXCEPT !.list = b]
<1>14. \/ E!Rest(m) /\ E!Quiet /\ UNCHANGED <<mode, doc, E!Files>>
       \/ E!Broken(mem, E!PlanOf(sec).failing = "all")
  BY <1>8, <1>13 DEF E!Note, E!Noted, b
<1>15. CASE E!Broken(mem, E!PlanOf(sec).failing = "all")
  <2>1. E!PlanOf(sec).failing = "all" => sec \in FailSections
    BY <1>1, InSection, PlanFields DEF FailSections
  <2> QED BY <1>1, <1>10, <1>15, <2>1, BrokenStep
<1>16. CASE E!Rest(m) /\ E!Quiet /\ UNCHANGED <<mode, doc, E!Files>>
  <2>1. /\ mem' = m /\ place' = place /\ sec' = sec /\ todo' = Tail(todo)
        /\ UNCHANGED <<mode, doc, disk, bound, choice, receipt>>
    BY <1>16 DEF E!Rest, E!Go, E!Files
  <2>2. m \in Docs /\ m.list = b /\ m.judgment = mem.judgment /\ m.candidate = mem.candidate
    <3>1. m \in Docs
      BY <1>1, <1>13, InSection, FieldTypes
    <3>2. m.list = b /\ m.judgment = mem.judgment /\ m.candidate = mem.candidate
      BY <1>1, InSection DEF Docs
    <3> QED BY <3>1, <3>2
  <2>3. KindsOf(m.list) = KindsOf(mem.list) \cup {k} /\ \A j : In(m, j) <=> In(mem, j) \/ j = k
    BY <1>13, <2>2 DEF In
  <2>4. Copied(doc, m, sec, disk)
    <3>1. m = [doc EXCEPT !.list = b]
      BY <1>1, InSection DEF Copied, Docs
    <3>2. KindsOf(doc.list) \subseteq KindsOf(mem.list)
          /\ KindsOf(mem.list) \subseteq KindsOf(doc.list) \cup Owned(sec)
      BY <1>1, InSection DEF Copied
    <3> HIDE DEF m
    <3> QED BY <1>6, <1>13, <2>2, <2>3, <3>1, <3>2 DEF Copied
  <2>5. /\ m.stage = mem.stage /\ m.mark = mem.mark /\ m.reason = mem.reason
        /\ m.roadmap = mem.roadmap
    BY <1>1, InSection DEF Docs
  <2> HIDE DEF m
  <2>6. Clear(ws, n)'
    <3>1. ws \cap KindsOf(m.list) = {}
      BY <1>3, <1>5, <2>3 DEF Clear
    <3>2. sec \in E!Blind => n \cap KindsOf(m.list) = {}
      BY <1>4, <1>5, <2>3 DEF Clear
    <3>3. Owed(sec) \subseteq KindsOf(m.list) \cup n
      BY <1>4, <1>5, <2>3 DEF Clear
    <3>4. sec = "receipt" /\ Shows(receipt, mem, disk) => Shows(receipt, m, disk)
      <4>1. sec = "receipt" => KindsOf(m.list) \ {"receipt", "signature"} = KindsOf(mem.list) \ {"receipt", "signature"}
        <5>1. KindsOf(doc.list) \subseteq KindsOf(mem.list)
          BY <1>1, InSection DEF Copied
        <5> QED BY <1>6, <2>3, <5>1 DEF Owned
      <4> QED BY <2>2, <2>5, <4>1 DEF Shows
    <3> QED BY <1>4, <1>5, <2>1, <3>1, <3>2, <3>3, <3>4 DEF Clear
  <2>7. sec = "capture" /\ In(m, "observation") => In(m, "components")
    <3>1. CASE k # "observation"
      BY <1>1, <2>3, <3>1 DEF EvidenceInv, Running
    <3>2. CASE k = "observation" /\ sec = "capture"
      <4>1. "components" \in Owed(sec) /\ "components" \notin ns
        BY <1>4, <3>2 DEF Owed, Owned
      <4> QED BY <1>5, <2>3, <4>1 DEF Clear, In
    <3> QED BY <3>1, <3>2
  <2>8. place = "work" /\ sec = "judge" =>
          /\ In(m, "judgment") /\ m.judgment = 0 => Tail(todo) = <<E!Adopt>>
          /\ Tail(todo) # <<>>
    <3>1. In(mem, "judgment") => mem.judgment # 0
      BY <1>1, <1>10, Adopted
    <3> QED BY <1>4, <2>2, <2>3, <3>1
  <2>9. \E y \in Rows(sec) : /\ y.at = place /\ y.left = Tail(todo)
                             /\ y.writes = ws /\ y.notes = n
    <3> DEFINE z == Row(place, Tail(todo), ws, n)
    <3>1. z \in Rows(sec)
      BY <1>4
    <3>2. z.at = place /\ z.left = Tail(todo) /\ z.writes = ws /\ z.notes = n
      BY DEF Row
    <3> HIDE DEF z
    <3> QED BY <3>1, <3>2
  <2>10. (\E y \in Rows(sec) : y.at = place /\ y.left = todo /\ Clear(y.writes, y.notes))'
    BY <2>1, <2>6, <2>9
  <2>11. (E!PlanOf(sec).claim)' <=> E!PlanOf(sec).claim
    BY <2>1 DEF E!PlanOf
  <2>12. place = "work" /\ E!PlanOf(sec).claim => doc.mark[sec] # "none"
    BY <1>1 DEF EvidenceInv, Running
  <2>13. Entered(doc, mode, sec)
    BY <1>1, InSection
  <2>14. Running'
    BY <2>1, <2>4, <2>7, <2>8, <2>10, <2>11, <2>12, <2>13 DEF Running
  <2>15. OnDisk'
    BY <2>1 DEF EvidenceInv, OnDisk
  <2>16. Facts(doc, disk, choice, mode, receipt)'
    BY <1>1, <2>1, InSection
  <2> QED BY <1>1, <2>1, <2>2, <2>14, <2>15, <2>16, GoesOn DEF EvidenceInv, EvidenceTypes
<1> QED BY <1>14, <1>15, <1>16

\* receipt.Build shows its document.
LEMMA Built ==
  ASSUME NEW m \in Docs, NEW dk \in [E!Kinds -> Nat], Tidy(m.list, dk)
  PROVE  E!Build(m) \in Docs /\ Shows(E!Build(m), m, dk)
<1> DEFINE f == E!Filtered(m.list)[Len(m.list)]
           x == IF m.stage = "failed" THEN "failed" ELSE "completed"
<1>1. m.list \in Seq(Artifacts)
  BY DEF Docs
<1>2. f \in Seq(Artifacts) /\ KindsOf(f) = KindsOf(m.list) \ Omitted /\ Tidy(f, dk)
  BY <1>1, FilteredList
<1>3. E!Build(m) = [m EXCEPT !.stage = x, !.list = f]
  BY DEF E!Build, Docs
<1>4. x \in Stages
  BY DEF Stages
<1> HIDE DEF f
<1>5. /\ E!Build(m) \in Docs /\ E!Build(m).stage = x /\ E!Build(m).list = f
      /\ E!Build(m).judgment = m.judgment /\ E!Build(m).candidate = m.candidate
      /\ E!Build(m).reason = m.reason /\ E!Build(m).roadmap = m.roadmap
      /\ E!Build(m).mark = m.mark
  BY <1>2, <1>3, <1>4 DEF Docs
<1> QED BY <1>2, <1>5 DEF Shows, Omitted

\* A file that is written, by its operation or by an agent.
Put(k, x) ==
  /\ disk' = [disk EXCEPT ![k] = x]
  /\ bound' = IF k = "observation" THEN disk["components"] ELSE bound
  /\ choice' \in IF k = "judgment" THEN {"noop", "select"} ELSE {choice}
  /\ receipt' = IF k = "receipt" THEN E!Build(mem) ELSE receipt

WritesNow(row, k) ==
  /\ k \in row.writes \cap row.notes
  /\ k = "observation" => "components" \in row.notes \ row.writes
  /\ k = "measurement" => sec = "benchmark" /\ "streams" \notin row.writes
  /\ k = "receipt" => row.at = "claim" /\ sec = "receipt"

\* Writing the next file of a row keeps the facts.
LEMMA PutFacts ==
  ASSUME EvidenceInv, place # "idle", NEW row \in Rows(sec), At(row), todo # <<>>,
         NEW k, WritesNow(row, k), NEW x \in Nat \ {0}, Put(k, x)
  PROVE  /\ disk' \in [E!Kinds -> Nat] /\ bound' \in Nat
         /\ choice' \in {"none", "noop", "select"} /\ receipt' \in Docs
         /\ Facts(doc, disk', choice', mode, receipt')
         /\ Copied(doc, mem, sec, disk')
         /\ disk'["observation"] # 0 => disk'["components"] # 0 /\ bound' = disk'["components"]
         /\ disk'["judgment"] # 0 => choice' # "none"
         /\ doc.mark["capture"] = "none" => disk'["observation"] = 0
         /\ disk'["measurement"] # 0 => disk'["streams"] # 0
<1>1. /\ row.at = place /\ row.left = todo /\ row.writes \subseteq Owned(sec)
      /\ row.writes \cap KindsOf(mem.list) = {}
      /\ \A j \in row.notes \ row.writes : disk[j] # 0
      /\ Owed(sec) \subseteq KindsOf(mem.list) \cup row.notes
      /\ "components" \in row.writes => disk["observation"] = 0
      /\ sec = "receipt" /\ place = "claim" => doc.mark["receipt"] = "none"
  BY DEF At, Clear
<1>2. k \in Owned(sec) /\ k \in E!Kinds /\ k \notin KindsOf(mem.list) /\ k \in row.writes
  BY <1>1 DEF WritesNow, Owned, E!Kinds
<1>3. /\ \A j \in E!Kinds : disk'[j] = IF j = k THEN x ELSE disk[j]
      /\ disk' \in [E!Kinds -> Nat]
  BY InSection DEF Put
<1>4. /\ doc \in Docs /\ mem \in Docs /\ Facts(doc, disk, choice, mode, receipt)
      /\ disk \in [E!Kinds -> Nat] /\ Copied(doc, mem, sec, disk) /\ Entered(doc, mode, sec)
      /\ Tidy(mem.list, disk) /\ mem.list \in Seq(Artifacts)
      /\ KindsOf(doc.list) \subseteq KindsOf(mem.list)
  BY InSection DEF Docs, Copied
<1>5. bound' \in Nat /\ choice' \in {"none", "noop", "select"}
  BY <1>4 DEF Put, EvidenceInv, EvidenceTypes, E!Kinds
<1>6. receipt' \in Docs
  BY <1>4, Built DEF Put, EvidenceInv, EvidenceTypes
<1>7. Facts(doc, disk', choice', mode, receipt')
  <2>1. \A j \in E!Kinds : In(doc, j) => disk'[j] = disk[j]
    BY <1>2, <1>3, <1>4 DEF In
  <2>2. choice' = choice \/ (~In(doc, "judgment") /\ doc.stage = "observing")
    <3>1. CASE k # "judgment"
      BY <3>1 DEF Put
    <3>2. CASE k = "judgment"
      <4>1. sec = "judge"
        BY <1>2, <3>2 DEF Owned
      <4> QED BY <1>2, <1>4, <3>2, <4>1 DEF Entered, In
    <3> QED BY <3>1, <3>2
  <2>3. receipt' = receipt \/ doc.mark["receipt"] = "none"
    BY <1>1 DEF Put, WritesNow
  <2> QED BY <1>4, <2>1, <2>2, <2>3, FactsKept
<1>8. Copied(doc, mem, sec, disk')
  <2>1. \A j \in KindsOf(mem.list) : disk'[j] = disk[j]
    BY <1>2, <1>3, <1>4, KindsTyped
  <2>2. Tidy(mem.list, disk')
    BY <1>4, <2>1, TidyKept
  <2> QED BY <1>4, <2>2 DEF Copied
<1>9. disk'["observation"] # 0 => disk'["components"] # 0 /\ bound' = disk'["components"]
  <2>1. CASE k = "observation"
    <3>1. disk["components"] # 0
      BY <1>1, <2>1 DEF WritesNow
    <3> QED BY <1>3, <2>1, <3>1 DEF Put, E!Kinds
  <2>2. CASE k = "components"
    BY <1>1, <1>2, <1>3, <2>2 DEF E!Kinds
  <2>3. CASE k \notin {"components", "observation"}
    BY <1>3, <2>3 DEF Put, EvidenceInv, OnDisk, E!Kinds
  <2> QED BY <2>1, <2>2, <2>3
<1>10. disk'["judgment"] # 0 => choice' # "none"
  BY <1>3 DEF Put, EvidenceInv, OnDisk, E!Kinds
<1>11. doc.mark["capture"] = "none" => disk'["observation"] = 0
  <2>1. CASE k # "observation"
    BY <1>3, <2>1 DEF EvidenceInv, OnDisk, E!Kinds
  <2>2. CASE k = "observation"
    <3>1. sec = "capture" /\ sec \in E!Sections
      BY <1>2, <2>2 DEF Owned, E!Sections
    <3>2. row.at = "work"
      <4>1. row.left # <<>>
        BY <1>1
      <4> QED BY <3>1, <4>1 DEF Rows, CaptureRows, Row
    <3> QED BY <1>1, <3>1, <3>2, PlanFields DEF EvidenceInv, Running, ClaimSections
  <2> QED BY <2>1, <2>2
<1>12. disk'["measurement"] # 0 => disk'["streams"] # 0
  <2>1. CASE k # "measurement"
    BY <1>3, <2>1 DEF EvidenceInv, OnDisk, E!Kinds
  <2>2. CASE k = "measurement"
    <3>1. sec = "benchmark" /\ "streams" \notin row.writes
      BY <2>2 DEF WritesNow
    <3>2. "streams" \in KindsOf(mem.list) \cup row.notes
      BY <1>1, <3>1 DEF Owed, Owned
    <3>3. "streams" \in KindsOf(mem.list) => disk["streams"] # 0
      BY InSection DEF In
    <3>4. disk["streams"] # 0
      BY <1>1, <3>1, <3>2, <3>3
    <3> QED BY <1>3, <2>2, <3>4 DEF E!Kinds
  <2> QED BY <2>1, <2>2
<1> QED BY <1>3, <1>5, <1>6, <1>7, <1>8, <1>9, <1>10, <1>11, <1>12

\* The section goes on behind a write.
LEMMA PutGoes ==
  ASSUME EvidenceInv, place # "idle", NEW row \in Rows(sec), At(row), todo # <<>>,
         todo # <<E!Adopt>>,
         NEW k, WritesNow(row, k), NEW x \in Nat \ {0}, Put(k, x),
         UNCHANGED <<mode, doc, mem, place, sec>>,
         NEW ws \in {row.writes, row.writes \ {k}},
         Row(place, todo', ws, row.notes) \in Rows(sec),
         place = "work" /\ sec = "judge" => todo' # <<>>
  PROVE  EvidenceInv'
<1> DEFINE ns == row.notes
<1>1. /\ disk' \in [E!Kinds -> Nat] /\ bound' \in Nat
      /\ choice' \in {"none", "noop", "select"} /\ receipt' \in Docs
      /\ Facts(doc, disk', choice', mode, receipt')
      /\ Copied(doc, mem, sec, disk')
  BY PutFacts
<1>2. Clear(row.writes, ns) /\ k \in row.writes /\ k \in E!Kinds /\ k \notin KindsOf(mem.list)
      /\ k \in Owned(sec)
  BY DEF At, Clear, WritesNow, Owned, E!Kinds
<1>3. /\ \A j \in E!Kinds : disk'[j] = IF j = k THEN x ELSE disk[j]
  BY InSection DEF Put
<1>4. /\ doc \in Docs /\ mem \in Docs /\ disk \in [E!Kinds -> Nat]
      /\ Copied(doc, mem, sec, disk) /\ Entered(doc, mode, sec)
      /\ Tidy(mem.list, disk) /\ mem.list \in Seq(Artifacts)
  BY InSection DEF Docs, Copied
<1>5. ns \subseteq E!Kinds
  <2>1. KindsOf(doc.list) \subseteq E!Kinds
    BY <1>4, KindsTyped DEF Docs
  <2>2. Owned(sec) \subseteq E!Kinds
    BY DEF Owned, E!Kinds
  <2> QED BY <1>2, <2>1, <2>2 DEF Clear
<1>6. \A j \in ns \ ws : disk'[j] # 0
  BY <1>2, <1>3, <1>5 DEF Clear
<1>7. "components" \in ws => disk'["observation"] = 0
  BY <1>2, <1>3 DEF Clear, WritesNow, E!Kinds
<1>8. sec = "receipt" =>
        IF place = "claim"
        THEN doc.mark["receipt"] = "none" /\ ("receipt" \notin ws => Shows(receipt', mem, disk'))
        ELSE "receipt" \notin ws
  <2>1. CASE k = "receipt"
    <3>1. Tidy(mem.list, disk')
      BY <1>1 DEF Copied
    <3>2. Shows(receipt', mem, disk')
      BY <1>1, <1>4, <2>1, <3>1, Built DEF Put
    <3> QED BY <1>2, <2>1, <3>2 DEF Clear, WritesNow, At
  <2>2. CASE k # "receipt"
    <3>1. Shows(receipt, mem, disk) => Shows(receipt', mem, disk')
      <4>1. receipt' = receipt
        BY <2>2 DEF Put
      <4>2. ASSUME Shows(receipt, mem, disk) PROVE Tidy(receipt.list, disk')
        <5>1. KindsOf(receipt.list) \subseteq KindsOf(mem.list) /\ Tidy(receipt.list, disk)
          BY <4>2 DEF Shows
        <5>2. \A j \in KindsOf(receipt.list) : disk'[j] = disk[j]
          BY <1>2, <1>3, <1>4, <5>1, KindsTyped
        <5> QED BY <5>1, <5>2, TidyKept
      <4> QED BY <4>1, <4>2 DEF Shows
    <3> QED BY <1>2, <2>2, <3>1 DEF Clear
  <2> QED BY <2>1, <2>2
<1>9. Clear(ws, ns)'
  BY <1>2, <1>6, <1>7, <1>8 DEF Clear
<1>10. \E y \in Rows(sec) : y.at = place /\ y.left = todo' /\ y.writes = ws /\ y.notes = ns
  <2> DEFINE z == Row(place, todo', ws, ns)
  <2>1. z \in Rows(sec)
    OBVIOUS
  <2>2. z.at = place /\ z.left = todo' /\ z.writes = ws /\ z.notes = ns
    BY DEF Row
  <2> HIDE DEF z
  <2> QED BY <2>1, <2>2
<1> HIDE DEF ns
<1>11. (\E y \in Rows(sec) : y.at = place /\ y.left = todo /\ Clear(y.writes, y.notes))'
  BY <1>9, <1>10
<1>12. In(mem, "judgment") => mem.judgment # 0
  BY Adopted
<1>13. /\ place = "work" /\ E!PlanOf(sec).claim => doc.mark[sec] # "none"
       /\ sec = "capture" => (In(mem, "observation") => In(mem, "components"))
  BY DEF EvidenceInv, Running
<1>14. (E!PlanOf(sec).claim)' <=> E!PlanOf(sec).claim
  BY DEF E!PlanOf
<1>15. Running'
  BY <1>1, <1>4, <1>11, <1>12, <1>13, <1>14 DEF Running
<1>16. OnDisk'
  BY PutFacts DEF OnDisk
<1>17. Facts(doc, disk, choice, mode, receipt)'
  BY <1>1
<1> QED BY <1>1, <1>15, <1>16, <1>17, GoesOn DEF EvidenceInv, EvidenceTypes

\* The rename has been done; the command ends, or fails the cycle first.
LEMMA PutStops ==
  ASSUME EvidenceInv, place # "idle", NEW row \in Rows(sec), At(row), todo # <<>>,
         todo # <<E!Adopt>>,
         NEW k, WritesNow(row, k), NEW x \in Nat \ {0}, Put(k, x), E!Stop, UNCHANGED mode,
         \/ doc' = doc
         \/ doc' = [mem EXCEPT !.stage = "failed"] /\ sec \in FailSections
  PROVE  EvidenceInv'
<1>1. /\ disk' \in [E!Kinds -> Nat] /\ bound' \in Nat
      /\ choice' \in {"none", "noop", "select"} /\ receipt' \in Docs
      /\ Facts(doc, disk', choice', mode, receipt')
      /\ Copied(doc, mem, sec, disk')
  BY PutFacts
<1>2. place' = "idle" /\ mem' \in Docs
  BY NewDocTypes DEF E!Stop
<1>3. doc \in Docs /\ mem \in Docs /\ Entered(doc, mode, sec)
  BY InSection
<1>4. /\ doc' \in Docs /\ Facts(doc', disk', choice', mode, receipt')
      /\ doc'.mark["capture"] = doc.mark["capture"]
  <2>1. CASE doc' = doc
    BY <1>1, <1>3, <2>1
  <2>2. CASE doc' = [mem EXCEPT !.stage = "failed"] /\ sec \in FailSections
    <3>1. In(mem, "judgment") => mem.judgment # 0
      BY Adopted
    <3>2. doc.stage \in {"observing", "approved", "reviewing"}
          /\ (sec = "judge" => doc.mark["capture"] = "completed")
      BY <1>3, <2>2 DEF Entered, FailSections
    <3>3. sec = "capture" => (In(mem, "observation") => In(mem, "components"))
      BY DEF EvidenceInv, Running
    <3>4. Facts(doc', disk', choice', mode, receipt')
      BY <1>1, <1>3, <2>2, <3>1, <3>2, <3>3, FailedFacts
    <3>5. doc' \in Docs /\ doc'.mark = mem.mark
      BY <1>3, <2>2 DEF Docs, Stages
    <3>6. mem.mark = doc.mark
      BY InSection, CopyFields
    <3> QED BY <3>4, <3>5, <3>6
  <2> QED BY <2>1, <2>2
<1>5. OnDisk'
  BY <1>4, PutFacts DEF OnDisk
<1>6. Facts(doc, disk, choice, mode, receipt)'
  BY <1>4
<1>7. EvidenceTypes'
  BY <1>1, <1>2, <1>4 DEF EvidenceInv, EvidenceTypes
<1> QED BY <1>2, <1>5, <1>6, <1>7 DEF EvidenceInv

\* A write, and an agent that writes its answer itself.
LEMMA AtWrite ==
  ASSUME EvidenceInv, place # "idle", todo # <<>>, todo[1][1] = "write"
  PROVE  \E row \in Rows(sec) : \E k \in row.writes \cap row.notes :
           /\ At(row) /\ WritesNow(row, k) /\ todo[1] = E!W(k) /\ E!Kind = k
           /\ Row(place, Tail(todo), row.writes \ {k}, row.notes) \in Rows(sec)
           /\ k = "transcript" =>
                Row(place, Tail(Tail(todo)), {}, {}) \in Rows(sec) /\ row.writes = {k}
           /\ sec = "judge" => Tail(todo) # <<>>
<1>1. PICK row \in Rows(sec) : At(row) /\ FirstWrites(sec, row)
  BY AtStep
<1>2. row.at = place /\ row.left = todo
  BY <1>1 DEF At
<1>3. PICK k \in row.writes \cap row.notes :
        /\ todo[1] = E!W(k)
        /\ Row(place, Tail(todo), row.writes \ {k}, row.notes) \in Rows(sec)
        /\ k = "observation" => "components" \in row.notes \ row.writes
        /\ k = "measurement" => sec = "benchmark" /\ "streams" \notin row.writes
        /\ k = "receipt" => row.at = "claim" /\ sec = "receipt"
        /\ k = "transcript" =>
             Row(place, Tail(Tail(todo)), {}, {}) \in Rows(sec) /\ row.writes = {k}
        /\ sec = "judge" => Tail(todo) # <<>>
  BY <1>1, <1>2 DEF FirstWrites
<1>4. E!Kind = k
  BY <1>3 DEF E!Kind, E!W
<1>5. WritesNow(row, k)
  BY <1>3 DEF WritesNow
<1> QED BY <1>1, <1>3, <1>4, <1>5

\* A write keeps the invariant.
LEMMA WriteStep == ASSUME EvidenceInv, E!Write PROVE EvidenceInv'
<1>1. place \in {"claim", "work"} /\ todo # <<>> /\ todo[1][1] = "write"
  BY DEF E!Write, E!Step
<1>2. PICK row \in Rows(sec) : \E k \in row.writes \cap row.notes :
        /\ At(row) /\ WritesNow(row, k) /\ todo[1] = E!W(k) /\ E!Kind = k
        /\ Row(place, Tail(todo), row.writes \ {k}, row.notes) \in Rows(sec)
        /\ k = "transcript" =>
             Row(place, Tail(Tail(todo)), {}, {}) \in Rows(sec) /\ row.writes = {k}
        /\ sec = "judge" => Tail(todo) # <<>>
  BY <1>1, AtWrite
<1>3. PICK k \in row.writes \cap row.notes :
        /\ At(row) /\ WritesNow(row, k) /\ todo[1] = E!W(k) /\ E!Kind = k
        /\ Row(place, Tail(todo), row.writes \ {k}, row.notes) \in Rows(sec)
        /\ k = "transcript" =>
             Row(place, Tail(Tail(todo)), {}, {}) \in Rows(sec) /\ row.writes = {k}
        /\ sec = "judge" => Tail(todo) # <<>>
  BY <1>2
<1>4. /\ E!Adopt[1] = "adopt" /\ <<E!Adopt>>[1] = E!Adopt
  BY DEF E!Adopt
<1>5. todo # <<E!Adopt>>
  BY <1>1, <1>4
<1>6. E!Fresh(k) \in Nat \ {0}
  <2>1. k \in E!Kinds
    BY <1>3 DEF At, Clear, Owned, E!Kinds
  <2>2. disk[k] \in Nat
    BY <1>1, <2>1, InSection
  <2> QED BY <2>2 DEF E!Fresh
<1>7. E!Written(k) => Put(k, E!Fresh(k))
  BY DEF E!Written, Put
<1>8. E!PlanOf(sec).failing # "none" => sec \in FailSections
  BY <1>1, InSection, PlanFields DEF FailSections
<1>9. CASE E!Written(k) /\ E!Rest(mem) /\ E!Quiet /\ UNCHANGED <<mode, doc>>
  <2>1. UNCHANGED <<mode, doc, mem, place, sec>> /\ todo' = Tail(todo)
    BY <1>9 DEF E!Rest, E!Go
  <2> QED BY <1>1, <1>3, <1>5, <1>6, <1>7, <1>9, <2>1, PutGoes
<1>10. CASE /\ k = "transcript" /\ E!Go(place, sec, Tail(Tail(todo)), mem) /\ E!Quiet
            /\ UNCHANGED <<mode, doc, E!Files>>
  <2>1. /\ UNCHANGED <<mode, doc, mem, disk, bound, choice, receipt, place, sec>>
        /\ todo' = Tail(Tail(todo))
    BY <1>10 DEF E!Go, E!Files
  <2>2. sec = "execute" /\ Row(place, todo', {}, {}) \in Rows(sec)
    BY <1>3, <1>10, <2>1 DEF At, Clear, Owned
  <2>3. Clear({}, {})'
    <3>1. Owed("execute") = {}
      BY DEF Owed
    <3> QED BY <2>1, <2>2, <3>1 DEF Clear
  <2>4. \E y \in Rows(sec) : y.at = place /\ y.left = todo' /\ y.writes = {} /\ y.notes = {}
    <3> DEFINE z == Row(place, todo', {}, {})
    <3>1. z \in Rows(sec)
      BY <2>2
    <3>2. z.at = place /\ z.left = todo' /\ z.writes = {} /\ z.notes = {}
      BY DEF Row
    <3> HIDE DEF z
    <3> QED BY <3>1, <3>2
  <2>5. (\E y \in Rows(sec) : y.at = place /\ y.left = todo /\ Clear(y.writes, y.notes))'
    BY <2>1, <2>3, <2>4
  <2>6. (E!PlanOf(sec).claim)' <=> E!PlanOf(sec).claim
    BY <2>1 DEF E!PlanOf
  <2>7. place = "work" /\ E!PlanOf(sec).claim => doc.mark[sec] # "none"
    BY <1>1 DEF EvidenceInv, Running
  <2>8. Copied(doc, mem, sec, disk) /\ Entered(doc, mode, sec)
    BY <1>1, InSection
  <2>9. Running'
    BY <2>1, <2>2, <2>5, <2>6, <2>7, <2>8 DEF Running
  <2>10. OnDisk' /\ Facts(doc, disk, choice, mode, receipt)' /\ EvidenceTypes'
    BY <2>1 DEF EvidenceInv, EvidenceTypes, OnDisk
  <2> QED BY <2>9, <2>10 DEF EvidenceInv
<1>11. CASE E!Broken(mem, E!PlanOf(sec).failing # "none")
  BY <1>1, <1>5, <1>8, <1>11, BrokenStep
<1>12. CASE /\ E!Written(k) /\ E!Stop /\ E!Fault
            /\ doc' = IF E!PlanOf(sec).failing # "none" THEN [mem EXCEPT !.stage = "failed"] ELSE doc
            /\ UNCHANGED mode
  BY <1>1, <1>3, <1>5, <1>6, <1>7, <1>8, <1>12, PutStops
<1> QED BY <1>3, <1>9, <1>10, <1>11, <1>12 DEF E!Write

\* An agent's own write keeps the invariant.
LEMMA AgentWritesStep == ASSUME EvidenceInv, E!AgentWrites PROVE EvidenceInv'
<1>1. place = "work" /\ todo # <<>> /\ todo[1] \in {E!W("report"), E!W("review")}
      /\ disk' = [disk EXCEPT ![E!Kind] = 1]
      /\ UNCHANGED <<mode, doc, mem, bound, choice, receipt, place, sec, todo>>
  BY DEF E!AgentWrites
<1>2. todo[1][1] = "write" /\ E!Kind \in {"report", "review"}
  BY <1>1 DEF E!W, E!Kind
<1>3. PICK row \in Rows(sec) : \E k \in row.writes \cap row.notes :
        /\ At(row) /\ WritesNow(row, k) /\ E!Kind = k
  BY <1>1, <1>2, AtWrite
<1>4. PICK k \in row.writes \cap row.notes :
        At(row) /\ WritesNow(row, k) /\ E!Kind = k
  BY <1>3
<1>5. Put(k, 1)
  BY <1>1, <1>2, <1>4 DEF Put
<1>6. /\ E!Adopt[1] = "adopt" /\ <<E!Adopt>>[1] = E!Adopt
  BY DEF E!Adopt
<1>7. todo # <<E!Adopt>>
  BY <1>2, <1>6
<1>8. Row(place, todo', row.writes, row.notes) \in Rows(sec)
  <2>1. \E p, t, ws, ns : row = Row(p, t, ws, ns)
    BY <1>1, InSection, AreRows
  <2>2. row = Row(row.at, row.left, row.writes, row.notes)
    BY <2>1, RowFields
  <2> QED BY <1>1, <1>4, <2>2 DEF At
<1>9. place # "idle" /\ UNCHANGED <<mode, doc, mem, place, sec>> /\ todo' # <<>> /\ todo # <<>>
  BY <1>1
<1>10. 1 \in Nat \ {0}
  OBVIOUS
<1> QED BY <1>4, <1>5, <1>7, <1>8, <1>9, <1>10, PutGoes

-----------------------------------------------------------------------------
(* A section is taken up. *)

\* Where a document is routed to.
LEMMA Routed ==
  ASSUME doc \in Docs, Facts(doc, disk, choice, mode, receipt), mode \in {"proposal", "shadow"},
         NEW s \in E!Routes(doc)
  PROVE  /\ s \in E!Sections
         /\ s = "review" <=> doc.stage = "reviewing"
         /\ s \in {"capture", "judge"} => doc.stage = "observing"
         /\ s # "review" => Entered(doc, mode, s)
<1>1. doc.stage \in Stages
  BY DEF Docs
<1>2. CASE doc.stage = "observing"
  <2>1. s \in {IF doc.mark["capture"] = "completed" THEN "judge" ELSE "capture"}
    BY <1>2 DEF E!Routes, E!Done
  <2> QED BY <1>2, <2>1 DEF Entered, E!Sections
<1>3. CASE doc.stage = "ranked"
  <2>1. s \in IF ~doc.candidate \/ mode = "shadow" THEN {"no-op"}
              ELSE IF disk["proposal-backlog"] # 0 THEN {"duplicate"} ELSE {"duplicate", "propose"}
    BY <1>3 DEF E!Routes
  <2>2. In(doc, "proposal-backlog") => disk["proposal-backlog"] # 0
    BY DEF Facts, Tidy, In, KindsOf
  <2> QED BY <1>3, <2>1, <2>2 DEF Entered, E!Sections
<1>4. CASE doc.stage = "awaiting"
  <2>1. s \in {"approve", IF doc.declined THEN "declined" ELSE "decline"}
    BY <1>4 DEF E!Routes
  <2> QED BY <1>4, <2>1 DEF Entered, E!Sections
<1>5. CASE doc.stage = "approved"
  <2>1. s \in {IF doc.mark["execute"] = "completed" THEN "benchmark" ELSE "execute"}
    BY <1>5 DEF E!Routes, E!Done
  <2> QED BY <1>5, <2>1 DEF Entered, E!Sections
<1>6. CASE doc.stage = "reviewing"
  <2>1. s = "review"
    BY <1>6 DEF E!Routes
  <2> QED BY <1>6, <2>1 DEF E!Sections
<1>7. CASE doc.stage = "compounding"
  <2>1. s = IF doc.mark["outcome"] # "completed" THEN "outcome"
            ELSE IF doc.mark["roadmap"] # "completed" THEN "roadmap" ELSE "receipt"
    BY <1>7 DEF E!Routes, E!Done
  <2>2. ~doc.signed
    BY <1>7 DEF Facts, Receipted
  <2> QED BY <1>7, <2>1, <2>2 DEF Entered, E!Sections, Ending
<1>8. CASE doc.stage \in {"completed", "failed"}
  <2>1. s = "receipt" /\ ~doc.signed
    BY <1>8 DEF E!Routes
  <2> QED BY <1>8, <2>1 DEF Entered, E!Sections, Ending
<1> QED BY <1>1, <1>2, <1>3, <1>4, <1>5, <1>6, <1>7, <1>8 DEF Stages

\* A review goes on with a projection of its selection only.
LEMMA ReviewEntered ==
  ASSUME doc \in Docs, disk \in [E!Kinds -> Nat], Facts(doc, disk, choice, mode, receipt),
         doc.stage = "reviewing", E!Projection(doc)
  PROVE  Entered(doc, mode, "review")
<1>1. doc.list \in Seq(Artifacts) /\ Tidy(doc.list, disk)
  BY DEF Docs, Facts
<1>2. \A k \in {"judgment", "approval", "measurement"} : In(doc, k)
  <2>1. ASSUME NEW k \in {"judgment", "approval", "measurement"} PROVE In(doc, k)
    <3>1. E!Count(doc.list, k) = 1 /\ k \in E!Kinds
      BY DEF E!Projection, E!Intact, E!Kinds
    <3> QED BY <1>1, <3>1, Listed DEF In
  <2> QED BY <2>1
<1> QED BY <1>2 DEF Entered, Projected, E!Projection, E!Sections

\* What a section needs of the document when it is taken up.
Fit(s, p, ws, ns) ==
  /\ ws \subseteq Owned(s) /\ ws \cap KindsOf(doc.list) = {}
  /\ ns \subseteq Owned(s) \cup KindsOf(doc.list)
  /\ \A k \in ns \ ws : disk[k] # 0
  /\ s \in E!Blind => ns \cap KindsOf(doc.list) = {}
  /\ Owed(s) \subseteq KindsOf(doc.list) \cup ns
  /\ "components" \in ws => disk["observation"] = 0
  /\ s = "receipt" =>
       IF p = "claim" THEN doc.mark["receipt"] = "none" /\ "receipt" \in ws
       ELSE "receipt" \notin ws

\* The document fits a section that is begun.
LEMMA FitAnew ==
  ASSUME doc \in Docs, Facts(doc, disk, choice, mode, receipt), OnDisk,
         NEW s \in E!Sections, Entered(doc, mode, s),
         s \in ClaimSections \ {"benchmark", "roadmap"} => doc.mark[s] = "none",
         s = "duplicate" => disk["proposal-backlog"] = 0,
         NEW p, p = IF s \in ClaimSections THEN "claim" ELSE "work"
  PROVE  Fit(s, p, Owned(s), Outset(s))
<1> USE DEF Owned, Outset, Owed, E!Blind
<1>1. \A k : In(doc, k) => disk[k] # 0
  BY DEF Facts, Tidy, In, KindsOf
<1>2. Past(doc) /\ Decided(doc, disk, choice)
  BY DEF Facts
<1>3. CASE s = "capture"
  BY <1>2, <1>3 DEF Fit, Past, Entered, OnDisk, In, ClaimSections
<1>4. CASE s = "judge"
  <2>1. In(doc, "components") /\ In(doc, "observation")
    BY <1>2, <1>4 DEF Decided, Entered
  <2> QED BY <1>1, <1>2, <1>4, <2>1 DEF Fit, Past, Entered, In, ClaimSections
<1>5. CASE s \in {"no-op", "propose", "declined"}
  BY <1>5 DEF Fit
<1>6. CASE s = "duplicate"
  BY <1>1, <1>6 DEF Fit, In, ClaimSections
<1>7. CASE s \in {"approve", "decline"}
  BY <1>2, <1>7 DEF Fit, Past, Entered, In, ClaimSections
<1>8. CASE s \in {"execute", "benchmark"}
  BY <1>2, <1>8 DEF Fit, Past, Entered, In, ClaimSections
<1>9. CASE s = "review"
  BY <1>2, <1>9 DEF Fit, Past, Entered, In, ClaimSections
<1>10. CASE s \in {"outcome", "roadmap"}
  BY <1>2, <1>10 DEF Fit, Past, Entered, In, ClaimSections
<1>11. CASE s = "receipt"
  BY <1>2, <1>11 DEF Fit, Past, Entered, In, ClaimSections
<1> QED BY <1>3, <1>4, <1>5, <1>6, <1>7, <1>8, <1>9, <1>10, <1>11 DEF E!Sections

\* The document fits a section that goes on with what it finds.
LEMMA FitFound ==
  ASSUME doc \in Docs, Facts(doc, disk, choice, mode, receipt), OnDisk,
         NEW s \in Restarts, Entered(doc, mode, s),
         s \in ClaimSections => doc.mark[s] = "started",
         disk[E!PlanOf(s).found] # 0
  PROVE  \E ws, ns : Resumed(s, ws, ns) /\ Fit(s, "work", ws, ns)
<1> USE DEF Owned, Owed, E!Blind
<1>1. \A k : In(doc, k) => disk[k] # 0
  BY DEF Facts, Tidy, In, KindsOf
<1>2. Past(doc) /\ Decided(doc, disk, choice)
  BY DEF Facts
<1>3. s \in E!Sections
  BY DEF Restarts, E!Sections
<1>4. CASE s = "capture"
  <2>1. disk["observation"] # 0
    BY <1>3, <1>4, PlanFields
  <2>2. Fit(s, "work", {}, {"components", "observation"})
    BY <1>4, <2>1 DEF Fit, OnDisk
  <2> QED BY <1>4, <2>2 DEF Resumed
<1>5. CASE s = "judge"
  <2>1. disk["judgment"] # 0
    BY <1>3, <1>5, PlanFields
  <2>2. In(doc, "components") /\ In(doc, "observation")
    BY <1>2, <1>5 DEF Decided, Entered
  <2>3. Fit(s, "work", {}, {"components", "observation", "judgment"})
    BY <1>1, <1>5, <2>1, <2>2 DEF Fit, In
  <2> QED BY <1>5, <2>3 DEF Resumed
<1>6. CASE s = "duplicate"
  <2>1. disk["proposal-backlog"] # 0
    BY <1>3, <1>6, PlanFields
  <2>2. Fit(s, "work", {}, {"proposal-backlog"})
    BY <1>6, <2>1 DEF Fit
  <2> QED BY <1>6, <2>2 DEF Resumed
<1>7. CASE s = "execute"
  <2>1. disk["report"] # 0
    BY <1>3, <1>7, PlanFields
  <2>2. Fit(s, "work", {"patch"}, {"report", "patch"})
    BY <1>2, <1>7, <2>1 DEF Fit, Past, Entered, In
  <2> QED BY <1>7, <2>2 DEF Resumed
<1>8. CASE s = "benchmark"
  <2>1. disk["measurement"] # 0
    BY <1>3, <1>8, PlanFields
  <2>2. Fit(s, "work", {}, {"streams", "measurement"})
    BY <1>2, <1>8, <2>1 DEF Fit, Past, Entered, In, OnDisk
  <2> QED BY <1>8, <2>2 DEF Resumed
<1>9. CASE s = "review"
  <2>1. disk["review"] # 0
    BY <1>3, <1>9, PlanFields
  <2>2. Fit(s, "work", {}, {"review"})
    BY <1>9, <2>1 DEF Fit
  <2> QED BY <1>9, <2>2 DEF Resumed
<1>10. CASE s = "receipt"
  <2>1. disk["receipt"] # 0
    BY <1>3, <1>10, PlanFields
  <2>2. Fit(s, "work", {"signature"}, {"receipt", "signature"})
    BY <1>2, <1>10, <2>1 DEF Fit, Past, Entered, In
  <2> QED BY <1>10, <2>2 DEF Resumed
<1> QED BY <1>4, <1>5, <1>6, <1>7, <1>8, <1>9, <1>10 DEF Restarts

\* A section that fits the document is entered with the invariant.
LEMMA Enters ==
  ASSUME EvidenceInv, NEW s \in E!Sections, Entered(doc, mode, s),
         NEW p \in {"claim", "work"}, NEW t, NEW ws, NEW ns,
         Row(p, t, ws, ns) \in Rows(s), Fit(s, p, ws, ns),
         p = "work" /\ s \in ClaimSections => doc.mark[s] # "none",
         p = "work" /\ s = "judge" => t # <<>>,
         E!Go(p, s, t, doc), UNCHANGED <<mode, doc, E!Files>>
  PROVE  EvidenceInv'
<1>1. /\ mem' = doc /\ place' = p /\ sec' = s /\ todo' = t
      /\ UNCHANGED <<mode, doc, disk, bound, choice, receipt>>
  BY DEF E!Go, E!Files
<1>2. doc \in Docs /\ Facts(doc, disk, choice, mode, receipt)
  BY DEF EvidenceInv, EvidenceTypes
<1>3. Copied(doc, doc, s, disk)
  BY <1>2, SelfCopied DEF Facts
<1>4. Clear(ws, ns)'
  BY <1>1 DEF Clear, Fit
<1>5. \E y \in Rows(s) : y.at = p /\ y.left = t /\ y.writes = ws /\ y.notes = ns
  <2> DEFINE z == Row(p, t, ws, ns)
  <2>1. z \in Rows(s)
    OBVIOUS
  <2>2. z.at = p /\ z.left = t /\ z.writes = ws /\ z.notes = ns
    BY DEF Row
  <2> HIDE DEF z
  <2> QED BY <2>1, <2>2
<1>6. (\E y \in Rows(sec) : y.at = place /\ y.left = todo /\ Clear(y.writes, y.notes))'
  BY <1>1, <1>4, <1>5
<1>7. (E!PlanOf(sec).claim)' <=> E!PlanOf(s).claim
  BY <1>1 DEF E!PlanOf
<1>8. (place = "work" /\ E!PlanOf(sec).claim => doc.mark[sec] # "none")'
  BY <1>1, <1>7, PlanFields
<1>9. (In(doc, "observation") => In(doc, "components")) /\ (In(doc, "judgment") => doc.judgment # 0)
  BY <1>2 DEF Facts, Decided
<1>10. Running'
  BY <1>1, <1>3, <1>6, <1>8, <1>9 DEF Running
<1>11. OnDisk' /\ Facts(doc, disk, choice, mode, receipt)' /\ EvidenceTypes'
  BY <1>1 DEF EvidenceInv, EvidenceTypes, OnDisk
<1> QED BY <1>10, <1>11 DEF EvidenceInv

\* Taking up a section keeps the invariant.
LEMMA TakeUpStep == ASSUME EvidenceInv, E!TakeUp PROVE EvidenceInv'
<1>1. /\ doc \in Docs /\ Facts(doc, disk, choice, mode, receipt) /\ OnDisk
      /\ disk \in [E!Kinds -> Nat] /\ mode \in {"proposal", "shadow"}
  BY DEF EvidenceInv, EvidenceTypes
<1>2. PICK s \in E!Routes(doc) :
        LET plan == E!PlanOf(s)
            started == doc.mark[s] = "started" \/ ~plan.claim
            found == started /\ plan.found # "none" /\ disk[plan.found] # 0
            stuck == \/ doc.mark[s] = "late"
                     \/ doc.mark[s] = "started" /\ ~found /\ plan.stuck # "repeat"
        IN \/ /\ ~E!Admitted(doc, s)
              /\ s = "review"
              /\ E!Failed(doc)
           \/ /\ E!Admitted(doc, s) /\ stuck /\ plan.stuck = "fail"
              /\ E!Failed(doc)
           \/ /\ E!Admitted(doc, s) /\ ~stuck
              /\ IF found THEN E!Go("work", s, plan.rest, doc)
                 ELSE IF plan.claim THEN E!Go("claim", s, plan.before, doc)
                 ELSE E!Go("work", s, plan.work, doc)
              /\ E!Quiet
              /\ UNCHANGED <<mode, doc, E!Files>>
  BY DEF E!TakeUp, E!Enter
<1> DEFINE plan == E!PlanOf(s)
           started == doc.mark[s] = "started" \/ ~plan.claim
           found == started /\ plan.found # "none" /\ disk[plan.found] # 0
           stuck == \/ doc.mark[s] = "late"
                    \/ doc.mark[s] = "started" /\ ~found /\ plan.stuck # "repeat"
<1>3. /\ s \in E!Sections
      /\ s = "review" <=> doc.stage = "reviewing"
      /\ s \in {"capture", "judge"} => doc.stage = "observing"
      /\ s # "review" => Entered(doc, mode, s)
  BY <1>1, Routed
<1>4. /\ s \in ClaimSections <=> plan.claim
      /\ s \in {"capture", "judge"} <=> plan.stuck = "fail"
      /\ s = "roadmap" => plan.stuck = "repeat"
      /\ s \in Restarts \ {"capture", "judge"} => plan.stuck = "stop"
      /\ s \notin Restarts <=> plan.found = "none"
  BY <1>3, PlanFields
<1>5. ASSUME E!Failed(doc), doc.stage \in {"observing", "reviewing"}
      PROVE  EvidenceInv'
  <2>1. /\ E!Stop /\ UNCHANGED <<mode, disk, bound, choice, receipt>>
        /\ doc' = doc \/ doc' = [doc EXCEPT !.stage = "failed"]
    BY <1>5 DEF E!Failed, E!FailWith, E!Files
  <2>2. CASE doc' = doc
    BY <1>1, <2>1, <2>2, Stops
  <2>3. CASE doc' = [doc EXCEPT !.stage = "failed"]
    <3>1. Facts(doc', disk, choice, mode, receipt) /\ doc' \in Docs /\ doc'.mark = doc.mark
      BY <1>1, <1>5, <2>3, FailedRecord
    <3> QED BY <2>1, <3>1, Stops
  <2> QED BY <2>1, <2>2, <2>3
<1>6. CASE s = "review" /\ E!Failed(doc)
  BY <1>3, <1>5, <1>6
<1>7. CASE plan.stuck = "fail" /\ E!Failed(doc)
  BY <1>3, <1>4, <1>5, <1>7
<1>8. CASE /\ E!Admitted(doc, s) /\ ~stuck
           /\ IF found THEN E!Go("work", s, plan.rest, doc)
              ELSE IF plan.claim THEN E!Go("claim", s, plan.before, doc)
              ELSE E!Go("work", s, plan.work, doc)
           /\ UNCHANGED <<mode, doc, E!Files>>
  <2>1. Entered(doc, mode, s)
    <3>1. CASE s = "review"
      BY <1>1, <1>3, <1>8, <3>1, ReviewEntered DEF E!Admitted
    <3> QED BY <1>3, <3>1
  <2>2. First(s, plan)
    BY <1>3, FirstRows
  <2>3. s \in ClaimSections \ {"benchmark"} => doc.mark[s] \in Marks \ {"completed"}
    <3>1. doc.mark[s] \in Marks
      BY <1>1, <1>3 DEF Docs
    <3>2. Past(doc) /\ Receipted(doc, disk, receipt)
      BY <1>1 DEF Facts
    <3> QED BY <2>1, <3>1, <3>2 DEF Past, Entered, ClaimSections
  <2>4. CASE found
    <3>1. s \in Restarts /\ (s \in ClaimSections => doc.mark[s] = "started")
      BY <1>4, <2>4
    <3>2. disk[plan.found] # 0
      BY <2>4
    <3>3. PICK ws, ns : Resumed(s, ws, ns) /\ Fit(s, "work", ws, ns)
      BY <1>1, <2>1, <3>1, <3>2, FitFound
    <3>4. Row("work", plan.rest, ws, ns) \in Rows(s)
      BY <2>2, <3>3 DEF First
    <3>5. E!Go("work", s, plan.rest, doc)
      BY <1>8, <2>4
    <3>6. s = "judge" => plan.rest # <<>>
      <4>1. E!PlanOf("judge").rest =
              <<E!N("components"), E!N("observation"), E!N("judgment"), E!Adopt>>
        BY ObservationPlans DEF PlanIs
      <4>2. E!PlanOf("judge").rest # <<>>
        <5> DEFINE r == E!PlanOf("judge").rest
        <5>1. r = <<E!N("components"), E!N("observation"), E!N("judgment"), E!Adopt>>
          BY <4>1
        <5> HIDE DEF r
        <5>2. r # <<>>
          BY <5>1
        <5> QED BY <5>2 DEF r
      <4> QED BY <4>2
    <3> HIDE DEF plan, found, stuck
    <3> QED BY <1>3, <1>8, <2>1, <3>1, <3>3, <3>4, <3>5, <3>6, Enters
  <2>5. CASE ~found
    <3>1. s \in ClaimSections \ {"benchmark", "roadmap"} => doc.mark[s] = "none"
      <4>1. ASSUME s \in ClaimSections \ {"benchmark", "roadmap"} PROVE doc.mark[s] = "none"
        <5>1. plan.stuck # "repeat"
          BY <1>4, <4>1 DEF ClaimSections, Restarts
        <5> QED BY <1>8, <2>3, <2>5, <4>1, <5>1 DEF Marks
      <4> QED BY <4>1
    <3>2. s = "duplicate" => disk["proposal-backlog"] = 0
      <4>1. ASSUME s = "duplicate" PROVE ~plan.claim /\ plan.found = "proposal-backlog"
        BY <1>3, <4>1, PlanFields DEF ClaimSections
      <4> QED BY <2>5, <4>1
    <3> DEFINE p == IF s \in ClaimSections THEN "claim" ELSE "work"
    <3>3. Fit(s, p, Owned(s), Outset(s))
      BY <1>1, <1>3, <2>1, <3>1, <3>2, FitAnew
    <3>4. CASE s \in ClaimSections
      <4>1. E!Go("claim", s, plan.before, doc) /\ p = "claim"
        BY <1>4, <1>8, <2>5, <3>4
      <4>2. Row("claim", plan.before, Owned(s), Outset(s)) \in Rows(s)
        BY <2>2, <3>4 DEF First
      <4> HIDE DEF plan, found, stuck
      <4> QED BY <1>3, <1>8, <2>1, <3>3, <4>1, <4>2, Enters
    <3>5. CASE s \notin ClaimSections
      <4>1. E!Go("work", s, plan.work, doc) /\ p = "work"
        BY <1>4, <1>8, <2>5, <3>5
      <4>2. Row("work", plan.work, Owned(s), Outset(s)) \in Rows(s)
        BY <2>2, <3>5 DEF First
      <4>3. s # "judge"
        BY <3>5 DEF ClaimSections
      <4> HIDE DEF plan, found, stuck
      <4> QED BY <1>3, <1>8, <2>1, <3>3, <3>5, <4>1, <4>2, <4>3, Enters
    <3> QED BY <3>4, <3>5
  <2> QED BY <2>4, <2>5
<1> QED BY <1>2, <1>6, <1>7, <1>8

-----------------------------------------------------------------------------
(* The invariant, and what it says of the evidence. *)

\* The invariant holds initially.
LEMMA EvidenceInitially == ASSUME E!Init PROVE EvidenceInv
<1>1. /\ doc = E!NewDoc /\ mem = E!NewDoc /\ receipt = E!NewDoc
      /\ disk = [k \in E!Kinds |-> 0] /\ bound = 0 /\ choice = "none" /\ place = "idle"
      /\ mode \in {"proposal", "shadow"}
  BY DEF E!Init
<1>2. EvidenceTypes
  BY <1>1, NewDocTypes DEF EvidenceTypes
<1>3. \A k : ~In(doc, k)
  BY <1>1, NewDocTypes DEF In
<1>4. /\ doc.stage = "observing" /\ doc.list = <<>> /\ doc.judgment = 0 /\ ~doc.candidate
      /\ doc.reason = "none" /\ doc.roadmap = 0 /\ ~doc.signed
      /\ \A s \in E!Sections : doc.mark[s] = "none"
  BY <1>1, NewDocTypes
<1>5. Tidy(doc.list, disk)
  BY <1>4 DEF Tidy
<1>6. Past(doc) /\ Decided(doc, disk, choice) /\ Endings(doc, mode)
      /\ Accepted(doc, disk) /\ Receipted(doc, disk, receipt)
  BY <1>3, <1>4 DEF Past, Decided, Endings, Accepted, Receipted, E!Sections
<1>7. OnDisk
  BY <1>1 DEF OnDisk, E!Kinds
<1> QED BY <1>1, <1>2, <1>5, <1>6, <1>7 DEF EvidenceInv, Facts

\* Every step of a command that finds the cycle as it expects it.
LEMMA ActSteps == ASSUME EvidenceInv, E!Act \/ UNCHANGED E!vars PROVE EvidenceInv'
<1>1. CASE UNCHANGED E!vars
  <2>1. UNCHANGED <<mode, doc, mem, disk, bound, choice, receipt, place, sec, todo>>
    BY <1>1 DEF E!vars
  <2>2. EvidenceTypes' /\ Facts(doc, disk, choice, mode, receipt)' /\ OnDisk'
    BY <2>1 DEF EvidenceInv, EvidenceTypes, OnDisk
  <2>3. \A ws, ns : Clear(ws, ns)' <=> Clear(ws, ns)
    BY <2>1 DEF Clear
  <2>4. (E!PlanOf(sec))' = E!PlanOf(sec)
    BY <2>1 DEF E!PlanOf
  <2>5. Running' <=> Running
    BY <2>1, <2>3, <2>4 DEF Running
  <2> QED BY <2>1, <2>2, <2>5 DEF EvidenceInv
<1> QED BY <1>1, TakeUpStep, ClaimStep, WriteStep, AgentWritesStep, NoteStep, KeepStep,
       TakeOverStep, FinishStep, FinishReviewStep, CrashStep DEF E!Act

(* A document that has failed, and stays so in whatever copies it.         *)
Lapsed(d) == "stage" \in DOMAIN d /\ d.stage = "failed"

(* What is left when a command has run on a failed cycle: nothing brings   *)
(* it back to a stage in which evidence is relied upon.                    *)
RunOn ==
  /\ outrun # <<>> /\ Lapsed(doc)
  /\ place # "idle" => Lapsed(mem) /\ sec \in {"execute", "benchmark", "review", "receipt"}

\* An entered section of such a cycle works on a copy of it.
LEMMA EntersLapsed ==
  ASSUME Lapsed(doc), NEW s \in {"execute", "benchmark", "review", "receipt"}, E!Enter(s)
  PROVE  /\ Lapsed(doc)'
         /\ (place # "idle" => Lapsed(mem) /\ sec \in {"execute", "benchmark", "review", "receipt"})'
<1>1. CASE E!Failed(doc)
  BY <1>1 DEF E!Failed, E!FailWith, E!Stop, Lapsed
<1>2. CASE /\ doc' = doc
           /\ \E p, t : E!Go(p, s, t, doc)
  BY <1>2 DEF E!Go, Lapsed
<1> QED BY <1>1, <1>2 DEF E!Enter

\* A command that does not look at the stage again gets there.
LEMMA OutrunSteps ==
  ASSUME outrun \in Seq(E!Sections), E!Outrun, Lapsed(doc)
  PROVE  RunOn' /\ outrun' \in Seq(E!Sections)
<1>1. PICK s \in E!Overdue : E!Enter(s) /\ outrun' = Append(outrun, s)
  BY DEF E!Outrun
<1>2. s \in {"execute", "benchmark", "review"} /\ s \in E!Sections
  BY DEF E!Overdue, E!Sections
<1>3. outrun' # <<>> /\ outrun' \in Seq(E!Sections)
  <2>1. PICK o : o = Append(outrun, s)
    OBVIOUS
  <2>2. Len(o) = Len(outrun) + 1 /\ Len(outrun) \in Nat /\ o \in Seq(E!Sections)
    BY <1>2, <2>1
  <2>3. o # <<>>
    BY <2>2
  <2> QED BY <1>1, <2>1, <2>2, <2>3
<1> QED BY <1>1, <1>2, <1>3, EntersLapsed DEF RunOn

\* What a step of a section leaves of the stage.
LEMMA StagesKept ==
  ASSUME Lapsed(mem), sec \in {"execute", "benchmark", "review", "receipt"}
  PROVE  /\ Lapsed(E!Claimed) /\ Lapsed(E!Ended) /\ Lapsed(E!SetMark(mem, sec, "late"))
         /\ Lapsed([mem EXCEPT !.stage = "failed"])
         /\ \A b \in BOOLEAN : Lapsed(E!Adopting(b))
         /\ \A l : Lapsed([mem EXCEPT !.list = l])
         /\ \A m \in E!Reviewed : Lapsed(m)
<1>1. ASSUME NEW m, Lapsed(m), NEW s, NEW v PROVE Lapsed(E!SetMark(m, s, v))
  BY <1>1 DEF E!SetMark, Lapsed
<1>2. Lapsed(E!Claimed)
  <2>1. ASSUME NEW x PROVE Lapsed([mem EXCEPT !.content = x])
    BY DEF Lapsed
  <2> QED BY <1>1, <2>1 DEF E!Claimed
<1>3. ASSUME NEW m, Lapsed(m), NEW x PROVE Lapsed(E!Onward(m, x))
  BY <1>3 DEF E!Onward, Lapsed
<1>4. Lapsed(E!Ended)
  <2>1. PICK m : m = E!SetMark(mem, sec, "completed")
    OBVIOUS
  <2>2. Lapsed(m)
    BY <1>1, <2>1
  <2>3. CASE sec = "execute" \/ sec = "review"
    BY <2>1, <2>2, <2>3 DEF E!Ended
  <2>4. CASE sec = "benchmark"
    BY <1>3, <2>1, <2>2, <2>4 DEF E!Ended
  <2>5. CASE sec = "receipt"
    <3>1. E!Ended = [m EXCEPT !.signed = TRUE,
                       !.stage = IF m.stage = "compounding" THEN "completed" ELSE m.stage]
      BY <2>1, <2>5 DEF E!Ended
    <3> QED BY <2>2, <3>1 DEF Lapsed
  <2> QED BY <2>3, <2>4, <2>5
<1>5. \A m \in E!Reviewed : Lapsed(m)
  <2>1. ASSUME NEW m \in E!Reviewed PROVE Lapsed(m)
    <3>1. PICK v \in {"promote", "close"},
               cited \in {{}, E!Required \ {"transcript"}, E!Required},
               real \in {{}, E!Required} :
            m = [E!Onward(mem, "compounding") EXCEPT !.verdict = v,
                   !.cites = {E!Artifact(k, IF k \in real /\ E!Has(mem.list, k)
                                            THEN E!Digest(mem.list, k) ELSE 0) : k \in cited}]
      BY DEF E!Reviewed
    <3>2. Lapsed(E!Onward(mem, "compounding"))
      BY <1>3
    <3> QED BY <3>1, <3>2 DEF Lapsed
  <2> QED BY <2>1
<1>6. \A b \in BOOLEAN : Lapsed(E!Adopting(b))
  BY DEF E!Adopting, Lapsed
<1>7. Lapsed([mem EXCEPT !.stage = "failed"]) /\ \A l : Lapsed([mem EXCEPT !.list = l])
  BY DEF Lapsed
<1> QED BY <1>1, <1>2, <1>4, <1>5, <1>6, <1>7

\* No command brings it back.
LEMMA RunOnSteps ==
  ASSUME RunOn, E!Act \/ UNCHANGED E!vars, outrun' = outrun
  PROVE  RunOn'
<1>1. SUFFICES ASSUME E!Act
               PROVE  /\ Lapsed(doc)'
                      /\ (place # "idle" =>
                            Lapsed(mem) /\ sec \in {"execute", "benchmark", "review", "receipt"})'
  BY DEF RunOn, Lapsed, E!vars
<1>2. CASE E!TakeUp
  <2>1. PICK s \in E!Routes(doc) : E!Enter(s)
    BY <1>2 DEF E!TakeUp
  <2>2. s = "receipt"
    BY DEF RunOn, Lapsed, E!Routes
  <2> QED BY <2>1, <2>2, EntersLapsed DEF RunOn
<1>3. ASSUME place # "idle" PROVE Lapsed(doc) /\ Lapsed(mem)
                                 /\ sec \in {"execute", "benchmark", "review", "receipt"}
  BY <1>3 DEF RunOn
<1>4. CASE doc' \in {doc, [mem EXCEPT !.stage = "failed"]} /\ place # "idle" /\ E!Stop
  BY <1>3, <1>4, StagesKept DEF E!Stop, Lapsed
<1>5. ASSUME NEW m, Lapsed(m), NEW x, E!Lost(m, x), place # "idle" PROVE Lapsed(doc)' /\ E!Stop
  BY <1>3, <1>5 DEF E!Lost, E!Stop, Lapsed
<1>6. ASSUME NEW m, Lapsed(m), E!Rest(m), place # "idle", doc' \in {doc, m}
      PROVE  Lapsed(doc)' /\ Lapsed(mem)' /\ sec' = sec
  BY <1>3, <1>6 DEF E!Rest, E!Go, Lapsed
<1>7. CASE E!Claim
  <2>1. place # "idle"
    BY <1>7 DEF E!Claim
  <2>2. CASE doc' = E!Claimed /\ E!Go("work", sec, E!PlanOf(sec).work, E!Claimed)
    BY <1>3, <2>1, <2>2, StagesKept DEF E!Go, Lapsed
  <2>3. CASE E!Lost(E!Claimed, E!PlanOf(sec).failing = "all")
    BY <1>3, <1>5, <2>1, <2>3, StagesKept DEF E!Stop
  <2> QED BY <1>7, <2>2, <2>3 DEF E!Claim
<1>8. CASE E!Write
  <2>1. place # "idle"
    BY <1>8 DEF E!Write, E!Step
  <2>2. CASE E!Rest(mem) /\ doc' = doc
    BY <1>3, <1>6, <2>1, <2>2
  <2>3. CASE E!Go(place, sec, Tail(Tail(todo)), mem) /\ doc' = doc
    BY <1>3, <2>1, <2>3 DEF E!Go, Lapsed
  <2>4. CASE E!Stop /\ doc' \in {doc, [mem EXCEPT !.stage = "failed"]}
    BY <1>4, <2>1, <2>4
  <2> QED BY <1>8, <2>2, <2>3, <2>4 DEF E!Write, E!Broken
<1>9. CASE E!AgentWrites
  BY <1>3, <1>9 DEF E!AgentWrites, Lapsed
<1>10. CASE E!Note
  <2>1. place # "idle"
    BY <1>10 DEF E!Note, E!Step
  <2>2. ASSUME NEW l, E!Rest([mem EXCEPT !.list = l]), doc' = doc
        PROVE  Lapsed(doc)' /\ Lapsed(mem)' /\ sec' = sec
    BY <1>3, <1>6, <2>1, <2>2, StagesKept
  <2>3. CASE E!Stop /\ doc' \in {doc, [mem EXCEPT !.stage = "failed"]}
    BY <1>4, <2>1, <2>3
  <2>4. \/ \E l : E!Rest([mem EXCEPT !.list = l]) /\ doc' = doc
        \/ E!Stop /\ doc' \in {doc, [mem EXCEPT !.stage = "failed"]}
    BY <1>10 DEF E!Note, E!Failed, E!FailWith, E!Broken
  <2> QED BY <1>3, <2>1, <2>2, <2>3, <2>4
<1>11. CASE E!Keep
  <2>1. place # "idle"
    BY <1>11 DEF E!Keep, E!Step
  <2>2. PICK m : /\ m = mem \/ m = E!SetMark(mem, sec, "late")
                 /\ \/ doc' = m /\ E!Rest(m)
                    \/ E!Lost(m, E!PlanOf(sec).failing = "all")
    BY <1>11 DEF E!Keep
  <2>3. Lapsed(m)
    BY <1>3, <2>1, <2>2, StagesKept
  <2>4. CASE doc' = m /\ E!Rest(m)
    BY <1>3, <1>6, <2>1, <2>3, <2>4
  <2>5. CASE E!Lost(m, E!PlanOf(sec).failing = "all")
    BY <1>5, <2>1, <2>3, <2>5 DEF E!Stop
  <2> QED BY <2>2, <2>4, <2>5
<1>12. CASE E!TakeOver
  <2>1. place # "idle"
    BY <1>12 DEF E!TakeOver, E!Step
  <2>2. Lapsed(E!Adopting(TRUE)) /\ Lapsed(E!Adopting(FALSE))
    BY <1>3, <2>1, StagesKept
  <2>3. CASE doc' = E!Adopting(TRUE) /\ E!Rest(E!Adopting(TRUE))
    BY <1>3, <1>6, <2>1, <2>2, <2>3
  <2>4. CASE E!Lost(E!Adopting(TRUE), FALSE)
    BY <1>5, <2>1, <2>2, <2>4 DEF E!Stop
  <2>5. CASE E!Failed(E!Adopting(FALSE))
    <3>1. Lapsed([E!Adopting(FALSE) EXCEPT !.stage = "failed"])
      BY <2>2 DEF Lapsed
    <3> QED BY <1>3, <2>1, <2>5, <3>1 DEF E!Failed, E!FailWith, E!Stop, Lapsed
  <2> QED BY <1>12, <2>3, <2>4, <2>5 DEF E!TakeOver
<1>13. CASE E!Finish
  <2>1. place # "idle"
    BY <1>13 DEF E!Finish
  <2>2. CASE doc' = E!Ended /\ E!Stop
    BY <1>3, <2>1, <2>2, StagesKept DEF E!Stop, Lapsed
  <2>3. CASE E!Lost(E!Ended, sec = "capture")
    BY <1>3, <1>5, <2>1, <2>3, StagesKept DEF E!Stop
  <2>4. CASE E!Failed(mem)
    BY <1>4, <2>1, <2>4 DEF E!Failed, E!FailWith
  <2> QED BY <1>13, <2>2, <2>3, <2>4 DEF E!Finish
<1>14. CASE E!FinishReview
  <2>1. place # "idle"
    BY <1>14 DEF E!FinishReview
  <2>2. PICK m \in E!Reviewed :
          \/ doc' = m /\ E!Stop
          \/ E!Lost(m, FALSE)
          \/ E!Failed(mem)
    BY <1>14 DEF E!FinishReview
  <2>3. Lapsed(m)
    BY <1>3, <2>1, StagesKept
  <2>4. CASE doc' = m /\ E!Stop
    BY <2>3, <2>4 DEF E!Stop, Lapsed
  <2>5. CASE E!Lost(m, FALSE)
    BY <1>5, <2>1, <2>3, <2>5 DEF E!Stop
  <2>6. CASE E!Failed(mem)
    BY <1>4, <2>1, <2>6 DEF E!Failed, E!FailWith
  <2> QED BY <2>2, <2>4, <2>5, <2>6
<1>15. CASE E!Crash
  BY <1>4, <1>15 DEF E!Crash
<1> QED BY <1>1, <1>2, <1>7, <1>8, <1>9, <1>10, <1>11, <1>12, <1>13, <1>14, <1>15 DEF E!Act

(* The whole: the facts, or a command has run on a failed cycle.           *)
HistoryInv == outrun \in Seq(E!Sections) /\ (EvidenceInv \/ RunOn)

\* Every step keeps it.
LEMMA EvidenceSteps == ASSUME HistoryInv, [E!Next]_E!vars PROVE HistoryInv'
<1>1. CASE E!Outrun
  <2>1. Lapsed(doc)
    BY <1>1 DEF HistoryInv, EvidenceInv, EvidenceTypes, Docs, RunOn, E!Outrun, Lapsed
  <2> QED BY <1>1, <2>1, OutrunSteps DEF HistoryInv
<1>2. CASE (E!Act \/ UNCHANGED E!vars) /\ outrun' = outrun
  BY <1>2, ActSteps, RunOnSteps DEF HistoryInv
<1> QED BY <1>1, <1>2 DEF E!Next, E!vars

\* What the marks, the stage and the list of a document say of each other
\* and of the files on disk holds behind every step, crash and failed call,
\* until a command runs on a cycle that has failed.
THEOREM EvidenceInvariant == E!Spec => []HistoryInv
<1>1. E!Init => HistoryInv
  BY EvidenceInitially DEF HistoryInv, E!Init
<1>2. HistoryInv /\ [E!Next]_E!vars => HistoryInv'
  BY EvidenceSteps
<1> QED BY <1>1, <1>2, PTL DEF E!Spec

\* A command has run over the failed cycle, in the words of the model.
LEMMA RunsOver == ASSUME RunOn PROVE E!RunOver
BY DEF RunOn, Lapsed, E!RunOver

(* However often a command is interrupted and resumed, the document never  *)
(* records two artifacts of one kind, and the file of a recorded artifact  *)
(* keeps its content, for any number of failed calls and crashes.  The one *)
(* exception: a cycle that has failed, and on which a command ran on that  *)
(* had looked at its stage before.                                         *)
THEOREM RecordedFilesKept == E!Spec => []EvidenceFrozen
<1>1. ASSUME EvidenceInv PROVE EvidenceFrozen
  <2>1. doc.list \in Seq(Artifacts) /\ disk \in [E!Kinds -> Nat] /\ Tidy(doc.list, disk)
    BY <1>1 DEF EvidenceInv, EvidenceTypes, Facts, Docs
  <2>2. ASSUME NEW a \in E!ToSet(doc.list)
        PROVE  E!Count(doc.list, a.kind) = 1 /\ disk[a.kind] = a.digest
    BY <2>1, <2>2, ListedEach
  <2> QED BY <2>2 DEF EvidenceFrozen, E!EvidenceFrozen
<1>2. HistoryInv => EvidenceFrozen
  BY <1>1, RunsOver DEF HistoryInv, EvidenceFrozen, E!EvidenceFrozen
<1> QED BY <1>2, EvidenceInvariant, PTL

(* A signed receipt replays: that of a completed, a failed, a declined, a  *)
(* no-op or a duplicate cycle, after any interruptions of its commands,    *)
(* with the same exception.                                                *)
THEOREM SignedReceiptsReplay == E!Spec => []SignedReplays
<1>1. ASSUME EvidenceInv, doc.signed PROVE E!Replays(receipt)
  <2> DEFINE r == receipt
             d == doc
  <2>1. /\ d \in Docs /\ r \in Docs /\ disk \in [E!Kinds -> Nat] /\ OnDisk
        /\ mode \in {"proposal", "shadow"} /\ choice \in {"none", "noop", "select"}
    BY <1>1 DEF EvidenceInv, EvidenceTypes
  <2>2. /\ Tidy(d.list, disk) /\ Decided(d, disk, choice) /\ Endings(d, mode)
        /\ Shows(r, d, disk) /\ d.stage \in {"completed", "failed"}
    BY <1>1 DEF EvidenceInv, Facts, Receipted
  <2>3. r.list \in Seq(Artifacts) /\ Tidy(r.list, disk)
    BY <2>1, <2>2 DEF Docs, Shows
  <2>4. \A k \in E!Kinds \ {"receipt", "signature"} :
          /\ E!Has(r.list, k) <=> In(d, k)
          /\ In(d, k) => E!Digest(r.list, k) = disk[k] /\ disk[k] # 0
    <3>1. ASSUME NEW k \in E!Kinds \ {"receipt", "signature"}
          PROVE  /\ E!Has(r.list, k) <=> In(d, k)
                 /\ In(d, k) => E!Digest(r.list, k) = disk[k] /\ disk[k] # 0
      <4>1. k \in KindsOf(r.list) <=> In(d, k)
        BY <2>2 DEF Shows, In
      <4> QED BY <2>1, <2>3, <4>1, Listed
    <3> QED BY <3>1
  <2>5. /\ E!Has(r.list, "judgment") <=> In(d, "judgment")
        /\ E!Has(r.list, "observation") <=> In(d, "observation")
        /\ E!Has(r.list, "components") <=> In(d, "components")
        /\ E!Has(r.list, "roadmap") <=> In(d, "roadmap")
        /\ E!Has(r.list, "proposal-backlog") <=> In(d, "proposal-backlog")
        /\ In(d, "judgment") => E!Digest(r.list, "judgment") = disk["judgment"]
                                /\ disk["judgment"] # 0
        /\ In(d, "components") => E!Digest(r.list, "components") = disk["components"]
        /\ In(d, "roadmap") => E!Digest(r.list, "roadmap") = disk["roadmap"]
        /\ In(d, "observation") => disk["observation"] # 0
    BY <2>4 DEF E!Kinds
  <2>6. /\ r.stage = d.stage /\ r.judgment = d.judgment /\ r.candidate = d.candidate
        /\ r.reason = d.reason /\ r.roadmap = d.roadmap
        /\ r.mark["capture"] = d.mark["capture"]
    BY <2>2 DEF Shows
  <2>7. d.candidate \in BOOLEAN /\ (d.reason \in {"none", "judge", "shadow", "duplicate"})
    BY <2>1 DEF Docs
  <2> HIDE DEF r, d
  <2>8. E!Unchanged(r)
    BY <2>1, <2>3, ListedEach DEF E!Unchanged
  <2>9. E!RoadmapReplays(r)
    BY <2>2, <2>5, <2>6 DEF E!RoadmapReplays, Decided
  <2>10. E!InputsReplay(r)
    <3>1. In(d, "observation") => E!ObservationReplays(r)
      BY <2>1, <2>2, <2>5 DEF E!ObservationReplays, OnDisk, Decided
    <3> QED BY <2>2, <2>5, <2>6, <3>1 DEF E!InputsReplay, E!Done, Decided
  <2>11. E!DecisionReplays(r)
    <3>1. CASE ~In(d, "judgment")
      <4>1. d.judgment = 0 /\ ~d.candidate /\ d.reason = "none" /\ ~In(d, "proposal-backlog")
        BY <2>2, <3>1 DEF Decided, Endings
      <4> QED BY <2>5, <2>6, <3>1, <4>1 DEF E!DecisionReplays
    <3>2. CASE In(d, "judgment") /\ ~d.candidate
      <4>1. d.judgment = disk["judgment"] /\ ~In(d, "proposal-backlog")
        BY <2>2, <3>2 DEF Decided, Endings
      <4>2. d.stage = "failed" => d.reason = "none"
        BY <2>2 DEF Endings
      <4>3. d.stage = "completed" => d.reason = "judge" /\ choice = "noop"
        BY <2>1, <2>2, <2>5, <3>2, <4>1 DEF Decided, Endings, OnDisk
      <4> QED BY <2>2, <2>5, <2>6, <3>2, <4>1, <4>2, <4>3 DEF E!DecisionReplays
    <3>3. CASE In(d, "judgment") /\ d.candidate
      <4>1. d.judgment = disk["judgment"] /\ choice = "select"
        BY <2>2, <3>3 DEF Decided
      <4>2. d.stage = "failed" => d.reason = "none" /\ ~In(d, "proposal-backlog")
        BY <2>2 DEF Endings
      <4>3. d.stage = "completed" /\ mode = "shadow" =>
              d.reason = "shadow" /\ ~In(d, "proposal-backlog")
        BY <2>2, <3>3 DEF Endings
      <4>4. d.stage = "completed" /\ mode # "shadow" =>
              \/ d.reason = "none" /\ ~In(d, "proposal-backlog")
              \/ d.reason = "duplicate" /\ In(d, "proposal-backlog")
        BY <2>1, <2>2, <3>3 DEF Endings
      <4>5. E!Has(r.list, "proposal-backlog") \in BOOLEAN
        BY DEF E!Has
      <4>6. <<r.reason, E!Has(r.list, "proposal-backlog")>> \in
              IF d.stage = "failed" THEN {<<"none", FALSE>>}
              ELSE IF mode = "shadow" THEN {<<"shadow", FALSE>>}
              ELSE {<<"none", FALSE>>, <<"duplicate", TRUE>>}
        <5>1. CASE E!Has(r.list, "proposal-backlog") = TRUE
          BY <2>2, <2>5, <2>6, <4>2, <4>3, <4>4, <5>1
        <5>2. CASE E!Has(r.list, "proposal-backlog") = FALSE
          BY <2>2, <2>5, <2>6, <4>2, <4>3, <4>4, <5>2
        <5> QED BY <4>5, <5>1, <5>2
      <4>7. E!Has(r.list, "judgment") /\ r.judgment = E!Digest(r.list, "judgment") /\ r.candidate
        BY <2>5, <2>6, <3>3, <4>1
      <4> QED BY <2>6, <4>1, <4>6, <4>7 DEF E!DecisionReplays
    <3> QED BY <2>7, <3>1, <3>2, <3>3
  <2>12. E!Replays(r)
    BY <2>8, <2>9, <2>10, <2>11 DEF E!Replays
  <2> QED BY <2>12 DEF r
<1>2. HistoryInv => SignedReplays
  BY <1>1, RunsOver DEF HistoryInv, SignedReplays, E!SignedReplays
<1> QED BY <1>2, EvidenceInvariant, PTL

(* What Review accepts satisfies every check that Compound makes of the    *)
(* evidence, at its first step and on every resume.                        *)
THEOREM ReviewedEvidenceStands == E!Spec => []CompoundingStands
<1>1. ASSUME EvidenceInv, doc.stage = "compounding" PROVE E!CompoundEvidence(doc)
  <2>1. /\ doc \in Docs /\ disk \in [E!Kinds -> Nat]
        /\ doc.list \in Seq(Artifacts) /\ Tidy(doc.list, disk)
        /\ Decided(doc, disk, choice) /\ Accepted(doc, disk)
    BY <1>1 DEF EvidenceInv, EvidenceTypes, Facts, Docs
  <2>2. Projected(doc) /\ In(doc, "review")
        /\ (\A ref \in doc.cites : In(doc, ref.kind) /\ ref.digest = disk[ref.kind])
        /\ (doc.verdict = "promote" => E!Required \subseteq CitedKinds(doc.cites))
    BY <1>1, <2>1 DEF Accepted, CitedKinds
  <2>3. ASSUME NEW k \in E!Kinds, In(doc, k) PROVE E!Intact(doc.list, k)
    BY <2>1, <2>3, Listed DEF E!Intact, In
  <2>4. E!Projection(doc)
    BY <2>1, <2>2, <2>3 DEF E!Projection, Projected, Decided, E!Kinds
  <2>5. \A ref \in doc.cites : ref \in E!ToSet(doc.list)
    <3>1. ASSUME NEW ref \in doc.cites PROVE ref \in E!ToSet(doc.list)
      <4>1. ref \in Artifacts /\ ref.kind \in E!Kinds
        BY <2>1 DEF Docs, Artifacts
      <4>2. ref = E!Artifact(ref.kind, disk[ref.kind])
        BY <2>2, <4>1 DEF Artifacts, E!Artifact
      <4>3. E!Artifact(ref.kind, disk[ref.kind]) \in E!ToSet(doc.list)
        BY <2>1, <2>2, <4>1, Listed DEF In
      <4> QED BY <4>2, <4>3
    <3> QED BY <3>1
  <2>6. E!EvidenceValid(doc, doc.verdict, doc.cites)
    BY <2>2, <2>5 DEF E!EvidenceValid, CitedKinds
  <2>7. doc.verdict = "promote" => E!PromotionEvidence(doc)
    BY <2>2 DEF E!PromotionEvidence, CitedKinds
  <2>8. E!Intact(doc.list, "review")
    BY <2>2, <2>3 DEF E!Kinds
  <2> QED BY <2>4, <2>6, <2>7, <2>8 DEF E!CompoundEvidence
<1>2. RunOn => doc.stage # "compounding"
  BY DEF RunOn, Lapsed
<1>3. HistoryInv => CompoundingStands
  BY <1>1, <1>2 DEF HistoryInv, CompoundingStands, E!CompoundingStands
<1> QED BY <1>3, EvidenceInvariant, PTL
=============================================================================
