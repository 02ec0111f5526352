--------------------------- MODULE ExperimentProofs -------------------------
(***************************************************************************)
(* Proofs about an experiment: the patch that is taken from its worktree   *)
(* (Worktree) and the verdict its benchmark earns (Benchmark).             *)
(*                                                                         *)
(* A patch is faithful although it is made from another listing than the   *)
(* one that was checked, because nothing touches the files in between, and *)
(* because the index, which is what differs between two listings, only     *)
(* grows once the inspection has passed.                                   *)
(*                                                                         *)
(* A verdict is earned although its measurement has been through the disk, *)
(* because the benchmark runs once: whatever carries a measurement, the    *)
(* copy, the file or the document, carries that of the one run.            *)
(***************************************************************************)
EXTENDS MCExperiment, SequenceTheorems, TLAPS

-----------------------------------------------------------------------------
(* The worktree. *)

Before == {"base", "stat", "add", "adding", "record", "claim"}
After == {"inspect", "check", "mark", "diff", "complete"}
Different == W!Deleted \cup W!Modified \cup W!Added \cup W!Untracked

(* The base commit on record is the commit of the worktree, from the first *)
(* record on.                                                              *)
BaseKept ==
  /\ place \in Before => attempt = "none"
  /\ place \in {"base", "stat", "add", "adding", "record"} => record = None
  /\ attempt # "none" \/ record # None => record = head /\ dest \in {"partial", "ready"}
  /\ place \in {"claim", "execute"} \cup After => record = head /\ dest \in {"partial", "ready"}
  /\ place \in {"execute"} \cup After => attempt # "none"
  /\ place = "add" => dest = "none"
  /\ place = "adding" /\ dest = "partial" => base = head
  /\ place = "record" => base = head /\ dest \in {"partial", "ready"}

(* What the inspection has passed is covered, and stays what was reported. *)
Inspected ==
  /\ intent \subseteq Paths \ (Tracked \cup Ignored)
  /\ passed => attempt # "none" /\ place \in {"idle"} \cup After
  /\ intent # {} => passed
  /\ place = "check" => changed = W!ChangedPaths
  /\ place \in {"mark", "diff", "complete"} => passed
  /\ passed => \A p \in Different : W!Covered(p)
  /\ passed /\ ~W!Renamed => report = Different
  /\ place \in {"diff", "complete"} => W!Untracked = {}

Taken ==
  /\ place = "complete" \/ outcome = "accepted" =>
       /\ passed /\ attempt # "none" /\ W!Untracked = {}
       /\ patch = [p \in W!Deleted \cup W!Modified \cup W!Added |-> tree[p]]
  /\ passed /\ ~W!Renamed => outcome # "rejected"

WorkInv == BaseKept /\ Inspected /\ Taken

-----------------------------------------------------------------------------
(* The benchmark. *)

Lines == Values \cup {Log, Close}
Within(s) ==
  /\ Len(captured[s]) =< Len(written[s])
  /\ \A i \in 1..Len(captured[s]) : captured[s][i] = written[s][i]

(* What was captured is the beginning of what was written, and a zero exit *)
(* is that of a command that has ended.                                    *)
RunnerInv ==
  /\ written \in [Streams -> Seq(Lines)]
  /\ captured \in [Streams -> Seq(Lines)]
  /\ Used =< Limit
  /\ \A s \in Streams : Within(s)
  /\ exit = "zero" => process = "ended"

(* A measurement is the one of the run that has been made. *)
Measured(m) ==
  /\ m \in Measurements
  /\ m.exit = ExitCode
  /\ m.exit = "zero" => m.value \in Values /\ m.value = Extract(captured["stdout"], took)
  /\ files.stdout = captured["stdout"]

Measuring == {"run", "streams", "extract", "write"}
Reviewing == {"review", "reviewer", "resolve"}

MeasureInv ==
  /\ metric \in Metrics /\ ValidMetric(metric)
  /\ files = [stdout |-> files.stdout, measurement |-> files.measurement,
              review |-> files.review]
  /\ pc \in {"idle", "save", "enter"} \cup Measuring \cup Reviewing
  /\ key \in {"none", "started", "completed"}
  /\ key = "none" => pc = "idle" /\ files.measurement = None
  /\ pc \in Measuring => key = "started" /\ files.measurement = None
  /\ pc \in {"streams", "extract"} => took \in Values
  /\ pc = "extract" => files.stdout = captured["stdout"]
  /\ pc = "write" => Measured(mem)
  /\ pc = "save" => key = "started" /\ Measured(mem) /\ mem = files.measurement
  /\ pc \in {"enter"} \cup Reviewing => key = "completed" /\ mem = saved
  /\ pc = "resolve" => files.review \in Verdicts
  /\ files.measurement # None => Measured(files.measurement)
  /\ key = "completed" => saved = files.measurement /\ Measured(saved)

VerdictInv ==
  /\ final # "none" \/ vetoed => key = "completed"
  /\ final = "promote" => Promotable
  /\ vetoed => ~Promotable

BenchInv == RunnerInv /\ MeasureInv /\ VerdictInv

-----------------------------------------------------------------------------
(* The steps of the worktree. *)

LEMMA BaseSteps ==
  ASSUME BaseKept, [W!Next]_(W!vars)
  PROVE  BaseKept'
<1> USE DEF BaseKept, Before, After, W!At, W!Goto, W!Fail, W!Reject, W!Keeps, W!repo, W!work, W!cycle
<1>1. CASE W!SourceMoves
  BY <1>1 DEF W!SourceMoves
<1>2. CASE W!Resume
  BY <1>2 DEF W!Resume
<1>3. CASE W!ReadBase
  BY <1>3 DEF W!ReadBase
<1>4. CASE W!Stat
  BY <1>4 DEF W!Stat, W!Reuse
<1>5. CASE W!AddBegins
  BY <1>5 DEF W!AddBegins
<1>6. CASE W!Link
  BY <1>6 DEF W!Link
<1>7. CASE W!AddEnds
  BY <1>7 DEF W!AddEnds
<1>8. CASE W!Record
  BY <1>8 DEF W!Record
<1>9. CASE W!Claim
  BY <1>9 DEF W!Claim
<1>10. CASE W!Edit
  BY <1>10 DEF W!Edit
<1>11. CASE W!Report
  BY <1>11 DEF W!Report
<1>12. CASE W!Inspect
  BY <1>12 DEF W!Inspect
<1>13. CASE W!Check
  BY <1>13 DEF W!Check
<1>14. CASE W!Mark
  BY <1>14 DEF W!Mark
<1>15. CASE W!Diff
  BY <1>15 DEF W!Diff
<1>16. CASE W!Complete
  BY <1>16 DEF W!Complete
<1>17. CASE W!Crash
  BY <1>17 DEF W!Crash
<1>18. CASE W!CallFails
  BY <1>18 DEF W!CallFails
<1>19. CASE W!Ended \/ UNCHANGED W!vars
  BY <1>19 DEF W!Ended, W!vars
<1> QED
  BY <1>1, <1>2, <1>3, <1>4, <1>5, <1>6, <1>7, <1>8, <1>9, <1>10, <1>11, <1>12, <1>13,
     <1>14, <1>15, <1>16, <1>17, <1>18, <1>19 DEF W!Next

(* Outside Prepare and the executor nothing touches the files, and only    *)
(* Patch touches the index.                                                *)
LEMMA FilesStay ==
  ASSUME UNCHANGED <<tree, like, intent>>
  PROVE  /\ UNCHANGED <<W!Deleted, W!Modified, W!Added, W!Untracked, W!ChangedPaths>>
         /\ UNCHANGED <<Different, W!Renamed>>
  BY DEF W!Deleted, W!Modified, W!Added, W!Untracked, W!ChangedPaths, W!DiffNames, W!Moved,
     W!Similar, W!Renamed, Different

(* A listing made before anything is marked shows every difference; later  *)
(* ones leave out the old paths of renamed files.                          *)
LEMMA Listed ==
  ASSUME intent \subseteq Paths \ (Tracked \cup Ignored), intent = {} \/ ~W!Renamed
  PROVE  W!ChangedPaths = Different
<1>1. W!Moved = {}
  BY DEF W!Moved, W!Added, W!Renamed
<1> QED BY <1>1 DEF W!ChangedPaths, W!DiffNames, Different

(* Marking the untracked files hides no difference. *)
LEMMA Marked ==
  ASSUME intent' = intent \cup W!Untracked, UNCHANGED <<tree, like>>
  PROVE  /\ UNCHANGED <<Different, W!Renamed, W!Deleted, W!Modified>>
         /\ W!Untracked' = {}
<1>1. UNCHANGED <<W!Renamed, W!Deleted, W!Modified>>
  BY DEF W!Renamed, W!Similar, W!Deleted, W!Modified
<1>2. W!Untracked' = {}
  BY DEF W!Untracked
<1>3. W!Added' = W!Added \cup W!Untracked
  BY DEF W!Added, W!Untracked
<1> QED BY <1>1, <1>2, <1>3 DEF Different

(* Steps that neither touch the worktree nor learn anything about it. *)
Elsewhere ==
  \/ W!SourceMoves \/ W!Resume \/ W!ReadBase \/ W!Stat \/ W!AddBegins \/ W!Record
  \/ W!Claim \/ W!Complete \/ W!CallFails \/ W!Crash \/ W!Ended \/ UNCHANGED W!vars

LEMMA InspectedSteps ==
  ASSUME BaseKept, Inspected, Taken, [W!Next]_(W!vars)
  PROVE  Inspected' /\ Taken'
<1> USE DEF BaseKept, Inspected, Taken, Before, After
<1>1. CASE Elsewhere
  <2> USE <1>1 DEF Elsewhere, W!SourceMoves, W!Resume, W!ReadBase, W!Stat, W!Reuse, W!AddBegins,
        W!Record, W!Claim, W!Complete, W!CallFails, W!Crash, W!Ended, W!vars, W!At, W!Goto, W!Fail, W!Keeps,
        W!repo, W!work, W!cycle
  <2>1. UNCHANGED <<tree, like, intent, passed, changed, patch, report, allowed>>
    OBVIOUS
  <2>2. /\ UNCHANGED <<W!Deleted, W!Modified, W!Added, W!Untracked, W!ChangedPaths>>
        /\ UNCHANGED <<Different, W!Renamed>>
    BY <2>1, FilesStay
  <2>3. \A p : W!Covered(p)' = W!Covered(p)
    BY <2>1 DEF W!Covered
  <2>4. /\ passed => attempt' # "none" /\ place' \in {"idle"} \cup After
        /\ place' = "check" => place = "check"
        /\ place' \in {"mark", "diff"} => place = place'
        /\ place' = "complete" \/ outcome' = "accepted" =>
             place = "complete" \/ outcome = "accepted"
        /\ outcome' = "rejected" => outcome = "rejected"
    OBVIOUS
  <2> QED BY <2>1, <2>2, <2>3, <2>4
<1>2. CASE W!Link \/ W!AddEnds \/ W!Edit
  <2>1. /\ place \in {"adding", "execute"} /\ place' \in {"adding", "execute", "record"}
        /\ UNCHANGED <<intent, passed, outcome>> /\ outcome = "none"
    BY <1>2 DEF W!Link, W!AddEnds, W!Edit, W!At, W!Goto, W!Keeps, W!cycle
  <2>2. ~passed /\ intent = {}
    BY <2>1
  <2> QED BY <2>1, <2>2
<1>3. CASE W!Report
  <2>1. /\ place = "execute" /\ place' \in {"inspect", "idle"} /\ UNCHANGED <<intent, passed>>
        /\ outcome' # "accepted"
    BY <1>3 DEF W!Report, W!At, W!Goto, W!Fail, W!Keeps, W!work
  <2>2. ~passed /\ intent = {}
    BY <2>1
  <2> QED BY <2>1, <2>2
<1>4. CASE W!Inspect
  <2>1. /\ place = "inspect" /\ place' = "check" /\ changed' = W!ChangedPaths
        /\ UNCHANGED <<tree, like, intent, passed, report, allowed, attempt, outcome>>
        /\ outcome = "none"
    BY <1>4 DEF W!Inspect, W!At, W!Goto, W!Keeps, W!work, W!cycle
  <2>2. UNCHANGED <<W!ChangedPaths, Different, W!Renamed>>
    BY <2>1, FilesStay
  <2>3. \A p : W!Covered(p)' = W!Covered(p)
    BY <2>1 DEF W!Covered
  <2> QED BY <2>1, <2>2, <2>3
<1>5. CASE W!Check
  <2>1. /\ place = "check" /\ outcome = "none" /\ changed = W!ChangedPaths
        /\ UNCHANGED <<tree, like, intent, report, allowed, attempt>>
    BY <1>5 DEF W!Check, W!At, W!work
  <2>2. /\ UNCHANGED <<Different, W!Renamed>>
        /\ \A p : W!Covered(p)' = W!Covered(p)
    <3>1. UNCHANGED <<Different, W!Renamed>>
      BY <2>1, FilesStay
    <3> QED BY <2>1, <3>1 DEF W!Covered
  <2>3. intent = {} \/ ~W!Renamed => changed = Different
    BY <2>1, Listed
  <2>4. CASE (\A p \in changed : W!Covered(p)) /\ changed = report
    <3>1. passed' /\ place' = "mark" /\ outcome' = outcome
      BY <1>5, <2>4 DEF W!Check, W!Goto
    <3>2. \A p \in Different : W!Covered(p)
      BY <2>3, <2>4
    <3>3. ~W!Renamed => report = Different
      BY <2>3, <2>4
    <3> QED BY <2>1, <2>2, <3>1, <3>2, <3>3
  <2>5. CASE ~((\A p \in changed : W!Covered(p)) /\ changed = report)
    <3>1. passed' = passed /\ place' = "idle" /\ outcome' = "rejected"
      BY <1>5, <2>5 DEF W!Check, W!Reject, W!Goto
    <3>2. ~(passed /\ ~W!Renamed)
      BY <2>3, <2>5
    <3> QED BY <2>1, <2>2, <3>1, <3>2
  <2> QED BY <2>4, <2>5
<1>6. CASE W!Mark
  <2>1. /\ place = "mark" /\ place' = "diff" /\ outcome = "none" /\ passed
        /\ UNCHANGED <<tree, like>> /\ intent' = intent \cup W!Untracked
        /\ UNCHANGED <<report, allowed, attempt, outcome, passed>>
    BY <1>6 DEF W!Mark, W!MarkUntracked, W!At, W!Goto, W!Keeps, W!cycle
  <2>2. UNCHANGED <<Different, W!Renamed>> /\ W!Untracked' = {}
    BY <2>1, Marked
  <2>3. intent' \subseteq Paths \ (Tracked \cup Ignored)
    BY <2>1 DEF W!Untracked
  <2>4. \A p : W!Covered(p)' = W!Covered(p)
    BY <2>1 DEF W!Covered
  <2> QED BY <2>1, <2>2, <2>3, <2>4
<1>7. CASE W!Diff
  <2>1. /\ place = "diff" /\ place' = "complete" /\ outcome = "none" /\ passed
        /\ UNCHANGED <<tree, like, intent, report, allowed, attempt, outcome, passed>>
        /\ patch' = [p \in W!Deleted \cup W!Modified \cup W!Added |-> tree[p]]
    BY <1>7 DEF W!Diff, W!At, W!Goto, W!Keeps, W!work, W!cycle
  <2>2. UNCHANGED <<W!Deleted, W!Modified, W!Added, W!Untracked, Different, W!Renamed>>
    BY <2>1, FilesStay
  <2>3. \A p : W!Covered(p)' = W!Covered(p)
    BY <2>1 DEF W!Covered
  <2> QED BY <2>1, <2>2, <2>3
<1> QED
  BY <1>1, <1>2, <1>3, <1>4, <1>5, <1>6, <1>7 DEF W!Next, Elsewhere

LEMMA WorkInitially == W!Init => WorkInv
<1> SUFFICES ASSUME W!Init PROVE WorkInv
  OBVIOUS
<1>1. BaseKept
  BY DEF W!Init, BaseKept, Before, After
<1>2. Inspected /\ Taken
  BY DEF W!Init, Inspected, Taken, After
<1> QED BY <1>1, <1>2 DEF WorkInv

LEMMA WorkInvariant == W!Spec => []WorkInv
<1>1. W!Init => WorkInv
  BY WorkInitially
<1>2. WorkInv /\ [W!Next]_(W!vars) => WorkInv'
  BY BaseSteps, InspectedSteps DEF WorkInv
<1> QED BY <1>1, <1>2, PTL DEF W!Spec

(* A patch that Execute has accepted, applied to the base commit on record,*)
(* gives the tree it inspected, except for ignored files, and touches      *)
(* allowed paths only: for every repository, every contract and any number *)
(* of edits, crashes and commits to the source.                            *)
THEOREM AcceptedPatch == W!Spec => []PatchFaithful
<1>1. WorkInv => PatchFaithful
  <2> SUFFICES ASSUME WorkInv, outcome = "accepted"
               PROVE  /\ record = head
                      /\ \A p \in DOMAIN patch : W!Covered(p)
                      /\ \A p \in Paths \ Ignored :
                           tree[p] = IF p \in DOMAIN patch THEN patch[p] ELSE W!Committed[p]
    BY DEF PatchFaithful, W!PatchFaithful
  <2> DEFINE D == W!Deleted \cup W!Modified \cup W!Added
  <2>1. /\ record = head /\ passed /\ W!Untracked = {} /\ patch = [p \in D |-> tree[p]]
        /\ \A p \in Different : W!Covered(p)
    BY DEF WorkInv, BaseKept, Inspected, Taken
  <2>2. DOMAIN patch = D /\ D \subseteq Different /\ \A p \in D : patch[p] = tree[p]
    BY <2>1 DEF Different
  <2>3. ASSUME NEW p \in Paths \ Ignored, p \notin D PROVE tree[p] = W!Committed[p]
    <3>1. CASE p \in Tracked
      BY <2>3, <3>1 DEF W!Deleted, W!Modified, W!Committed
    <3>2. CASE p \notin Tracked
      <4>1. tree[p] = Absent
        BY <2>1, <2>3, <3>2 DEF W!Added, W!Untracked
      <4> QED BY <2>3, <3>2, <4>1 DEF W!Committed
    <3> QED BY <3>1, <3>2
  <2> QED BY <2>1, <2>2, <2>3
<1> QED BY <1>1, WorkInvariant, PTL

(* An execution that has passed the inspection is not rejected by a later  *)
(* one, whatever crash or failed call lies between them, unless git takes  *)
(* one of its new files for a renamed one.                                 *)
THEOREM ResultKept == W!Spec => []RecoveryKeepsResult
<1>1. WorkInv => RecoveryKeepsResult
  BY DEF WorkInv, Taken, RecoveryKeepsResult, W!RecoveryKeepsResult
<1> QED BY <1>1, WorkInvariant, PTL

-----------------------------------------------------------------------------
(* The steps of the benchmark. *)

(* Neither stream captures more than the command wrote to it. *)
LEMMA RunnerWrites ==
  ASSUME RunnerInv, NEW s \in Streams, NEW chunk \in Seq(Lines), Write(s, chunk)
  PROVE  RunnerInv'
<1>1. /\ Limit \in Nat /\ Used \in Nat /\ Used =< Limit /\ Len(chunk) \in Nat
      /\ written[s] \in Seq(Lines) /\ captured[s] \in Seq(Lines)
      /\ captured["stdout"] \in Seq(Lines) /\ captured["stderr"] \in Seq(Lines)
      /\ s = "stdout" \/ s = "stderr"
  BY LimitAssumption DEF RunnerInv, Used, Streams
<1>2. /\ process = "running" /\ UNCHANGED <<process, exit>>
      /\ written' = [written EXCEPT ![s] = @ \o chunk]
  BY DEF Write
<1>3. written' \in [Streams -> Seq(Lines)] /\ written'[s] = written[s] \o chunk
  BY <1>1, <1>2 DEF RunnerInv
<1>4. /\ Len(written'[s]) = Len(written[s]) + Len(chunk)
      /\ \A i \in 1..Len(written[s]) : written'[s][i] = written[s][i]
      /\ \A i \in 1..Len(chunk) : written'[s][Len(written[s]) + i] = chunk[i]
  BY <1>1, <1>3
<1>5. CASE Copying(s)
  <2> DEFINE n == IF Len(chunk) < Limit - Used THEN Len(chunk) ELSE Limit - Used
             c == captured[s]
  <2>1. n \in 0..Len(chunk) /\ n =< Limit - Used
    BY <1>1
  <2>2. Kept(chunk) = SubSeq(chunk, 1, n)
    BY DEF Kept
  <2> HIDE DEF n
  <2>3. PICK kept \in Seq(Lines) :
          /\ kept = Kept(chunk) /\ Len(kept) = n /\ \A i \in 1..n : kept[i] = chunk[i]
    BY <2>1, <2>2
  <2>4. captured' = [captured EXCEPT ![s] = @ \o kept]
    BY <1>5, <2>3 DEF Write
  <2>5. captured' \in [Streams -> Seq(Lines)] /\ captured'[s] = c \o kept
    BY <1>1, <2>3, <2>4 DEF RunnerInv
  <2>6. Used' =< Limit
    <3>1. Len(captured'[s]) = Len(c) + n
      BY <1>1, <2>3, <2>5
    <3>2. CASE s = "stdout"
      BY <1>1, <2>1, <2>4, <3>1, <3>2 DEF Used, Streams, RunnerInv
    <3>3. CASE s = "stderr"
      BY <1>1, <2>1, <2>4, <3>1, <3>3 DEF Used, Streams, RunnerInv
    <3> QED BY <1>1, <3>2, <3>3
  <2>7. c = written[s]
    BY <1>5 DEF Copying
  <2>8. /\ Len(captured'[s]) =< Len(written'[s])
        /\ \A i \in 1..Len(captured'[s]) : captured'[s][i] = written'[s][i]
    <3>1. Len(captured'[s]) = Len(c) + n
      BY <1>1, <2>3, <2>5
    <3>2. ASSUME NEW i \in 1..Len(captured'[s]) PROVE captured'[s][i] = written'[s][i]
      <4>1. CASE i =< Len(c)
        BY <1>1, <1>4, <2>3, <2>5, <2>7, <3>1, <4>1
      <4>2. CASE i > Len(c)
        <5>1. i - Len(c) \in 1..n /\ Len(c) + (i - Len(c)) = i
          BY <1>1, <2>1, <3>1, <4>2
        <5>2. captured'[s][i] = kept[i - Len(c)]
          BY <1>1, <2>3, <2>5, <4>2, <5>1
        <5>3. written'[s][i] = chunk[i - Len(c)]
          <6>1. i - Len(c) \in 1..Len(chunk) /\ Len(written[s]) + (i - Len(c)) = i
            BY <1>1, <2>1, <2>7, <5>1
          <6> QED BY <1>4, <6>1
        <5> QED BY <2>3, <5>1, <5>2, <5>3
      <4> QED BY <1>1, <4>1, <4>2
    <3> QED BY <1>1, <1>4, <2>1, <2>7, <3>1, <3>2, SMTT(20)
  <2>9. \A t \in Streams \ {s} : captured'[t] = captured[t] /\ written'[t] = written[t]
    BY <1>2, <2>4 DEF RunnerInv
  <2>10. \A t \in Streams : Within(t)'
    BY <2>8, <2>9, ZenonT(40) DEF RunnerInv, Within
  <2> QED BY <1>2, <1>3, <2>5, <2>6, <2>10 DEF RunnerInv
<1>6. CASE ~Copying(s)
  <2>1. captured' = captured
    BY <1>6 DEF Write
  <2>2. \A t \in Streams \ {s} : written'[t] = written[t]
    BY <1>2 DEF RunnerInv
  <2>3. \A t \in Streams : Within(t)'
    <3>1. Within(s)'
      BY <1>1, <1>4, <2>1 DEF RunnerInv, Within
    <3> QED BY <2>1, <2>2, <3>1 DEF RunnerInv, Within
  <2>4. Used' = Used
    BY <2>1 DEF Used
  <2> QED BY <1>2, <1>3, <2>1, <2>3, <2>4 DEF RunnerInv
<1> QED BY <1>5, <1>6

LEMMA RunnerStill ==
  ASSUME RunnerInv, UNCHANGED <<written, captured>>, exit' = "zero" => process' = "ended"
  PROVE  RunnerInv'
  BY DEF RunnerInv, Within, Used

(* Only the command itself writes, ends and leaves a status. *)
LEMMA RunnerSteps ==
  ASSUME RunnerInv, [Next]_vars
  PROVE  RunnerInv'
<1>1. CASE Output
  <2>1. \A chunk \in Chunks : chunk \in Seq(Lines)
    <3>1. <<Log>> \in Seq(Lines) /\ \A v \in Values : <<v, Close>> \in Seq(Lines)
      <4>1. Log \in Lines /\ Close \in Lines /\ Values \subseteq Lines
        BY DEF Lines
      <4> QED BY <4>1
    <3> QED BY <3>1 DEF Chunks
  <2>2. <<Log>> \in Seq(Lines) /\ {"stdout", "stderr"} = Streams
    BY DEF Lines, Streams
  <2> QED BY <1>1, <2>1, <2>2, RunnerWrites DEF Output
<1>2. CASE \/ Begin \/ Finish \/ Released \/ Stopped \/ Unstarted \/ OutOfTime \/ Interrupt
           \/ Answered
  <2>1. UNCHANGED <<written, captured>> /\ (exit' = "zero" => process' = "ended")
    BY <1>2 DEF Begin, Finish, Released, Stopped, Unstarted, OutOfTime, Interrupt, Answered,
       StartProcess, Exit, LetGo, Kill, NotStarted, EndContext, Return, runner, RunnerInv
  <2> QED BY <2>1, RunnerStill
<1>3. CASE \/ Claim \/ Unprepared \/ WriteStreams \/ Measure \/ WriteMeasurement \/ Save \/ Enter
           \/ Resume \/ Review \/ ReviewerWrites \/ ReviewerAnswers \/ Resolve \/ Crash
           \/ UNCHANGED vars
  <2>1. UNCHANGED <<written, captured, exit, process>>
    BY <1>3 DEF Claim, Unprepared, WriteStreams, Measure, WriteMeasurement, Save, Enter, Resume,
       Review, ReviewerWrites, ReviewerAnswers, Resolve, Crash, vars, runner
  <2> QED BY <2>1, RunnerStill DEF RunnerInv
<1> QED BY <1>1, <1>2, <1>3 DEF Next

(* A measurement stays the one of the run as long as nothing of it changes.*)
LEMMA MeasuredStays ==
  ASSUME UNCHANGED <<metric, exit, captured, took>>, files'.stdout = files.stdout
  PROVE  \A m : Measured(m) => Measured(m)'
<1> SUFFICES ASSUME NEW m, Measured(m) PROVE Measured(m)'
  OBVIOUS
<1> QED BY DEF Measured, Extract, ExitCode

(* Whatever ExtractMetric reads is a value. *)
LEMMA ExtractReads ==
  ASSUME took \in Values, NEW stdout, Extract(stdout, took) # Unreadable
  PROVE  Extract(stdout, took) \in Values
  BY DEF Extract

(* What a write to the store, a persist and a failure lead to. *)
LEMMA StoreGoes ==
  ASSUME NEW w, NEW p, Store(w, p)
  PROVE  /\ key' = key
         /\ \/ files' = w /\ pc' = p
            \/ files' \in {files, w} /\ pc' = "idle"
  BY DEF Store, Broken, Goto, End, document

LEMMA PersistGoes ==
  ASSUME NEW k, NEW m, NEW s, NEW p, Persist(k, m, s, p)
  PROVE  \/ key' = k /\ saved' = m /\ pc' \in {p, "idle"}
         \/ key' = key /\ saved' = saved /\ pc' = "idle"
  BY DEF Persist, Goto, End

LEMMA MeasureSteps ==
  ASSUME MeasureInv, [Next]_vars
  PROVE  MeasureInv' /\ (key = "completed" => key' = key /\ saved' = saved)
<1> USE DEF MeasureInv, Measuring, Reviewing, document, local
<1>1. CASE Begin \/ Output \/ Finish \/ Released \/ Stopped \/ Unstarted \/ OutOfTime
  <2>1. pc = "run" /\ UNCHANGED <<metric, document, files, pc, local>>
    BY <1>1 DEF Begin, Output, Finish, Released, Stopped, Unstarted, OutOfTime, Running
  <2> QED BY <2>1
<1>2. CASE Unprepared
  <2>1. pc = "run" /\ pc' = "idle" /\ UNCHANGED <<metric, key, files>>
    BY <1>2 DEF Unprepared, Fail, End
  <2> QED BY <2>1
<1>3. CASE Answered
  <2>1. /\ pc = "run" /\ pc' = "streams" /\ took' \in Values
        /\ UNCHANGED <<metric, key, saved, files>>
    BY <1>3 DEF Answered, Goto
  <2> QED BY <2>1
<1>4. CASE WriteStreams
  <2>1. /\ pc = "streams" /\ UNCHANGED <<metric, key, took, captured>>
        /\ \/ files' = [files EXCEPT !.stdout = captured["stdout"]] /\ pc' = "extract"
           \/ files' \in {files, [files EXCEPT !.stdout = captured["stdout"]]} /\ pc' = "idle"
    <3>1. Store([files EXCEPT !.stdout = captured["stdout"]], "extract")
      BY <1>4 DEF WriteStreams
    <3>2. pc = "streams" /\ UNCHANGED <<metric, took, captured>>
      BY <1>4 DEF WriteStreams, runner
    <3> QED BY <3>1, <3>2, StoreGoes, Zenon
  <2>2. /\ files'.measurement = None
        /\ files' = [stdout |-> files'.stdout, measurement |-> None, review |-> files'.review]
        /\ pc' = "extract" => files'.stdout = captured["stdout"]
    BY <2>1
  <2> QED BY <2>1, <2>2
<1>5. CASE Measure
  <2> DEFINE value == Extract(captured["stdout"], took)
  <2>1. pc = "extract" /\ UNCHANGED <<metric, key, files, exit, captured, took>>
    BY <1>5 DEF Measure, runner
  <2>2. CASE value = Unreadable /\ ExitCode = "zero"
    <3>1. pc' = "idle"
      BY <1>5, <2>2 DEF Measure, Fail, End
    <3> QED BY <2>1, <3>1
  <2>3. CASE ~(value = Unreadable /\ ExitCode = "zero")
    <3>1. /\ mem' = [exit |-> ExitCode, value |-> IF value = Unreadable THEN 0 ELSE value]
          /\ pc' = "write"
      BY <1>5, <2>3 DEF Measure, Goto
    <3>2. value # Unreadable => value \in Values
      BY <2>1, ExtractReads
    <3>3. ExitCode \in {"zero", "nonzero"}
      BY DEF ExitCode
    <3> DEFINE m == [exit |-> ExitCode, value |-> IF value = Unreadable THEN 0 ELSE value]
    <3>4. /\ m \in Measurements /\ m.exit = ExitCode
          /\ m.exit = "zero" => m.value \in Values /\ m.value = value
      <4> HIDE DEF value
      <4> QED BY <2>3, <3>2, <3>3 DEF Measurements
    <3>5. ExitCode' = ExitCode /\ Extract(captured["stdout"], took)' = value
      BY <2>1 DEF ExitCode, Extract
    <3>6. /\ m \in Measurements' /\ files'.stdout = captured'["stdout"] /\ mem' = m
      BY <2>1, <3>1, <3>4 DEF Measurements
    <3> HIDE DEF m, value
    <3>7. Measured(mem)'
      BY <3>4, <3>5, <3>6 DEF Measured
    <3> QED BY <2>1, <3>1, <3>7
  <2> QED BY <2>2, <2>3
<1>6. CASE WriteMeasurement
  <2>1. Store([files EXCEPT !.measurement = mem], "save") /\ pc = "write" /\ Measured(mem)
    BY <1>6 DEF WriteMeasurement
  <2>2. UNCHANGED <<metric, exit, captured, took, mem>>
    BY <1>6 DEF WriteMeasurement, runner
  <2>3. /\ key' = key
        /\ \/ files' = [files EXCEPT !.measurement = mem] /\ pc' = "save"
           \/ files' \in {files, [files EXCEPT !.measurement = mem]} /\ pc' = "idle"
    BY <2>1, StoreGoes, Zenon
  <2>4. /\ files' = [stdout |-> files'.stdout, measurement |-> files'.measurement,
                     review |-> files'.review]
        /\ files'.stdout = files.stdout
        /\ files'.measurement = mem \/ (files'.measurement = None /\ pc' = "idle")
    BY <2>1, <2>3
  <2>5. Measured(mem)'
    BY <2>1, <2>2, <2>4, MeasuredStays
  <2>6. files'.measurement = mem => Measured(files.measurement)'
    BY <2>1, <2>2, <2>4, MeasuredStays
  <2> QED BY <2>1, <2>2, <2>3, <2>4, <2>5, <2>6
<1>7. CASE Save
  <2>1. Persist("completed", mem, stage, "enter") /\ pc = "save"
    BY <1>7 DEF Save
  <2>2. UNCHANGED <<metric, exit, captured, took, files, mem>>
    BY <1>7 DEF Save, runner
  <2>3. \/ key' = "completed" /\ saved' = mem /\ pc' \in {"enter", "idle"}
        \/ key' = key /\ saved' = saved /\ pc' = "idle"
    BY <2>1, PersistGoes
  <2>4. \A m : Measured(m) => Measured(m)'
    BY <2>2, MeasuredStays
  <2> QED BY <2>1, <2>2, <2>3, <2>4
<1>8. CASE Enter
  <2>1. Persist(key, saved, "reviewing", "review") /\ pc = "enter"
    BY <1>8 DEF Enter
  <2>2. UNCHANGED <<metric, exit, captured, took, files, mem>>
    BY <1>8 DEF Enter, runner
  <2>3. key' = key /\ saved' = saved /\ pc' \in {"review", "idle"}
    BY <2>1, PersistGoes
  <2>4. \A m : Measured(m) => Measured(m)'
    BY <2>2, MeasuredStays
  <2> QED BY <2>1, <2>2, <2>3, <2>4
<1>9. CASE Claim
  <2>1. /\ pc = "idle" /\ key # "completed"
        /\ UNCHANGED <<metric, exit, captured, took, files>>
    BY <1>9 DEF Claim
  <2>2. \A m : Measured(m) => Measured(m)'
    BY <2>1, MeasuredStays
  <2>3. CASE key = "none"
    <3>1. Persist("started", saved, stage, "run")
      BY <1>9, <2>3 DEF Claim
    <3>2. \/ key' = "started" /\ pc' \in {"run", "idle"}
          \/ key' = key /\ pc' = "idle"
      BY <3>1, PersistGoes
    <3> QED BY <2>1, <2>3, <3>2
  <2>4. CASE key = "started"
    <3>1. /\ key' = key /\ saved' = saved
          /\ \/ pc' = "save" /\ mem' = files.measurement /\ files.measurement # None
             \/ pc' = "idle"
      BY <1>9, <2>4 DEF Claim, MeasurementFound, Restored, End, Goto
    <3> QED BY <2>1, <2>2, <2>4, <3>1
  <2> QED BY <2>1, <2>3, <2>4
<1>10. CASE Resume \/ Review \/ Crash \/ Interrupt \/ UNCHANGED vars
  <2>1. UNCHANGED <<metric, exit, captured, took, files, key>>
    BY <1>10 DEF Resume, Review, Crash, Interrupt, EndContext, vars, runner
  <2>2. \A m : Measured(m) => Measured(m)'
    BY <2>1, MeasuredStays
  <2>3. /\ saved' = saved \/ (Review /\ files.measurement # saved)
        /\ \/ pc' = "idle"
           \/ pc' = pc /\ mem' = mem
           \/ key = "completed" /\ mem' = saved /\ pc' \in {"enter", "review"}
           \/ key = "completed" /\ mem' = saved /\ pc' = "reviewer"
           \/ key = "completed" /\ mem' = saved /\ pc' = "resolve" /\ files.review \in Verdicts
    <3>1. CASE Review
      BY <1>10, <3>1 DEF Review, End, Goto, Fail, Broken, Recorded
    <3>2. CASE ~Review
      BY <1>10, <3>2 DEF Resume, Crash, Interrupt, vars, End, Goto
    <3> QED BY <3>1, <3>2
  <2>4. saved' = saved
    BY <2>3 DEF Review
  <2> QED BY <2>1, <2>2, <2>3, <2>4
<1>11. CASE ReviewerWrites \/ ReviewerAnswers \/ Resolve
  <2>1. /\ pc \in {"reviewer", "resolve"}
        /\ UNCHANGED <<metric, exit, captured, took, key, mem>>
    BY <1>11 DEF ReviewerWrites, ReviewerAnswers, Resolve, Store, document, runner
  <2>2. saved' = saved
    <3>1. CASE ReviewerWrites
      BY <3>1 DEF ReviewerWrites
    <3>2. CASE ReviewerAnswers
      BY <2>1, <3>2 DEF ReviewerAnswers, Store, Broken, Fail
    <3>3. CASE Resolve
      BY <2>1, <3>3 DEF Resolve, Fail
    <3> QED BY <1>11, <3>1, <3>2, <3>3
  <2>3. /\ files' = [files EXCEPT !.review = files'.review]
        /\ pc' \in {"idle", "reviewer"} \/ (pc' = "resolve" /\ files'.review \in Verdicts)
    <3>1. CASE ReviewerWrites
      BY <3>1 DEF ReviewerWrites
    <3>2. CASE ReviewerAnswers
      <4>1. CASE \E v \in Verdicts : Store([files EXCEPT !.review = v], "resolve")
        <5>1. PICK v \in Verdicts : Store([files EXCEPT !.review = v], "resolve")
          BY <4>1
        <5>2. \/ files' = [files EXCEPT !.review = v] /\ pc' = "resolve"
              \/ files' \in {files, [files EXCEPT !.review = v]} /\ pc' = "idle"
          BY <5>1, StoreGoes, Zenon
        <5> QED BY <5>2
      <4>2. CASE Fail /\ UNCHANGED files
        BY <4>2 DEF Fail, End
      <4> QED BY <3>2, <4>1, <4>2 DEF ReviewerAnswers
    <3>3. CASE Resolve
      BY <3>3 DEF Resolve, Recorded, Fail, Goto, End
    <3> QED BY <1>11, <3>1, <3>2, <3>3
  <2>4. /\ files' = [stdout |-> files.stdout, measurement |-> files.measurement,
                     review |-> files'.review]
        /\ files'.stdout = files.stdout /\ files'.measurement = files.measurement
    BY <2>3
  <2>5. \A m : Measured(m) => Measured(m)'
    BY <2>1, <2>4, MeasuredStays
  <2> QED BY <2>1, <2>2, <2>3, <2>4, <2>5
<1> QED
  BY <1>1, <1>2, <1>3, <1>4, <1>5, <1>6, <1>7, <1>8, <1>9, <1>10, <1>11 DEF Next

(* The verdict is resolved once the measurement is on record. *)
LEMMA VerdictSteps ==
  ASSUME MeasureInv, VerdictInv, [Next]_vars
  PROVE  VerdictInv'
<1>1. key = "completed" => key' = "completed" /\ saved' = saved
  BY MeasureSteps
<1>2. metric' = metric
  BY DEF Next, vars, Claim, Begin, Output, Finish, Released, Stopped, Unstarted, Unprepared,
     OutOfTime, Interrupt, Answered, WriteStreams, Measure, WriteMeasurement, Save, Enter, Resume,
     Review, ReviewerWrites, ReviewerAnswers, Resolve, Crash, Running
<1>3. key = "completed" => (Promotable' <=> Promotable)
  BY <1>1, <1>2 DEF Promotable, Reached
<1>4. CASE UNCHANGED <<final, vetoed>>
  BY <1>1, <1>3, <1>4 DEF VerdictInv
<1>5. CASE Resolve /\ ~UNCHANGED <<final, vetoed>>
  <2>1. pc = "resolve" /\ key = "completed"
    BY <1>5 DEF Resolve, MeasureInv, Reviewing
  <2>2. /\ vetoed' = (files.review = "promote" /\ ~Promotable)
        /\ final' = IF vetoed' THEN "close" ELSE files.review
    BY <1>5 DEF Resolve, Recorded
  <2>3. /\ vetoed' => ~Promotable
        /\ final' = "promote" => Promotable
    BY <2>2
  <2> QED BY <1>1, <1>3, <2>1, <2>3 DEF VerdictInv
<1>6. Resolve \/ UNCHANGED <<final, vetoed>>
  <2>1. CASE WriteStreams \/ WriteMeasurement \/ ReviewerAnswers
    <3>1. UNCHANGED <<final, vetoed>>
      BY <2>1 DEF WriteStreams, WriteMeasurement, ReviewerAnswers, Store, document
    <3> QED BY <3>1
  <2>2. CASE Review
    BY <2>2 DEF Review, Recorded
  <2>3. CASE ~(WriteStreams \/ WriteMeasurement \/ ReviewerAnswers \/ Review)
    BY <2>3 DEF Next, vars, document, Claim, Begin, Output, Finish, Released, Stopped, Unstarted,
       Unprepared, OutOfTime, Interrupt, Answered, Measure, Save, Enter, Resume, ReviewerWrites,
       Crash, Running
  <2> QED BY <2>1, <2>2, <2>3
<1> QED BY <1>4, <1>5, <1>6

LEMMA BenchInitially == Init => BenchInv
<1> SUFFICES ASSUME Init PROVE BenchInv
  OBVIOUS
<1>1. /\ written = Nothing /\ captured = Nothing /\ exit = "none" /\ process = "none"
      /\ metric \in Metrics /\ ValidMetric(metric)
      /\ key = "none" /\ pc = "idle" /\ final = "none" /\ vetoed = FALSE
      /\ files = [stdout |-> None, measurement |-> None, review |-> None]
  BY DEF Init, RunnerInit
<1>2. RunnerInv
  <2>1. Nothing \in [Streams -> Seq(Lines)] /\ \A s \in Streams : Nothing[s] = <<>>
    BY DEF Nothing
  <2>2. Used = 0 /\ \A s \in Streams : Within(s)
    BY <1>1, <2>1 DEF Used, Within, Streams
  <2> QED BY <1>1, <2>1, <2>2, LimitAssumption DEF RunnerInv
<1>3. MeasureInv
  BY <1>1 DEF MeasureInv, Measuring, Reviewing
<1>4. VerdictInv
  BY <1>1 DEF VerdictInv
<1> QED BY <1>2, <1>3, <1>4 DEF BenchInv

LEMMA BenchInvariant == Spec => []BenchInv
<1>1. Init => BenchInv
  BY BenchInitially
<1>2. BenchInv /\ [Next]_vars => BenchInv'
  BY RunnerSteps, MeasureSteps, VerdictSteps DEF BenchInv
<1> QED BY <1>1, <1>2, PTL DEF Spec

(* What a run with a zero exit measured, the command itself has shown. *)
LEMMA ShownByCommand ==
  ASSUME RunnerInv, NEW m, Measured(m), m.exit = "zero"
  PROVE  /\ process = "ended" /\ exit = "zero"
         /\ m.value \in Values /\ Showed(m.value)
<1>1. process = "ended" /\ exit = "zero"
  BY DEF RunnerInv, Measured, ExitCode
<1>2. m.value \in Values /\ m.value = Extract(captured["stdout"], took)
  BY DEF Measured
<1>3. CASE metric.source = "wall"
  BY <1>1, <1>2, <1>3 DEF Extract, Showed
<1>4. CASE metric.source # "wall"
  <2> DEFINE out == captured["stdout"]
             all == written["stdout"]
  <2>1. out \in Seq(Lines) /\ all \in Seq(Lines) /\ Within("stdout")
    BY DEF RunnerInv, Streams
  <2>2. PICK v \in Values : out = <<v, Close>> /\ m.value = out[1]
    <3>1. CASE \E v \in Values : out = <<v, Close>>
      BY <1>2, <1>4, <3>1 DEF Extract
    <3>2. CASE ~\E v \in Values : out = <<v, Close>>
      <4>1. m.value = None
        BY <1>2, <1>4, <3>2 DEF Extract, Unreadable
      <4> QED BY <1>2, <4>1, BenchmarkAssumption
    <3> QED BY <3>1, <3>2
  <2>3. Len(out) = 2
    BY <2>2
  <2>4. Len(all) > 1 /\ all[1] = out[1]
    BY <2>1, <2>3 DEF Within
  <2> QED BY <1>1, <1>2, <1>4, <2>2, <2>4 DEF Showed
<1> QED BY <1>1, <1>2, <1>3, <1>4

(* Review promotes only what the benchmark itself showed in a run with a   *)
(* zero exit, at the target and better than the baseline, and overrides a  *)
(* reviewer only for cause: for every metric, output, limit and any number *)
(* of failures.                                                            *)
THEOREM VerdictIsEarned == Spec => []VerdictEarned
<1>1. BenchInv => VerdictEarned
  <2> SUFFICES ASSUME BenchInv PROVE VerdictEarned
    OBVIOUS
  <2> DEFINE v == saved.value
  <2>1. key = "completed" => Measured(saved)
    BY DEF BenchInv, MeasureInv
  <2>2. /\ metric.target \in Int /\ metric.baseline \in Int
        /\ metric.direction \in {"maximize", "minimize"}
        /\ \A u \in Values : u \in Int
    BY BenchmarkAssumption DEF BenchInv, MeasureInv, Metrics
  <2>3. ASSUME final = "promote"
        PROVE  /\ process = "ended" /\ exit = "zero"
               /\ \E u \in Values :
                    Showed(u) /\ Better(u, metric.baseline) /\ ~Better(metric.target, u)
    <3>1. key = "completed" /\ saved.exit = "zero" /\ Reached(v)
      BY <2>3 DEF BenchInv, VerdictInv, Promotable
    <3>2. process = "ended" /\ exit = "zero" /\ v \in Values /\ Showed(v)
      BY <2>1, <3>1, ShownByCommand DEF BenchInv
    <3>3. ValidMetric(metric)
      BY DEF BenchInv, MeasureInv
    <3> HIDE DEF v
    <3>4. Better(v, metric.baseline) /\ ~Better(metric.target, v)
      BY <2>2, <3>1, <3>2, <3>3 DEF Reached, ValidMetric, Better
    <3> QED BY <3>2, <3>4
  <2>4. ASSUME vetoed, exit = "zero"
        PROVE  \E u \in Values : Showed(u) /\ Better(metric.target, u)
    <3>1. key = "completed" /\ ~(saved.exit = "zero" /\ Reached(v))
      BY <2>4 DEF BenchInv, VerdictInv, Promotable
    <3>2. saved.exit = "zero"
      BY <2>1, <2>4, <3>1 DEF Measured, ExitCode
    <3>3. v \in Values /\ Showed(v)
      BY <2>1, <3>1, <3>2, ShownByCommand DEF BenchInv
    <3> HIDE DEF v
    <3>4. Better(metric.target, v)
      BY <2>2, <3>1, <3>2, <3>3 DEF Reached, Better
    <3> QED BY <3>3, <3>4
  <2> QED BY <2>3, <2>4 DEF VerdictEarned
<1> QED BY <1>1, BenchInvariant, PTL

(* The measurement on record is the one in the file the reviewer reads,    *)
(* and that of a successful run can be taken again from the stored output. *)
THEOREM MeasurementIsReproducible == Spec => []MeasurementReproducible
<1>1. BenchInv => MeasurementReproducible
  BY DEF BenchInv, MeasureInv, Measured, MeasurementReproducible
<1> QED BY <1>1, BenchInvariant, PTL
=============================================================================
