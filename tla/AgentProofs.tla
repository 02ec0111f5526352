----------------------------- MODULE AgentProofs ----------------------------
(***************************************************************************)
(* Proofs about the two agent backends.                                    *)
(*                                                                         *)
(* A Codex call (CodexCall): the capture of its output is bounded and      *)
(* loses nothing unnoticed, the provider is started at most once, a call   *)
(* succeeds only after one, and what it reports is what that one spent.    *)
(* The second needs the first.  The direct fallback starts the provider a  *)
(* second time unless the pool did not start it, and the code infers that  *)
(* from the absence of a marker in what was captured.  So the invariant    *)
(* says that a provider started by the pool left its marker in what was    *)
(* written, and that what was captured is what was written unless the      *)
(* limit was exceeded, which Run reports.                                  *)
(*                                                                         *)
(* The last two are about what is read out of a transcript: the tally of   *)
(* codexUsage is defined by recursion over its lines, so what it says of   *)
(* every transcript is shown by induction (Induction, TalliedSteps,        *)
(* TallyCounts), and the invariant RanInv relates the transcript to the    *)
(* turns the provider began.                                               *)
(*                                                                         *)
(* A Claude call (ClaudeCall): a repair runs on what is left of the budget.*)
(***************************************************************************)
EXTENDS MCAgents, FiniteSetTheorems, SequenceTheorems, WellFoundedInduction, TLAPS

RunnerType ==
  /\ context \in Contexts
  /\ process \in {"none", "running", "ended"}
  /\ exit \in {"none", "zero", "nonzero", "signal"}
  /\ written \in [Streams -> Seq(Lines)]
  /\ captured \in [Streams -> Seq(Lines)]
  /\ exceeded \in BOOLEAN
  /\ result \in {"none", "ok", "failed", "not-found", "context", "limit"}

CallType ==
  /\ phase \in {"prepare", "pool", "direct", "done"}
  /\ starts \in Nat

(* What the runner guarantees: nothing is lost without a note of it.       *)
Capture ==
  /\ Used =< Limit
  /\ ~exceeded => captured = written
  /\ result \notin {"none", "limit"} => ~exceeded
  /\ process = "none" => ~exceeded
  /\ process = "running" => result = "none"

(* Who has started the provider, by phase.                                 *)
Accounted ==
  /\ phase = "prepare" => starts = 0 /\ process = "none" /\ result = "none"
  /\ phase = "pool" /\ starts # 0 => starts = 1 /\ Has(Markers, written["stderr"])
  /\ phase = "pool" /\ process = "none" => starts = 0
  /\ phase = "direct" /\ process = "none" => starts = 0
  /\ starts =< 1

CallInv == RunnerType /\ CallType /\ Capture /\ Accounted

-----------------------------------------------------------------------------
(* A write keeps both streams sequences, within the limit, and equal to    *)
(* what was written unless the limit was exceeded.                         *)
LEMMA WriteCaptures ==
  ASSUME RunnerType, Capture,
         NEW s \in Streams, NEW chunk \in Seq(Lines),
         Write(s, chunk)
  PROVE  RunnerType' /\ Capture'
<1>1. Limit \in Nat
  BY LimitAssumption
<1>2. /\ written[s] \in Seq(Lines)
      /\ captured["stdout"] \in Seq(Lines)
      /\ captured["stderr"] \in Seq(Lines)
      /\ s = "stdout" \/ s = "stderr"
      /\ Len(chunk) \in Nat
  BY LenProperties DEF RunnerType, Streams
<1>3. Used \in Nat /\ Used =< Limit
  <2>2. Used \in Nat
    BY DEF Used, RunnerType, Streams
  <2>3. Used =< Limit
    BY DEF Capture
  <2> QED BY <2>2, <2>3
<1>4. written' = [written EXCEPT ![s] = @ \o chunk] /\ written' \in [Streams -> Seq(Lines)]
  BY <1>2 DEF Write, RunnerType
<1>5. UNCHANGED <<context, process, exit, result>> /\ process = "running"
  BY DEF Write
<1>6. CASE Copying(s)
  <2> DEFINE n == IF Len(chunk) < Limit - Used THEN Len(chunk) ELSE Limit - Used
  <2>1. /\ captured' = [captured EXCEPT ![s] = @ \o Kept(chunk)]
        /\ exceeded' = (exceeded \/ Len(chunk) > Limit - Used)
    BY <1>6 DEF Write
  <2>2. n \in 0..Len(chunk) /\ n =< Limit - Used
    BY <1>1, <1>3
  <2>3. Kept(chunk) = SubSeq(chunk, 1, n)
    BY DEF Kept
  <2>4. Kept(chunk) \in Seq(Lines) /\ Len(Kept(chunk)) = n
    BY <2>2, <2>3
  <2>5. captured' \in [Streams -> Seq(Lines)]
    BY <2>1, <2>4, <1>2 DEF RunnerType
  <2>6. Used' = Used + n
    <3>1. PICK kept \in Seq(Lines) : kept = Kept(chunk) /\ Len(kept) = n
      BY <2>4
    <3>2. captured' = [captured EXCEPT ![s] = @ \o kept] /\ captured \in [Streams -> Seq(Lines)]
      BY <2>1, <3>1 DEF RunnerType
    <3> HIDE DEF n
    <3>3. CASE s = "stdout"
      BY <3>1, <3>2, <3>3 DEF Used, Streams
    <3>4. CASE s = "stderr"
      BY <3>1, <3>2, <3>4 DEF Used, Streams
    <3> QED BY <3>3, <3>4, <1>2
  <2>7. Used' =< Limit
    BY <2>2, <2>6, <1>1, <1>3
  <2>8. ~exceeded' => captured' = written'
    <3>1. SUFFICES ASSUME ~exceeded' PROVE captured' = written'
      OBVIOUS
    <3>2. ~exceeded /\ captured = written
      BY <3>1, <2>1 DEF Capture
    <3>4. ~(Len(chunk) > Limit - Used)
      BY <3>1, <2>1
    <3>5. n = Len(chunk)
      BY <3>4, <1>1, <1>3
    <3>3. Kept(chunk) = chunk
      BY <3>5, <2>3
    <3> QED BY <3>2, <3>3, <2>1, <1>4
  <2>9. exceeded' \in BOOLEAN
    BY <2>1 DEF RunnerType
  <2>10. RunnerType'
    BY <2>5, <2>9, <1>4, <1>5 DEF RunnerType
  <2>11. process' = "running" /\ result' = "none"
    BY <1>5 DEF Capture
  <2> QED BY <2>7, <2>8, <2>10, <2>11 DEF Capture
<1>7. CASE ~Copying(s)
  <2>1. UNCHANGED <<captured, exceeded>>
    BY <1>7 DEF Write
  <2>2. exceeded
    BY <1>7 DEF Copying, Capture
  <2>3. process' = "running" /\ result' = "none" /\ Used' = Used /\ exceeded'
    BY <2>1, <2>2, <1>5 DEF Capture, Used
  <2>4. RunnerType'
    BY <2>1, <1>4, <1>5 DEF RunnerType
  <2> QED BY <2>3, <2>4, <1>3 DEF Capture
<1> QED BY <1>6, <1>7

(* A marker once written stays written. *)
LEMMA MarkerStays ==
  ASSUME RunnerType, NEW s \in Streams, NEW chunk \in Seq(Lines), Write(s, chunk),
         Has(Markers, written["stderr"])
  PROVE  Has(Markers, written'["stderr"])
<1>1. written["stderr"] \in Seq(Lines) /\ "stderr" \in Streams
  BY DEF RunnerType, Streams
<1>2. written' = [written EXCEPT ![s] = @ \o chunk]
  BY DEF Write
<1>3. PICK i \in DOMAIN written["stderr"] : written["stderr"][i] \in Markers
  BY DEF Has
<1>4. CASE s = "stderr"
  <2>1. written'["stderr"] = written["stderr"] \o chunk
    BY <1>2, <1>4, <1>1 DEF RunnerType
  <2>2. i \in DOMAIN (written["stderr"] \o chunk)
        /\ (written["stderr"] \o chunk)[i] = written["stderr"][i]
    BY <1>1, <1>3
  <2> QED BY <2>1, <2>2, <1>3 DEF Has
<1>5. CASE s # "stderr"
  BY <1>2, <1>5, <1>3, <1>1 DEF RunnerType, Has
<1> QED BY <1>4, <1>5

-----------------------------------------------------------------------------
LEMMA CallInitially == Init => CallInv
<1> SUFFICES ASSUME Init PROVE CallInv
  OBVIOUS
<1>1. captured = Nothing /\ written = Nothing /\ ~exceeded /\ result = "none" /\ process = "none"
  BY DEF Init, RunnerInit
<1>2. RunnerType /\ CallType
  <2>1. exceeded \in BOOLEAN
    BY DEF Init, RunnerInit
  <2>2. written \in [Streams -> Seq(Lines)] /\ captured \in [Streams -> Seq(Lines)]
    BY <1>1 DEF Nothing
  <2> QED BY <2>1, <2>2 DEF Init, RunnerInit, RunnerType, CallType, Contexts
<1>3. Used =< Limit
  BY <1>1, LimitAssumption DEF Used, Nothing, Streams
<1>4. Capture
  BY <1>1, <1>3 DEF Capture
<1>5. Accounted
  BY DEF Init, RunnerInit, Accounted
<1> QED BY <1>2, <1>4, <1>5 DEF CallInv

(* Steps that neither write nor touch what was captured. *)
LEMMA KeepsCapture ==
  ASSUME CallInv, UNCHANGED <<written, captured, exceeded>>,
         context' \in Contexts,
         process' \in {"none", "running", "ended"},
         exit' \in {"none", "zero", "nonzero", "signal"},
         result' \in {"none", "ok", "failed", "not-found", "context", "limit"},
         result' \notin {"none", "limit"} => ~exceeded,
         process' = "none" => process = "none",
         process' = "running" => result' = "none"
  PROVE  RunnerType' /\ Capture'
<1>1. Used' = Used
  BY DEF Used
<1>2. RunnerType'
  BY DEF CallInv, RunnerType
<1>3. Capture'
  BY <1>1 DEF CallInv, Capture
<1> QED BY <1>2, <1>3

(* A write to either stream keeps the account of who started the provider. *)
LEMMA WriteAccounted ==
  ASSUME CallInv, NEW s \in Streams, NEW chunk \in Seq(Lines), Write(s, chunk),
         UNCHANGED <<phase, starts>>
  PROVE  CallInv'
<1>1. RunnerType' /\ Capture'
  BY WriteCaptures DEF CallInv
<1>2. process = "running" /\ UNCHANGED <<process, result>>
  BY DEF Write
<1>3. Has(Markers, written["stderr"]) => Has(Markers, written'["stderr"])
  BY MarkerStays DEF CallInv
<1>4. Accounted'
  BY <1>2, <1>3 DEF CallInv, Accounted
<1> QED BY <1>1, <1>4 DEF CallInv, CallType

LEMMA Singletons == ASSUME NEW line \in Lines PROVE <<line>> \in Seq(Lines)
  OBVIOUS

LEMMA CallSteps == CallInv /\ [Next]_vars => CallInv'
<1> SUFFICES ASSUME CallInv, [Next]_vars PROVE CallInv'
  OBVIOUS
<1> USE DEF Contexts
<1>1. CASE Prepare
  <2>1. UNCHANGED runner /\ phase = "prepare" /\ phase' \in {"pool", "done"} /\ starts' = starts
    BY <1>1 DEF Prepare, Finish
  <2>2. RunnerType' /\ Capture'
    BY <2>1, KeepsCapture DEF runner, CallInv, RunnerType, Capture
  <2>3. Accounted'
    BY <2>1 DEF CallInv, Accounted, runner
  <2> QED BY <2>1, <2>2, <2>3 DEF CallInv, CallType
<1>2. CASE StartPool
  <2>1. /\ phase = "pool" /\ UNCHANGED <<phase, starts, written, captured, exceeded, context, exit>>
        /\ process = "none"
        /\ \/ process' = "running" /\ result' = "none"
           \/ process' = "none" /\ result' \in {"not-found", "context"}
    BY <1>2 DEF StartPool, StartProcess, NotStarted, call
  <2>2. RunnerType' /\ Capture'
    BY <2>1, KeepsCapture DEF CallInv, RunnerType, Capture
  <2>3. Accounted'
    BY <2>1 DEF CallInv, Accounted
  <2> QED BY <2>1, <2>2, <2>3 DEF CallInv, CallType
<1>3. CASE CommandReturns
  <2>1. /\ UNCHANGED <<phase, starts, written, captured, exceeded, context, exit, process>>
        /\ process = "ended"
        /\ result' \in {"ok", "failed", "context", "limit"}
        /\ result' # "limit" => ~exceeded
    BY <1>3 DEF CommandReturns, Return, call
  <2>2. RunnerType' /\ Capture'
    BY <2>1, KeepsCapture DEF CallInv, RunnerType, Capture
  <2>3. Accounted'
    BY <2>1 DEF CallInv, Accounted
  <2> QED BY <2>1, <2>2, <2>3 DEF CallInv, CallType
<1>4. CASE PoolAnswered \/ DirectAnswered
  <2>1. UNCHANGED runner /\ phase' = "done" /\ starts' = starts
    BY <1>4 DEF PoolAnswered, DirectAnswered, Finish
  <2>2. RunnerType' /\ Capture'
    BY <2>1, KeepsCapture DEF runner, CallInv, RunnerType, Capture
  <2>3. Accounted'
    BY <2>1 DEF CallInv, Accounted, runner
  <2> QED BY <2>1, <2>2, <2>3 DEF CallInv, CallType
<1>5. CASE FallBack
  \* The pool did not start the provider: its marker would have been captured.
  <2>1. /\ phase = "pool" /\ result \notin {"none", "limit"} /\ ~Captured(Markers)
        /\ phase' = "direct" /\ starts' = starts
        /\ process' = "none" /\ exit' = "none" /\ result' = "none"
        /\ written' = Nothing /\ captured' = Nothing /\ ~exceeded' /\ context' = "live"
        /\ exceeded' \in BOOLEAN
    BY <1>5 DEF FallBack, PoolMayHaveStarted
  <2>2. captured = written
    BY <2>1 DEF CallInv, Capture
  <2>3. ~Has(Markers, written["stderr"])
    BY <2>1, <2>2 DEF Captured, Streams
  <2>4. starts = 0
    BY <2>1, <2>3 DEF CallInv, Accounted
  <2>5. RunnerType'
    BY <2>1 DEF RunnerType, Nothing, Streams
  <2>6. Capture'
    BY <2>1, LimitAssumption DEF Capture, Used, Nothing, Streams
  <2>7. Accounted'
    BY <2>1, <2>4 DEF Accounted
  <2> QED BY <2>1, <2>5, <2>6, <2>7 DEF CallInv, CallType
<1>6. CASE StartDirect
  <2>1. /\ phase = "direct" /\ UNCHANGED <<phase, written, captured, exceeded, context, exit>>
        /\ process = "none"
        /\ \/ process' = "running" /\ result' = "none" /\ starts' = starts + 1
           \/ process' = "none" /\ result' \in {"not-found", "context"} /\ starts' = starts
    BY <1>6 DEF StartDirect, StartProcess, NotStarted
  <2>2. starts = 0
    BY <2>1 DEF CallInv, Accounted
  <2>3. RunnerType' /\ Capture'
    BY <2>1, KeepsCapture DEF CallInv, RunnerType, Capture
  <2>4. Accounted' /\ starts' \in Nat
    BY <2>1, <2>2 DEF CallInv, Accounted
  <2> QED BY <2>1, <2>3, <2>4 DEF CallInv, CallType
<1>7. CASE PoolSays
  <2>1. PICK line \in Markers \cup {"refusal", "warning"} : Write("stderr", <<line>>)
    BY <1>7 DEF PoolSays
  <2>2. line \in Lines
    BY DEF Lines
  <2>3. "stderr" \in Streams /\ <<line>> \in Seq(Lines)
    BY <2>2 DEF Streams
  <2> QED BY <1>7, <2>1, <2>3, WriteAccounted DEF PoolSays, call
<1>8. CASE StartPooled
  <2>1. /\ UNCHANGED runner /\ phase = "pool" /\ phase' = phase /\ starts' = 1
        /\ process = "running" /\ Has(Markers, written["stderr"])
    BY <1>8 DEF StartPooled
  <2>2. RunnerType' /\ Capture'
    BY <2>1, KeepsCapture DEF runner, CallInv, RunnerType, Capture
  <2>3. Accounted'
    BY <2>1 DEF CallInv, Accounted, runner
  <2> QED BY <2>1, <2>2, <2>3 DEF CallInv, CallType
<1>9. CASE PoolExits \/ PoolExitsZero \/ ProviderExits \/ KillCommand
  <2>1. /\ UNCHANGED <<phase, starts, written, captured, exceeded, context, result>>
        /\ process' = "ended" /\ process = "running"
        /\ exit' \in {"zero", "nonzero", "signal"}
    BY <1>9 DEF PoolExits, PoolExitsZero, ProviderExits, KillCommand, Kill, Exit, call
  <2>2. RunnerType' /\ Capture'
    BY <2>1, KeepsCapture DEF CallInv, RunnerType, Capture
  <2>3. Accounted'
    BY <2>1 DEF CallInv, Accounted
  <2> QED BY <2>1, <2>2, <2>3 DEF CallInv, CallType
<1>10. CASE RunOn \/ AbandonTurn \/ Returned \/ UNCHANGED vars
  <2>1. UNCHANGED runner /\ UNCHANGED <<phase, starts>>
    BY <1>10 DEF RunOn, AbandonTurn, Returned, vars, call
  <2>2. RunnerType' /\ Capture'
    BY <2>1, KeepsCapture DEF runner, CallInv, RunnerType, Capture
  <2>3. Accounted'
    BY <2>1 DEF CallInv, Accounted, runner
  <2> QED BY <2>1, <2>2, <2>3 DEF CallInv, CallType
<1>11. CASE BeginTurn \/ EndTurn \/ Report
  <2>1. PICK chunk \in Seq(Lines) : Write("stdout", chunk)
    <3>1. CASE BeginTurn
      <4>1. <<"turn.started">> \in Seq(Lines)
        BY Singletons DEF Lines
      <4> QED BY <3>1, <4>1 DEF BeginTurn
    <3>2. CASE EndTurn
      <4>1. PICK line \in Endings : Write("stdout", <<line>>)
        BY <3>2 DEF EndTurn
      <4>2. <<line>> \in Seq(Lines)
        BY Singletons DEF Lines
      <4> QED BY <4>1, <4>2
    <3>3. CASE Report
      <4>1. <<"quoting item">> \in Seq(Lines) /\ <<"long item">> \in Seq(Lines)
            /\ <<"garbage">> \in Seq(Lines) /\ <<"item", "item">> \in Seq(Lines)
        <5>1. {"quoting item", "long item", "garbage", "item"} \subseteq Lines
          BY DEF Lines
        <5>2. \A line \in Lines : <<line, line>> \in Seq(Lines)
          OBVIOUS
        <5> QED BY <5>1, <5>2, Singletons
      <4> QED BY <3>3, <4>1 DEF Report
    <3> QED BY <1>11, <3>1, <3>2, <3>3
  <2>2. "stdout" \in Streams
    BY DEF Streams
  <2>3. UNCHANGED <<phase, starts>>
    BY <1>11 DEF BeginTurn, EndTurn, Report, call
  <2> QED BY <2>1, <2>2, <2>3, WriteAccounted
<1>12. CASE Interrupt
  <2>1. /\ UNCHANGED <<phase, starts, written, captured, exceeded, process, exit, result>>
        /\ context' \in Contexts
    BY <1>12 DEF Interrupt, EndContext, call
  <2>2. RunnerType' /\ Capture'
    BY <2>1, KeepsCapture DEF CallInv, RunnerType, Capture
  <2>3. Accounted'
    BY <2>1 DEF CallInv, Accounted
  <2> QED BY <2>1, <2>2, <2>3 DEF CallInv, CallType
<1>13. CASE PipesClose
  <2>1. UNCHANGED <<phase, starts, written, captured, exceeded, context, process, exit, result>>
    BY <1>13 DEF PipesClose, LetGo, call
  <2>2. RunnerType' /\ Capture'
    BY <2>1, KeepsCapture DEF CallInv, RunnerType, Capture
  <2>3. Accounted'
    BY <2>1 DEF CallInv, Accounted
  <2> QED BY <2>1, <2>2, <2>3 DEF CallInv, CallType
<1> QED
  BY <1>1, <1>2, <1>3, <1>4, <1>5, <1>6, <1>7, <1>8, <1>9, <1>10, <1>11, <1>12, <1>13 DEF Next

LEMMA CallInvariant == Spec => []CallInv
<1>1. Init => CallInv
  BY CallInitially
<1>2. CallInv /\ [Next]_vars => CallInv'
  BY CallSteps
<1> QED BY <1>1, <1>2, PTL DEF Spec

(* boundedCapture keeps its bound and drops nothing that Run would not     *)
(* report: for every limit and every output.                               *)
THEOREM CaptureIsFaithful == Spec => []CaptureFaithful
<1>1. CallInv => CaptureFaithful
  BY DEF CallInv, Capture, CaptureFaithful
<1> QED BY <1>1, CallInvariant, PTL

(* Codex.run starts the provider at most once, through the pool or         *)
(* directly: for every limit, every output and every way the pool can fail.*)
THEOREM ProviderStartedOnce == Spec => []StartedAtMostOnce
<1>1. CallInv => StartedAtMostOnce
  BY DEF CallInv, Accounted, StartedAtMostOnce
<1> QED BY <1>1, CallInvariant, PTL

-----------------------------------------------------------------------------
(* Reading the transcript: what the loop of codexUsage computes for every  *)
(* transcript, however long.                                               *)

(* Induction up to n, for sets: a least element outside S would have a     *)
(* predecessor outside S.                                                  *)
LEMMA Induction ==
  ASSUME NEW n \in Nat, NEW S, 0 \in S, \A i \in 1..n : i - 1 \in S => i \in S
  PROVE  0..n \subseteq S
<1> DEFINE T == {i \in 0..n : i \notin S}
<1>1. SUFFICES ASSUME T # {} PROVE FALSE
  OBVIOUS
<1>2. T \subseteq Nat
  OBVIOUS
<1>3. PICK x \in T : \A y \in T : <<y, x>> \notin OpToRel(<, Nat)
  BY <1>1, <1>2, WFMin, NatLessThanWellFounded
<1>4. \A y \in T : ~(y < x)
  BY <1>2, <1>3 DEF OpToRel
<1>5. x \in 0..n /\ x \notin S
  BY <1>3
<1>6. x \in 1..n /\ x - 1 \in 0..n /\ x - 1 < x
  <2>1. x # 0
    BY <1>5
  <2> QED BY <1>5, <2>1
<1>7. x - 1 \in S
  BY <1>4, <1>6
<1> QED BY <1>5, <1>6, <1>7

Tallies == [open : BOOLEAN, completed : Nat, sum : Nat, missing : BOOLEAN, void : BOOLEAN]

(* One line leaves a tally a tally. *)
LEMMA TallyType ==
  ASSUME NEW t \in Tallies, NEW line \in Lines
  PROVE  Tally(t, line) \in Tallies
<1>1. /\ t.completed + 1 \in Nat /\ t.sum + 1 \in Nat
      /\ t.completed \in Nat /\ t.sum \in Nat
  BY DEF Tallies
<1>2. CASE line \in {"garbage", "turn.failed"}
  BY <1>2 DEF Tally, Tallies
<1>3. CASE line = "turn.started"
  BY <1>3 DEF Tally, Tallies
<1>4. CASE line = "turn.completed"
  <2>1. PICK void \in BOOLEAN, missing \in BOOLEAN :
          Tally(t, line) = [t EXCEPT !.open = FALSE, !.completed = @ + 1, !.sum = @ + 1,
                                     !.void = void, !.missing = missing]
    BY <1>4, Zenon DEF Tally
  <2>2. \A c \in Nat, d \in Nat :
          [t EXCEPT !.open = FALSE, !.completed = c, !.sum = d, !.void = void,
                    !.missing = missing] \in Tallies
    BY DEF Tallies
  <2> QED BY <1>1, <2>1, <2>2, ZenonT(40)
<1>5. CASE line = "turn.completed without usage"
  <2>1. PICK void \in BOOLEAN, missing \in BOOLEAN :
          Tally(t, line) = [t EXCEPT !.open = FALSE, !.completed = @ + 1,
                                     !.void = void, !.missing = missing]
    BY <1>5, Zenon DEF Tally
  <2>2. \A c \in Nat :
          [t EXCEPT !.open = FALSE, !.completed = c, !.void = void, !.missing = missing]
            \in Tallies
    BY DEF Tallies
  <2> QED BY <1>1, <2>1, <2>2
<1>6. CASE line \notin {"garbage", "turn.failed", "turn.started", "turn.completed",
                        "turn.completed without usage"}
  BY <1>6 DEF Tally
<1> QED BY <1>2, <1>3, <1>4, <1>5, <1>6

(* The recursion of Tallied is well defined: every prefix has a tally. *)
LEMMA TalliedSteps ==
  ASSUME NEW s \in Seq(Lines)
  PROVE  /\ Tallied(s)[0] = NewTally
         /\ \A i \in 1..Len(s) : Tallied(s)[i] = Tally(Tallied(s)[i - 1], s[i])
         /\ \A i \in 0..Len(s) : Tallied(s)[i] \in Tallies
<1> DEFINE n == Len(s)
           Step(g, i) == IF i = 0 THEN NewTally ELSE Tally(g[i - 1], s[i])
           Prefix(k) == {g \in [0..k -> Tallies] : \A i \in 0..k : g[i] = Step(g, i)}
           S == {k \in 0..n : Prefix(k) # {}}
<1>1. n \in Nat /\ NewTally \in Tallies /\ \A i \in 1..n : s[i] \in Lines
  BY DEF NewTally, Tallies
<1>2. 0 \in S
  <2>1. [i \in 0..0 |-> NewTally] \in Prefix(0)
    BY <1>1
  <2> QED BY <1>1, <2>1
<1>3. ASSUME NEW k \in 1..n, k - 1 \in S PROVE k \in S
  <2>1. PICK g \in Prefix(k - 1) : TRUE
    BY <1>3
  <2> DEFINE next == Tally(g[k - 1], s[k])
             h == [i \in 0..k |-> IF i = k THEN next ELSE g[i]]
  <2>2. k - 1 \in 0..(k - 1) /\ 0..k = (0..(k - 1)) \cup {k} /\ k \notin 0..(k - 1)
    BY <1>1
  <2>3. g \in [0..(k - 1) -> Tallies] /\ \A i \in 0..(k - 1) : g[i] = Step(g, i)
    BY <2>1
  <2>4. next \in Tallies
    BY <1>1, <2>2, <2>3, TallyType
  <2>5. h \in [0..k -> Tallies]
    <3> HIDE DEF next
    <3> QED BY <2>2, <2>3, <2>4
  <2>6. ASSUME NEW i \in 0..k PROVE h[i] = Step(h, i)
    <3>1. CASE i = k
      <4>1. h[i] = next /\ h[i - 1] = g[k - 1] /\ i # 0
        BY <2>2, <3>1
      <4> QED BY <3>1, <4>1
    <3>2. CASE i # k
      <4>1. i \in 0..(k - 1) /\ h[i] = g[i] /\ (i # 0 => h[i - 1] = g[i - 1])
        BY <2>2, <3>2
      <4>2. g[i] = Step(g, i)
        BY <2>3, <4>1
      <4>3. Step(h, i) = Step(g, i)
        BY <4>1
      <4> QED BY <4>1, <4>2, <4>3
    <3> QED BY <3>1, <3>2
  <2>7. h \in Prefix(k)
    <3> HIDE DEF h, Step
    <3> QED BY <2>5, <2>6
  <2>8. k \in 0..n
    BY <1>1
  <2> HIDE DEF Prefix
  <2> QED BY <2>7, <2>8
<1>4. n \in S
  <2> HIDE DEF S
  <2>1. 0..n \subseteq S
    BY <1>1, <1>2, <1>3, Induction
  <2> QED BY <1>1, <2>1
<1>5. PICK g \in Prefix(n) : TRUE
  BY <1>4
<1>6. g = [i \in 0..n |-> Step(g, i)]
  <2> HIDE DEF Step
  <2> QED BY <1>5
<1>7. Tallied(s) = CHOOSE h : h = [i \in 0..n |-> Step(h, i)]
  BY DEF Tallied
<1>8. Tallied(s) = [i \in 0..n |-> Step(Tallied(s), i)]
  <2> HIDE DEF Step
  <2> QED BY <1>6, <1>7
<1>9. \A i \in 0..n : Tallied(s)[i] = Step(Tallied(s), i)
  <2> HIDE DEF Step
  <2> QED BY <1>8
<1>10. \A i \in 0..n : Tallied(s)[i] \in Tallies
  <2> DEFINE R == {i \in 0..n : Tallied(s)[i] \in Tallies}
  <2>1. 0 \in R
    BY <1>1, <1>9
  <2>2. ASSUME NEW i \in 1..n, i - 1 \in R PROVE i \in R
    <3>1. Tallied(s)[i] = Tally(Tallied(s)[i - 1], s[i])
      BY <1>9
    <3> QED BY <1>1, <2>2, <3>1, TallyType
  <2> HIDE DEF R
  <2>3. 0..n \subseteq R
    BY <1>1, <2>1, <2>2, Induction
  <2> QED BY <2>3 DEF R
<1> QED BY <1>1, <1>9, <1>10

(* The turns a transcript begins with: those of its first n lines. *)
Turns(s, n) == {j \in 1..n : s[j] = "turn.started"}
Begun(s) == Cardinality(Turns(s, Len(s)))

(* One line more is one turn more, or none. *)
LEMMA TurnsStep ==
  ASSUME NEW s, NEW n \in Nat
  PROVE  /\ IsFiniteSet(Turns(s, n)) /\ Cardinality(Turns(s, n)) \in Nat
         /\ s[n + 1] = "turn.started" =>
              Cardinality(Turns(s, n + 1)) = Cardinality(Turns(s, n)) + 1
         /\ s[n + 1] # "turn.started" => Turns(s, n + 1) = Turns(s, n)
<1>1. IsFiniteSet(Turns(s, n)) /\ Cardinality(Turns(s, n)) \in Nat
  <2>1. IsFiniteSet(1..n) /\ Turns(s, n) \subseteq 1..n
    BY FS_Interval DEF Turns
  <2> QED BY <2>1, FS_Subset, FS_CardinalityType
<1>2. CASE s[n + 1] = "turn.started"
  <2>1. Turns(s, n + 1) = Turns(s, n) \cup {n + 1} /\ n + 1 \notin Turns(s, n)
    BY <1>2 DEF Turns
  <2> QED BY <1>1, <1>2, <2>1, FS_AddElement
<1>3. CASE s[n + 1] # "turn.started"
  <2>1. Turns(s, n + 1) = Turns(s, n)
    BY <1>3 DEF Turns
  <2> QED BY <1>1, <1>3, <2>1
<1> QED BY <1>1, <1>2, <1>3

(* What an unspoilt tally says: each turn that began and is not open was   *)
(* counted.                                                                *)
LEMMA TallyCounts ==
  ASSUME NEW s \in Seq(Lines), NEW n \in 0..Len(s)
  PROVE  LET t == Tallied(s)[n]
         IN ~t.void /\ ~t.missing =>
              t.sum + (IF t.open THEN 1 ELSE 0) = Cardinality(Turns(s, n))
<1> DEFINE Counted(t, i) == ~t.void /\ ~t.missing =>
             t.sum + (IF t.open THEN 1 ELSE 0) = Cardinality(Turns(s, i))
           S == {i \in 0..Len(s) : Counted(Tallied(s)[i], i)}
<1>1. Len(s) \in Nat /\ \A i \in 1..Len(s) : s[i] \in Lines
  OBVIOUS
<1>2. 0 \in S
  <2>1. Cardinality(Turns(s, 0)) = 0
    <3>1. Turns(s, 0) = {}
      BY DEF Turns
    <3> QED BY <3>1, FS_EmptySet
  <2>2. Tallied(s)[0].sum = 0 /\ Tallied(s)[0].open = FALSE
    BY TalliedSteps DEF NewTally
  <2> QED BY <1>1, <2>1, <2>2
<1>3. ASSUME NEW i \in 1..Len(s), i - 1 \in S PROVE i \in S
  <2> DEFINE t == Tallied(s)[i - 1]
             u == Tallied(s)[i]
             before == Cardinality(Turns(s, i - 1))
             after == Cardinality(Turns(s, i))
  <2>1. i - 1 \in 0..Len(s) /\ i - 1 \in Nat /\ (i - 1) + 1 = i
    BY <1>1
  <2>2. t \in Tallies /\ u \in Tallies /\ u = Tally(t, s[i])
    BY <1>1, <2>1, TalliedSteps
  <2>3. /\ before \in Nat
        /\ s[i] = "turn.started" => after = before + 1
        /\ s[i] # "turn.started" => after = before
    BY <2>1, TurnsStep
  <2>4. ~t.void /\ ~t.missing => t.sum + (IF t.open THEN 1 ELSE 0) = before
    BY <1>3
  <2> HIDE DEF t, u, before, after
  <2>5. ASSUME ~u.void, ~u.missing PROVE u.sum + (IF u.open THEN 1 ELSE 0) = after
    <3>1. CASE s[i] \in {"garbage", "turn.failed"}
      BY <2>2, <2>5, <3>1 DEF Tally, Tallies
    <3>2. CASE s[i] = "turn.started"
      <4>1. u = [t EXCEPT !.open = TRUE, !.void = @ \/ t.open]
        BY <2>2, <3>2 DEF Tally
      <4>2. ~t.void /\ ~t.open /\ ~t.missing /\ u.open /\ u.sum = t.sum
        BY <2>2, <2>5, <4>1 DEF Tallies
      <4> QED BY <2>2, <2>3, <2>4, <3>2, <4>2 DEF Tallies
    <3>3. CASE s[i] = "turn.completed"
      <4>1. u = [t EXCEPT !.open = FALSE, !.completed = @ + 1, !.sum = @ + 1,
                          !.void = @ \/ ~t.open, !.missing = @ \/ t.sum + 1 > MaxCount]
        BY <2>2, <3>3 DEF Tally
      <4>2. ~t.void /\ t.open /\ ~t.missing /\ ~u.open /\ u.sum = t.sum + 1
        BY <2>2, <2>5, <4>1 DEF Tallies
      <4> QED BY <2>2, <2>3, <2>4, <3>3, <4>2 DEF Tallies
    <3>4. CASE s[i] = "turn.completed without usage"
      <4>1. u.missing
        BY <2>2, <3>4 DEF Tally, Tallies
      <4> QED BY <2>5, <4>1
    <3>5. CASE s[i] \notin {"garbage", "turn.failed", "turn.started", "turn.completed",
                            "turn.completed without usage"}
      <4>1. u = t
        BY <2>2, <3>5 DEF Tally
      <4>2. s[i] # "turn.started" /\ after = before
        BY <2>3, <3>5
      <4> QED BY <2>4, <2>5, <4>1, <4>2
    <3> QED BY <3>1, <3>2, <3>3, <3>4, <3>5
  <2>6. Counted(u, i)
    BY <2>5 DEF after
  <2> HIDE DEF Counted
  <2> QED BY <2>6 DEF u
<1>4. 0..Len(s) \subseteq S
  <2> HIDE DEF S
  <2> QED BY <1>1, <1>2, <1>3, Induction
<1> QED BY <1>4

-----------------------------------------------------------------------------
(* What a call reports: that a provider ran, and what it spent.            *)

(* The provider's record.  Its turns are those of what was written, until  *)
(* it runs on alone; a pool that ends with zero pinned an account only for *)
(* a provider that has ended; and what a finished call says is final.      *)
Provided ==
  /\ provider \in {"none", "idle", "turn", "ended"}
  /\ begun \in Nat /\ spent = begun
  /\ starts = 0 <=> provider = "none"
  /\ starts = 0 => begun = 0
  /\ provider \notin {"idle", "turn"} \/ process = "running" =>
       begun = Begun(written["stdout"])
  /\ starts = 0 => written["stdout"] = <<>>
  /\ phase = "direct" /\ process # "none" => starts # 0
  /\ phase = "direct" /\ process = "ended" => provider = "ended"
  /\ phase = "pool" /\ process = "ended" /\ exit = "zero" =>
       provider = "ended" \/ ~Has({"pooled marker"}, written["stderr"])
  /\ result = "ok" => process = "ended" /\ exit = "zero"
  /\ phase = "done" => process # "running"

Reported ==
  /\ phase # "done" => outcome = Pending
  /\ outcome.status = "ok" =>
       /\ starts = 1 /\ provider = "ended"
       /\ outcome.tokens # Unknown => outcome.tokens = spent
       /\ ~Has({"long item"}, captured["stdout"]) => outcome.turns = begun
  /\ outcome.status # "ok" => outcome.tokens = Unknown

RanInv == Provided /\ Reported

(* A transcript that goes on begins no turn, or the one it says.           *)
LEMMA BegunGrows ==
  ASSUME NEW s \in Seq(Lines), NEW chunk \in Seq(Lines)
  PROVE  /\ (\A i \in DOMAIN chunk : chunk[i] # "turn.started") => Begun(s \o chunk) = Begun(s)
         /\ chunk = <<"turn.started">> => Begun(s \o chunk) = Begun(s) + 1
<1> DEFINE w == s \o chunk
<1>1. /\ Len(s) \in Nat /\ Len(chunk) \in Nat /\ Len(w) = Len(s) + Len(chunk)
      /\ \A i \in 1..Len(s) : w[i] = s[i]
      /\ \A i \in 1..Len(chunk) : w[Len(s) + i] = chunk[i]
  OBVIOUS
<1> HIDE DEF w
<1>2. Turns(w, Len(s)) = Turns(s, Len(s))
  BY <1>1 DEF Turns
<1>3. ASSUME \A i \in DOMAIN chunk : chunk[i] # "turn.started"
      PROVE  Begun(w) = Begun(s)
  <2>1. \A j \in 1..Len(w) : w[j] = "turn.started" => j \in 1..Len(s)
    <3> SUFFICES ASSUME NEW j \in 1..Len(w), j \notin 1..Len(s)
                 PROVE  w[j] # "turn.started"
      OBVIOUS
    <3>1. j - Len(s) \in 1..Len(chunk) /\ w[Len(s) + (j - Len(s))] = chunk[j - Len(s)]
      BY <1>1, SMTT(20)
    <3> QED BY <1>1, <1>3, <3>1
  <2>2. Turns(w, Len(w)) = Turns(w, Len(s))
    BY <1>1, <2>1 DEF Turns
  <2> QED BY <1>2, <2>2 DEF Begun
<1>4. ASSUME chunk = <<"turn.started">> PROVE Begun(w) = Begun(s) + 1
  <2>1. Len(w) = Len(s) + 1 /\ w[Len(s) + 1] = "turn.started"
    BY <1>1, <1>4
  <2> QED BY <1>1, <1>2, <2>1, TurnsStep DEF Begun
<1> QED BY <1>3, <1>4 DEF w

LEMMA BegunNothing == Begun(<<>>) = 0
<1>1. Turns(<<>>, 0) = {}
  BY DEF Turns
<1> QED BY <1>1, FS_EmptySet DEF Begun

(* What comes before an index is an index. *)
LEMMA Earlier ==
  ASSUME NEW n \in Nat PROVE \A i \in 1..n : \A j \in 1..i : j \in 1..n
  OBVIOUS

(* Without a long line the scanner of codexTurns reaches every line. *)
LEMMA AllReached ==
  ASSUME NEW s, NEW D, NEW n, D = 1..n, n \in Nat,
         \A i \in D : s[i] # "long item"
  PROVE  {i \in D : s[i] = "turn.started" /\ \A j \in 1..i : s[j] # "long item"} = Turns(s, n)
<1>1. \A i \in D : \A j \in 1..i : j \in D
  BY Earlier, Zenon
<1>2. \A i \in D : \A j \in 1..i : s[j] # "long item"
  BY <1>1, Zenon
<1> QED BY <1>2, Zenon DEF Turns

(* The call ends with an error, or with the report of a provider that ran. *)
LEMMA Finished ==
  ASSUME CallInv, CallInv', RanInv, NEW ok \in BOOLEAN, NEW transport, Finish(ok, transport),
         UNCHANGED runner, process # "running",
         ok => starts = 1 /\ provider = "ended" /\ captured = written
  PROVE  RanInv'
<1> DEFINE w == captured["stdout"]
<1>1. /\ phase' = "done" /\ UNCHANGED <<provider, starts, begun, spent>>
      /\ outcome' = [status |-> IF ok THEN "ok" ELSE "error", transport |-> transport,
                     tokens |-> CodexUsage(ok), turns |-> CodexTurns]
  BY DEF Finish
<1>2. UNCHANGED <<process, exit, written, captured, result>>
  BY DEF runner
<1>3. Provided'
  BY <1>1, <1>2 DEF RanInv, Provided
<1>4. w \in Seq(Lines) /\ "stdout" \in Streams
  BY DEF CallInv, RunnerType, Streams
<1>5. CASE ~ok
  <2>1. outcome'.status = "error" /\ outcome'.tokens = Unknown
    BY <1>1, <1>5 DEF CodexUsage
  <2> QED BY <1>1, <1>3, <2>1 DEF RanInv, Reported
<1>6. CASE ok
  <2>1. starts' = 1 /\ provider' = "ended" /\ outcome'.status = "ok"
    BY <1>1, <1>6
  <2>2. begun = Begun(w) /\ spent = begun
    BY <1>6 DEF RanInv, Provided
  <2>3. outcome'.tokens # Unknown => outcome'.tokens = spent'
    <3> DEFINE t == Tallied(w)[Len(w)]
    <3>1. Len(w) \in 0..Len(w)
      BY <1>4
    <3>2. outcome'.tokens =
            IF ~ok \/ t.void \/ t.open \/ t.completed = 0 \/ t.missing THEN Unknown ELSE t.sum
      BY <1>1 DEF CodexUsage
    <3>3. ~t.void /\ ~t.missing => t.sum + (IF t.open THEN 1 ELSE 0) = Cardinality(Turns(w, Len(w)))
      BY <1>4, <3>1, TallyCounts
    <3>4. t.sum \in Nat
      BY <1>4, <3>1, TalliedSteps DEF Tallies
    <3> HIDE DEF t
    <3>5. ASSUME outcome'.tokens # Unknown PROVE outcome'.tokens = Begun(w)
      <4>1. ~t.void /\ ~t.open /\ ~t.missing /\ outcome'.tokens = t.sum
        BY <3>2, <3>5
      <4>2. t.sum = Cardinality(Turns(w, Len(w)))
        BY <3>3, <3>4, <4>1
      <4> QED BY <4>1, <4>2 DEF Begun
    <3> QED BY <1>1, <2>2, <3>5
  <2>4. ~Has({"long item"}, captured'["stdout"]) => outcome'.turns = begun'
    <3> SUFFICES ASSUME ~Has({"long item"}, w) PROVE CodexTurns = Begun(w)
      BY <1>1, <1>2, <2>2
    <3>1. {i \in DOMAIN w : w[i] = "turn.started" /\ \A j \in 1..i : w[j] # "long item"}
            = Turns(w, Len(w))
      <4>1. \A i \in DOMAIN w : w[i] # "long item"
        BY Zenon DEF Has
      <4>2. DOMAIN w = 1..Len(w) /\ Len(w) \in Nat
        BY <1>4, LenProperties
      <4> QED BY <4>1, <4>2, AllReached
    <3> QED BY <3>1 DEF CodexTurns, Begun
  <2> QED BY <1>1, <1>3, <2>1, <2>3, <2>4 DEF RanInv, Reported
<1> QED BY <1>5, <1>6

LEMMA PendingSaysNothing == Pending.status = "none" /\ Pending.tokens = Unknown
  BY DEF Pending

(* Nothing is reported before the call has finished, and a report stands.  *)
LEMMA NothingReported ==
  ASSUME Reported, UNCHANGED <<phase, outcome>>,
         phase # "done" \/ UNCHANGED <<starts, provider, begun, spent, captured>>
  PROVE  Reported'
<1>1. CASE phase # "done"
  <2>1. outcome = Pending /\ outcome.status = "none" /\ outcome.tokens = Unknown
    BY <1>1, PendingSaysNothing DEF Reported
  <2>2. /\ outcome'.status = "none" /\ outcome'.tokens = Unknown
        /\ phase' # "done" => outcome' = Pending
    BY <2>1 DEF Reported
  <2> QED BY <2>2 DEF Reported
<1>2. CASE UNCHANGED <<starts, provider, begun, spent, captured>>
  BY <1>2 DEF Reported, Pending
<1> QED BY <1>1, <1>2

(* What a provider writes keeps its turns those of its transcript.         *)
LEMMA Writes ==
  ASSUME CallInv, RanInv, NEW chunk \in Seq(Lines), Write("stdout", chunk),
         provider \in {"idle", "turn"}, provider' \in {"idle", "turn"},
         UNCHANGED <<phase, starts, outcome>>,
         \/ begun' = begun /\ spent' = spent /\ \A i \in DOMAIN chunk : chunk[i] # "turn.started"
         \/ begun' = begun + 1 /\ spent' = spent + 1 /\ chunk = <<"turn.started">>
  PROVE  RanInv'
<1> DEFINE out == written["stdout"]
<1>1. process = "running" /\ UNCHANGED <<process, exit, result>>
      /\ written' = [written EXCEPT !["stdout"] = @ \o chunk]
  BY DEF Write
<1>2. written \in [Streams -> Seq(Lines)] /\ "stdout" \in Streams /\ out \in Seq(Lines)
  BY DEF CallInv, RunnerType, Streams
<1>3. written'["stdout"] = out \o chunk
  BY <1>1, <1>2
<1>4. begun = Begun(out) /\ begun \in Nat /\ spent = begun
  BY <1>1 DEF RanInv, Provided
<1>5. begun' = Begun(written'["stdout"]) /\ begun' \in Nat /\ spent' = begun'
  BY <1>2, <1>3, <1>4, BegunGrows
<1>6. phase # "done" /\ starts # 0 /\ result = "none"
  BY <1>1 DEF RanInv, Provided, CallInv, Capture
<1>7. Provided'
  BY <1>1, <1>5, <1>6 DEF RanInv, Provided
<1> QED BY <1>6, <1>7, NothingReported DEF RanInv

(* The head of a transcript is its first line. *)
LEMMA HeadFirst ==
  ASSUME NEW s \in Seq(Lines), s # <<>>
  PROVE  1 \in DOMAIN s /\ s[1] = Head(s)
<1>1. Len(s) \in Nat /\ Len(s) # 0 /\ DOMAIN s = 1..Len(s)
  BY EmptySeq, LenProperties
<1> QED BY <1>1

(* A chunk of one line, or of one line twice, says only that. *)
LEMMA Repeats ==
  ASSUME NEW line \in Lines
  PROVE  /\ <<line>> \in Seq(Lines) /\ \A i \in DOMAIN <<line>> : <<line>>[i] = line
         /\ <<line, line>> \in Seq(Lines)
         /\ \A i \in DOMAIN <<line, line>> : <<line, line>>[i] = line
<1>1. <<line>> \in Seq(Lines) /\ DOMAIN <<line>> = 1..1 /\ <<line>>[1] = line
  OBVIOUS
<1>2. /\ <<line, line>> \in Seq(Lines) /\ DOMAIN <<line, line>> = 1..2
      /\ <<line, line>>[1] = line /\ <<line, line>>[2] = line
  OBVIOUS
<1>3. /\ \A i \in 1..1 : i = 1
      /\ \A i \in 1..2 : i = 1 \/ i = 2
  OBVIOUS
<1> QED BY <1>1, <1>2, <1>3, Zenon

LEMMA RanSteps == CallInv /\ CallInv' /\ RanInv /\ [Next]_vars => RanInv'
<1> SUFFICES ASSUME CallInv, CallInv', RanInv, [Next]_vars PROVE RanInv'
  OBVIOUS
<1>1. CASE Prepare
  <2>1. phase = "prepare" /\ UNCHANGED runner /\ starts = 0 /\ process = "none"
    BY <1>1 DEF Prepare, CallInv, Accounted
  <2>2. CASE phase' = "pool" /\ UNCHANGED <<provider, starts, begun, spent, outcome>>
    <3>1. Provided'
      BY <2>1, <2>2 DEF RanInv, Provided, runner
    <3>2. Reported'
      BY <2>1, <2>2 DEF RanInv, Reported, Pending
    <3> QED BY <3>1, <3>2 DEF RanInv
  <2>3. CASE Finish(FALSE, "none")
    BY <2>1, <2>3, Finished
  <2> QED BY <1>1, <2>2, <2>3 DEF Prepare
<1>2. CASE StartPool
  <2>1. /\ phase = "pool" /\ process = "none" /\ starts = 0
        /\ UNCHANGED <<call, written, captured, exit>>
        /\ \/ process' = "running" /\ result' = result /\ result = "none"
           \/ process' = "none" /\ result' \in {"not-found", "context"}
    BY <1>2 DEF StartPool, StartProcess, NotStarted, CallInv, Accounted
  <2>2. provider = "none" /\ begun = Begun(written["stdout"])
    BY <2>1 DEF RanInv, Provided
  <2>3. Provided'
    BY <2>1, <2>2 DEF RanInv, Provided, call
  <2> QED BY <2>1, <2>3, NothingReported DEF RanInv, call
<1>3. CASE CommandReturns
  <2>1. /\ process = "ended" /\ UNCHANGED <<call, process, exit, written, captured>>
        /\ result' = "ok" => exit = "zero"
    BY <1>3 DEF CommandReturns, Return
  <2>2. Provided'
    BY <2>1 DEF RanInv, Provided, call
  <2> QED BY <2>1, <2>2, NothingReported DEF RanInv, call
<1>4. CASE PoolAnswered
  <2> DEFINE ok == result = "ok" /\ PoolTransport = "pooled"
  <2>1. phase = "pool" /\ result # "none" /\ UNCHANGED runner /\ Finish(ok, PoolTransport)
    BY <1>4 DEF PoolAnswered
  <2>2. process # "running"
    BY <2>1 DEF CallInv, Capture
  <2>3. ASSUME ok PROVE starts = 1 /\ provider = "ended" /\ captured = written
    <3>1. process = "ended" /\ exit = "zero" /\ captured = written
      BY <2>3 DEF RanInv, Provided, CallInv, Capture
    <3>2. captured["stderr"] # <<>> /\ Head(captured["stderr"]) = "pooled marker"
      BY <2>3 DEF PoolTransport
    <3>3. captured["stderr"] \in Seq(Lines)
      BY DEF CallInv, RunnerType, Streams
    <3>4. 1 \in DOMAIN captured["stderr"] /\ captured["stderr"][1] = "pooled marker"
      BY <3>2, <3>3, HeadFirst
    <3>5. Has({"pooled marker"}, written["stderr"])
      BY <3>1, <3>4, Zenon DEF Has
    <3>6. provider = "ended"
      BY <2>1, <3>1, <3>5 DEF RanInv, Provided
    <3>7. starts # 0 /\ starts =< 1 /\ starts \in Nat
      BY <3>6 DEF RanInv, Provided, CallInv, Accounted, CallType
    <3> QED BY <3>1, <3>6, <3>7
  <2>4. ok \in BOOLEAN
    OBVIOUS
  <2> HIDE DEF ok
  <2> QED BY <2>1, <2>2, <2>3, <2>4, Finished
<1>5. CASE DirectAnswered
  <2> DEFINE ok == result = "ok"
  <2>1. phase = "direct" /\ result # "none" /\ UNCHANGED runner /\ Finish(ok, "direct-fallback")
    BY <1>5 DEF DirectAnswered
  <2>2. process # "running"
    BY <2>1 DEF CallInv, Capture
  <2>3. ASSUME ok PROVE starts = 1 /\ provider = "ended" /\ captured = written
    <3>1. process = "ended" /\ captured = written
      BY <2>3 DEF RanInv, Provided, CallInv, Capture
    <3>2. provider = "ended"
      BY <2>1, <3>1 DEF RanInv, Provided
    <3>3. starts # 0 /\ starts =< 1 /\ starts \in Nat
      BY <3>2 DEF RanInv, Provided, CallInv, Accounted, CallType
    <3> QED BY <3>1, <3>2, <3>3
  <2>4. ok \in BOOLEAN
    OBVIOUS
  <2> HIDE DEF ok
  <2> QED BY <2>1, <2>2, <2>3, <2>4, Finished
<1>6. CASE FallBack
  \* The pool did not start the provider: its marker would have been captured.
  <2>1. /\ phase = "pool" /\ result \notin {"none", "limit"} /\ ~Captured(Markers)
        /\ phase' = "direct" /\ UNCHANGED <<provider, starts, begun, spent, outcome>>
        /\ process' = "none" /\ result' = "none" /\ written' = Nothing
    BY <1>6 DEF FallBack, PoolMayHaveStarted
  <2>2. captured = written
    BY <2>1 DEF CallInv, Capture
  <2>3. ~Has(Markers, written["stderr"])
    BY <2>1, <2>2 DEF Captured, Streams
  <2>4. starts = 0 /\ provider = "none" /\ begun = 0 /\ spent = 0
    BY <2>1, <2>3 DEF CallInv, Accounted, RanInv, Provided
  <2>5. written'["stdout"] = <<>>
    BY <2>1 DEF Nothing, Streams
  <2>6. Begun(written'["stdout"]) = 0
    BY <2>5, BegunNothing
  <2>7. Provided'
    BY <2>1, <2>4, <2>5, <2>6 DEF Provided
  <2>8. outcome'.status = "none" /\ outcome'.tokens = Unknown /\ outcome' = Pending
    BY <2>1, PendingSaysNothing DEF RanInv, Reported
  <2>9. Reported'
    BY <2>8 DEF Reported
  <2> QED BY <2>7, <2>9 DEF RanInv
<1>7. CASE StartDirect
  <2>1. /\ phase = "direct" /\ process = "none" /\ starts = 0
        /\ UNCHANGED <<phase, begun, spent, outcome, written, exit>>
        /\ \/ process' = "running" /\ result' = "none" /\ provider' = "idle" /\ starts' = 1
           \/ process' = "none" /\ result' \in {"not-found", "context"}
              /\ UNCHANGED <<provider, starts>>
    BY <1>7 DEF StartDirect, StartProcess, NotStarted, CallInv, Accounted
  <2>2. provider = "none" /\ begun = Begun(written["stdout"])
    BY <2>1 DEF RanInv, Provided
  <2>3. Provided'
    BY <2>1, <2>2 DEF RanInv, Provided
  <2> QED BY <2>1, <2>3, NothingReported DEF RanInv
<1>8. CASE PoolSays
  <2>1. /\ phase = "pool" /\ process = "running" /\ UNCHANGED <<call, process, exit, result>>
        /\ written'["stdout"] = written["stdout"]
    BY <1>8 DEF PoolSays, Write, CallInv, RunnerType, Streams
  <2>2. Provided'
    BY <2>1 DEF RanInv, Provided, call
  <2> QED BY <2>1, <2>2, NothingReported DEF RanInv, call
<1>9. CASE StartPooled
  <2>1. /\ phase = "pool" /\ process = "running" /\ starts = 0 /\ provider' = "idle" /\ starts' = 1
        /\ UNCHANGED <<runner, phase, begun, spent, outcome>>
    BY <1>9 DEF StartPooled
  <2>2. Provided'
    BY <2>1 DEF RanInv, Provided, runner
  <2> QED BY <2>1, <2>2, NothingReported DEF RanInv, runner
<1>10. CASE PoolExits \/ PoolExitsZero
  <2>1. /\ phase = "pool" /\ process = "running" /\ process' = "ended" /\ result = "none"
        /\ UNCHANGED <<call, written, captured, result>>
        /\ exit' = "zero" => ~Has({"pooled marker"}, written["stderr"])
    BY <1>10 DEF PoolExits, PoolExitsZero, Exit, CallInv, Capture
  <2>2. Provided'
    BY <2>1 DEF RanInv, Provided, call
  <2> QED BY <2>1, <2>2, NothingReported DEF RanInv, call
<1>11. CASE ProviderExits
  <2>1. /\ process = "running" /\ process' = "ended" /\ provider' = "ended" /\ provider # "none"
        /\ result = "none" /\ UNCHANGED <<phase, starts, begun, spent, outcome, written, result>>
    BY <1>11 DEF ProviderExits, Exit, CallInv, Capture
  <2>2. phase # "done"
    BY <2>1 DEF RanInv, Provided
  <2>3. Provided'
    BY <2>1, <2>2 DEF RanInv, Provided
  <2> QED BY <2>1, <2>2, <2>3, NothingReported DEF RanInv
<1>12. CASE KillCommand
  <2>1. /\ process = "running" /\ process' = "ended" /\ exit' = "signal" /\ result = "none"
        /\ provider' = IF phase = "direct" THEN "ended" ELSE provider
        /\ UNCHANGED <<phase, starts, begun, spent, outcome, written, result>>
    BY <1>12 DEF KillCommand, Kill, Exit, CallInv, Capture
  <2>2. phase # "done" /\ begun = Begun(written["stdout"])
    BY <2>1 DEF RanInv, Provided
  <2>3. phase = "direct" => starts # 0
    BY <2>1 DEF RanInv, Provided
  <2>4. Provided'
    BY <2>1, <2>2, <2>3 DEF RanInv, Provided
  <2> QED BY <2>1, <2>2, <2>4, NothingReported DEF RanInv
<1>13. CASE RunOn
  <2>1. /\ provider \in {"idle", "turn"} /\ process # "running" /\ begun' = begun + 1
        /\ spent' = spent + 1 /\ UNCHANGED <<runner, phase, provider, starts, outcome>>
    BY <1>13 DEF RunOn
  <2>6. UNCHANGED <<process, exit, result, written>>
    BY <2>1 DEF runner
  <2>7. begun \in Nat /\ spent = begun /\ (starts = 0 <=> provider = "none")
    BY DEF RanInv, Provided
  <2>2. starts # 0 /\ begun' \in Nat /\ begun' = spent'
    BY <2>1, <2>7
  <2>4. Provided'
    BY <2>1, <2>2, <2>6 DEF RanInv, Provided
  <2>5. outcome.status # "ok" /\ outcome.tokens = Unknown
    BY <2>1 DEF RanInv, Reported
  <2>3. Reported'
    BY <2>1, <2>5 DEF RanInv, Reported, Pending
  <2> QED BY <2>3, <2>4 DEF RanInv
<1>14. CASE BeginTurn
  <2>1. /\ provider = "idle" /\ provider' = "turn" /\ Write("stdout", <<"turn.started">>)
        /\ begun' = begun + 1 /\ spent' = spent + 1 /\ UNCHANGED <<phase, starts, outcome>>
    BY <1>14 DEF BeginTurn
  <2>2. <<"turn.started">> \in Seq(Lines)
    BY Singletons DEF Lines
  <2> QED BY <2>1, <2>2, Writes
<1>15. CASE EndTurn
  <2>1. PICK line \in Endings : Write("stdout", <<line>>)
    BY <1>15 DEF EndTurn
  <2>2. <<line>> \in Seq(Lines) /\ \A i \in DOMAIN <<line>> : <<line>>[i] # "turn.started"
    <3>1. line \in Lines /\ line # "turn.started"
      BY DEF Lines, Endings
    <3> QED BY <3>1, Repeats
  <2>3. /\ provider = "turn" /\ provider' = "idle"
        /\ UNCHANGED <<phase, starts, begun, spent, outcome>>
    BY <1>15 DEF EndTurn
  <2> QED BY <2>1, <2>2, <2>3, Writes
<1>16. CASE Report
  <2>1. PICK chunk \in {<<"quoting item">>, <<"long item">>, <<"garbage">>, <<"item", "item">>} :
          Write("stdout", chunk)
    BY <1>16 DEF Report
  <2>2. chunk \in Seq(Lines) /\ \A i \in DOMAIN chunk : chunk[i] # "turn.started"
    <3>1. PICK line \in {"quoting item", "long item", "garbage", "item"} :
            chunk = <<line>> \/ chunk = <<line, line>>
      BY <2>1
    <3>2. line \in Lines /\ line # "turn.started"
      BY DEF Lines
    <3> QED BY <3>1, <3>2, Repeats
  <2>3. provider \in {"idle", "turn"} /\ UNCHANGED call
    BY <1>16 DEF Report
  <2> QED BY <2>1, <2>2, <2>3, Writes DEF call
<1>17. CASE AbandonTurn
  <2>1. /\ provider = "turn" /\ provider' = "idle" /\ process = "running"
        /\ UNCHANGED <<runner, phase, starts, begun, spent, outcome>>
    BY <1>17 DEF AbandonTurn
  <2>2. phase # "done" /\ Provided'
    BY <2>1 DEF RanInv, Provided, runner
  <2> QED BY <2>1, <2>2, NothingReported DEF RanInv
<1>18. CASE Interrupt \/ PipesClose
  <2>1. UNCHANGED <<call, process, exit, written, captured, result>>
    BY <1>18 DEF Interrupt, EndContext, PipesClose, LetGo
  <2>2. Provided'
    BY <2>1 DEF RanInv, Provided, call
  <2> QED BY <2>1, <2>2, NothingReported DEF RanInv, call
<1>19. CASE UNCHANGED vars
  <2>1. UNCHANGED <<call, process, exit, written, captured, result>>
    BY <1>19 DEF vars, runner
  <2>2. Provided'
    BY <2>1 DEF RanInv, Provided, call
  <2> QED BY <2>1, <2>2, NothingReported DEF RanInv, call
<1> QED
  BY <1>1, <1>2, <1>3, <1>4, <1>5, <1>6, <1>7, <1>8, <1>9, <1>10, <1>11, <1>12, <1>13,
     <1>14, <1>15, <1>16, <1>17, <1>18, <1>19 DEF Next, Returned

LEMMA RanInvariant == Spec => []RanInv
<1>1. Init => RanInv
  <2> SUFFICES ASSUME Init PROVE RanInv
    OBVIOUS
  <2>1. /\ phase = "prepare" /\ provider = "none" /\ starts = 0 /\ begun = 0 /\ spent = 0
        /\ outcome = Pending /\ process = "none" /\ result = "none" /\ written["stdout"] = <<>>
    BY DEF Init, RunnerInit, Nothing, Streams
  <2>2. Begun(written["stdout"]) = 0
    BY <2>1, BegunNothing
  <2>3. Provided
    BY <2>1, <2>2 DEF Provided
  <2>4. Reported
    BY <2>1, PendingSaysNothing DEF Reported
  <2> QED BY <2>3, <2>4 DEF RanInv
<1>2. CallInv /\ CallInv' /\ RanInv /\ [Next]_vars => RanInv'
  BY RanSteps
<1> QED BY <1>1, <1>2, CallInvariant, PTL DEF Spec

(* Codex.run returns no error only if a provider was started, once, and    *)
(* has ended, whatever the pool wrote, answered or lost.                   *)
THEOREM SuccessRan == Spec => []SuccessMeansRan
<1>1. RanInv => SuccessMeansRan
  BY DEF RanInv, Reported, SuccessMeansRan
<1> QED BY <1>1, RanInvariant, PTL

(* The tokens codexRunUsage reports are those its provider spent, and the  *)
(* turns codexTurns counts are those it began, for transcripts of every    *)
(* length: no turn that was lost, failed, cut off or run on is passed over.*)
THEOREM UsageIsComplete == Spec => []UsageComplete
<1>1. RanInv => UsageComplete
  <2> SUFFICES ASSUME RanInv PROVE UsageComplete
    OBVIOUS
  <2>1. outcome.tokens # Unknown => outcome.status = "ok"
    BY DEF RanInv, Reported
  <2> QED BY <2>1 DEF RanInv, Reported, UsageComplete
<1> QED BY <1>1, RanInvariant, PTL

-----------------------------------------------------------------------------
(* A Claude call.  What is known of the first attempt is what it cost, and *)
(* the second runs on a remainder that Flag does not take for the default. *)
ClaudeInv ==
  /\ place \in {"ready", "running", "answered", "done"}
  /\ attempt \in {1, 2} /\ budget \in Nat /\ paid \in Nat
  /\ cost \in Nat \cup {Unknown}
  /\ place \in {"ready", "running"} /\ attempt = 1 => paid = 0 /\ budget = MaxBudget
  /\ place = "ready" /\ attempt = 1 => cost = Unknown
  /\ place \in {"ready", "running"} /\ attempt = 2 =>
       cost = paid /\ cost < MaxBudget /\ budget = MaxBudget - cost
  /\ WithinBudget

LEMMA ClaudeSteps == ClaudeInv /\ [Claude!Next]_claudeVars => ClaudeInv'
<1> SUFFICES ASSUME ClaudeInv, [Claude!Next]_claudeVars PROVE ClaudeInv'
  OBVIOUS
<1> USE ClaudeAssumption DEF ClaudeInv, WithinBudget, Claude!WithinBudget
<1>1. CASE Claude!Run
  BY <1>1 DEF Claude!Run, Claude!Flag
<1>2. CASE Claude!Answer
  <2>1. PICK c \in 0..(budget + Overrun) :
          /\ paid' = paid + c
          /\ \E mine \in {Unknown, c} :
               cost' = IF attempt = 1 THEN mine ELSE Claude!Combine(cost, mine)
    BY <1>2, Zenon DEF Claude!Answer
  <2>2. PICK mine \in {Unknown, c} :
          cost' = IF attempt = 1 THEN mine ELSE Claude!Combine(cost, mine)
    BY <2>1
  <2>3. /\ place = "running" /\ place' = "answered" /\ UNCHANGED <<attempt, budget>>
    BY <1>2 DEF Claude!Answer
  <2>4. paid' \in Nat /\ paid' =< MaxBudget + Overrun
    BY <2>1, <2>3
  <2>5. CASE attempt = 1
    BY <2>1, <2>2, <2>3, <2>4, <2>5
  <2>6. CASE attempt = 2
    BY <2>1, <2>2, <2>3, <2>4, <2>6 DEF Claude!Combine
  <2> QED BY <2>5, <2>6
<1>3. CASE Claude!Repair
  BY <1>3 DEF Claude!Repair, Claude!Repairable
<1>4. CASE Claude!Settle
  BY <1>4 DEF Claude!Settle
<1>5. CASE Claude!Returned \/ UNCHANGED claudeVars
  BY <1>5 DEF Claude!Returned, Claude!vars, claudeVars
<1> QED BY <1>1, <1>2, <1>3, <1>4, <1>5 DEF Claude!Next

(* Claude.Review never lets its two attempts cost more than one could, and *)
(* reports a cost only if it is that of both: for every budget and every   *)
(* last turn beyond it.                                                    *)
THEOREM BudgetKept == Claude!Spec => []WithinBudget
<1>1. Claude!Init => ClaudeInv
  BY ClaudeAssumption DEF Claude!Init, ClaudeInv, WithinBudget, Claude!WithinBudget
<1>2. ClaudeInv /\ [Claude!Next]_claudeVars => ClaudeInv'
  BY ClaudeSteps
<1>3. ClaudeInv => WithinBudget
  BY DEF ClaudeInv
<1> QED BY <1>1, <1>2, <1>3, PTL DEF Claude!Spec, Claude!vars, claudeVars
=============================================================================
