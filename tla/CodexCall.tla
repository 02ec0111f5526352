------------------------------ MODULE CodexCall -----------------------------
(***************************************************************************)
(* One call of the Codex backend (Judge, Execute and Review share run):    *)
(* first through the account pool, `bb pool exec`, under a deadline of its *)
(* own; then, only if the pool certainly never started the provider,       *)
(* directly and once.  A started provider spends tokens, whoever started   *)
(* it, and reports them as events on standard output; the pooled one is a  *)
(* child of the host daemon and may run on after `bb` has died.            *)
(*                                                                         *)
(* The pool and the provider are external.  Assumed of them: the pool      *)
(* writes one of its two markers before it starts the provider, and never  *)
(* after a refusal; the provider writes turn.started before a turn spends  *)
(* anything and turn.completed, with the turn's tokens if with any, after. *)
(***************************************************************************)
EXTENDS CommandRunner, FiniteSets

CONSTANTS
  MaxTurns,  \* bound on the turns of a provider
  MaxCount,  \* the largest token count: 2^63 - 1 in the code
  Unknown    \* a token count that is not known

ASSUME CallAssumption ==
  MaxTurns \in Nat /\ MaxCount \in Nat /\ Unknown \notin Nat

VARIABLES
  phase,     \* prepare, pool, direct, done
  provider,  \* none, idle, turn, ended
  starts,    \* how often this call started a provider
  begun,     \* turns the provider began ...
  spent,     \* ... and the tokens they cost
  outcome    \* what run and the metadata built from it say

call == <<phase, provider, starts, begun, spent, outcome>>
vars == <<runner, call>>

Pending == [status |-> "none", transport |-> "none", tokens |-> Unknown, turns |-> 0]

Init ==
  /\ RunnerInit
  /\ phase = "prepare"
  /\ provider = "none"
  /\ starts = 0
  /\ begun = 0
  /\ spent = 0
  /\ outcome = Pending

(* A quoting item is an event whose text contains "connection refused", a  *)
(* long item one of more than 64 KiB, garbage a line that is no event.     *)
Markers == {"pooled marker", "unconfirmed marker"}
Endings == {"turn.completed", "turn.completed without usage", "turn.failed"}
Lines == Markers \cup Endings \cup
  {"refusal", "warning", "turn.started", "item", "quoting item", "long item", "garbage"}
Has(lines, s) == \E i \in DOMAIN s : s[i] \in lines
Captured(lines) == \E s \in Streams : Has(lines, captured[s])

-----------------------------------------------------------------------------
(* Reading the transcript. *)

(* codexUsage's loop body; its enlarged scanner buffer reads long items.   *)
NewTally == [open |-> FALSE, completed |-> 0, sum |-> 0, missing |-> FALSE, void |-> FALSE]

(* Mutant: a turn that never completed is forgotten at the next one. *)
LenientTally(t, line) ==
  CASE line \in {"garbage", "turn.failed"} -> [t EXCEPT !.void = TRUE]
    [] line = "turn.started" -> [t EXCEPT !.open = TRUE]
    [] line = "turn.completed" ->
         [t EXCEPT !.open = FALSE, !.completed = @ + 1, !.sum = @ + 1,
                   !.void = @ \/ ~t.open, !.missing = @ \/ t.sum + 1 > MaxCount]
    [] line = "turn.completed without usage" ->
         [t EXCEPT !.open = FALSE, !.completed = @ + 1,
                   !.void = @ \/ ~t.open, !.missing = TRUE]
    [] OTHER -> t

Tally(t, line) ==
  CASE line \in {"garbage", "turn.failed"} -> [t EXCEPT !.void = TRUE]
    [] line = "turn.started" -> [t EXCEPT !.open = TRUE, !.void = @ \/ t.open]
    [] line = "turn.completed" ->
         [t EXCEPT !.open = FALSE, !.completed = @ + 1, !.sum = @ + 1,
                   !.void = @ \/ ~t.open, !.missing = @ \/ t.sum + 1 > MaxCount]
    [] line = "turn.completed without usage" ->
         [t EXCEPT !.open = FALSE, !.completed = @ + 1,
                   !.void = @ \/ ~t.open, !.missing = TRUE]
    [] OTHER -> t

(* The loop: the tally after each line of a transcript. *)
Tallied(lines) ==
  LET t[i \in 0..Len(lines)] == IF i = 0 THEN NewTally ELSE Tally(t[i - 1], lines[i])
  IN  t

(* codexRunUsage: nothing is known of a run that returned an error. *)
CodexUsage(ok) ==
  LET lines == captured["stdout"]
      t == Tallied(lines)[Len(lines)]
  IN  IF ~ok \/ t.void \/ t.open \/ t.completed = 0 \/ t.missing THEN Unknown ELSE t.sum

(* codexTurns: its scanner has the default buffer and stops, silently, at  *)
(* the first line that does not fit.                                       *)
CodexTurns ==
  LET lines == captured["stdout"]
      Reached(i) == \A j \in 1..i : lines[j] # "long item"
  IN  Cardinality({i \in DOMAIN lines : lines[i] = "turn.started" /\ Reached(i)})

-----------------------------------------------------------------------------
(* Codex.run. *)

Finish(ok, transport) ==
  /\ phase' = "done"
  /\ outcome' = [status |-> IF ok THEN "ok" ELSE "error", transport |-> transport,
                 tokens |-> CodexUsage(ok), turns |-> CodexTurns]
  /\ UNCHANGED <<provider, starts, begun, spent>>

(* safeEnvironment and writePoolInput: without them nothing is run. *)
Prepare ==
  /\ phase = "prepare"
  /\ \/ phase' = "pool" /\ UNCHANGED <<provider, starts, begun, spent, outcome>>
     \/ Finish(FALSE, "none")
  /\ UNCHANGED runner

StartPool ==
  /\ phase = "pool"
  /\ StartProcess \/ NotStarted
  /\ UNCHANGED call

CommandReturns == Return /\ UNCHANGED call

(* The marker is only looked for at the very start of standard error. *)
PoolTransport ==
  IF captured["stderr"] # <<>> /\ Head(captured["stderr"]) = "pooled marker"
  THEN "pooled" ELSE "pool-unconfirmed"

(* Mutant: a refusal is looked for first, and the markers not at all. *)
MayHaveStartedIgnoringMarkers ==
  \/ context = "cancelled"
  \/ result \in {"context", "limit"}
  \/ result # "not-found" /\ ~Captured({"refusal", "quoting item"})

PoolMayHaveStarted ==
  \/ context = "cancelled"
  \/ result \in {"context", "limit"}
  \/ Captured(Markers)
  \/ result # "not-found" /\ ~Captured({"refusal", "quoting item"})

(* Mutant: a zero exit of the pool is taken for an answer. *)
TrustingPoolAnswered ==
  /\ phase = "pool"
  /\ result # "none"
  /\ result = "ok" \/ PoolMayHaveStarted
  /\ Finish(result = "ok", PoolTransport)
  /\ UNCHANGED runner

PoolAnswered ==
  /\ phase = "pool"
  /\ result # "none"
  /\ result = "ok" \/ PoolMayHaveStarted
  /\ Finish(result = "ok" /\ PoolTransport = "pooled", PoolTransport)
  /\ UNCHANGED runner

(* The one replay: the same arguments and prompt, for `codex` itself. *)
FallBack ==
  /\ phase = "pool"
  /\ result \notin {"none", "ok"}
  /\ ~PoolMayHaveStarted
  /\ phase' = "direct"
  /\ process' = "none" /\ exit' = "none" /\ held' = FALSE /\ result' = "none"
  /\ written' = Nothing /\ captured' = Nothing /\ exceeded' = FALSE
  /\ context' = "live"
  /\ UNCHANGED <<provider, starts, begun, spent, outcome>>

StartDirect ==
  /\ phase = "direct"
  /\ \/ /\ StartProcess
        /\ provider' = "idle"
        /\ starts' = starts + 1
     \/ NotStarted /\ UNCHANGED <<provider, starts>>
  /\ UNCHANGED <<phase, begun, spent, outcome>>

DirectAnswered ==
  /\ phase = "direct"
  /\ result # "none"
  /\ Finish(result = "ok", "direct-fallback")
  /\ UNCHANGED runner

-----------------------------------------------------------------------------
(* The pool: its refusal or marker, then the provider. *)

PoolSays ==
  /\ phase = "pool"
  /\ ~Has(Markers \cup {"refusal"}, written["stderr"])
  /\ \E line \in Markers \cup {"refusal", "warning"} : Write("stderr", <<line>>)
  /\ UNCHANGED call

StartPooled ==
  /\ phase = "pool"
  /\ process = "running"
  /\ starts = 0
  /\ Has(Markers, written["stderr"])
  /\ provider' = "idle"
  /\ starts' = 1
  /\ UNCHANGED <<runner, phase, begun, spent, outcome>>

(* bb dies, or gives up; a provider it started is not its child. *)
PoolExits ==
  /\ phase = "pool"
  /\ Exit("nonzero")
  /\ UNCHANGED call

(* bb ends with zero although it pinned and started no provider. *)
PoolExitsZero ==
  /\ phase = "pool"
  /\ provider = "none"
  /\ ~Has({"pooled marker"}, written["stderr"])
  /\ Exit("zero")
  /\ UNCHANGED call

RunOn ==
  /\ provider \in {"idle", "turn"}
  /\ process # "running"
  /\ begun < MaxTurns
  /\ begun' = begun + 1
  /\ spent' = spent + 1
  /\ UNCHANGED <<runner, phase, provider, starts, outcome>>

-----------------------------------------------------------------------------
(* The provider, pooled or direct. *)

BeginTurn ==
  /\ provider = "idle"
  /\ begun < MaxTurns
  /\ Write("stdout", <<"turn.started">>)
  /\ provider' = "turn"
  /\ begun' = begun + 1
  /\ spent' = spent + 1
  /\ UNCHANGED <<phase, starts, outcome>>

EndTurn ==
  /\ provider = "turn"
  /\ \E line \in Endings : Write("stdout", <<line>>)
  /\ provider' = "idle"
  /\ UNCHANGED <<phase, starts, begun, spent, outcome>>

(* A turn the provider gives up without an event. *)
AbandonTurn ==
  /\ provider = "turn"
  /\ process = "running"
  /\ provider' = "idle"
  /\ UNCHANGED <<runner, phase, starts, begun, spent, outcome>>

Report ==
  /\ provider \in {"idle", "turn"}
  /\ \E chunk \in {<<"quoting item">>, <<"long item">>, <<"garbage">>, <<"item", "item">>} :
       Write("stdout", chunk)
  /\ UNCHANGED call

ProviderExits ==
  /\ \/ provider = "idle" /\ \E status \in {"zero", "nonzero"} : Exit(status)
     \/ provider = "turn" /\ Exit("nonzero")
  /\ provider' = "ended"
  /\ UNCHANGED <<phase, starts, begun, spent, outcome>>

(* What the command left behind ends, or closes its streams. *)
PipesClose == LetGo /\ UNCHANGED call

(* The deadline of the pool's run, the caller's context, and what they do. *)
Interrupt ==
  /\ phase # "done"
  /\ \/ phase = "pool" /\ EndContext("expired")
     \/ EndContext("cancelled")
  /\ UNCHANGED call

KillCommand ==
  /\ Kill
  /\ provider' = IF phase = "direct" THEN "ended" ELSE provider
  /\ UNCHANGED <<phase, starts, begun, spent, outcome>>

Returned == phase = "done" /\ UNCHANGED vars

Next ==
  \/ Prepare \/ StartPool \/ CommandReturns \/ PoolAnswered \/ FallBack
  \/ StartDirect \/ DirectAnswered
  \/ PoolSays \/ StartPooled \/ PoolExits \/ PoolExitsZero \/ RunOn
  \/ BeginTurn \/ EndTurn \/ AbandonTurn \/ Report \/ ProviderExits
  \/ PipesClose \/ Interrupt \/ KillCommand \/ Returned

(* Fairness: the code's own steps are taken, the pool's deadline passes    *)
(* (context.WithTimeout) and a killed command ends.  Nothing is assumed of *)
(* the pool, of the provider or of what they start: they may hang, and keep*)
(* the streams open.                                                       *)
PoolDeadline == phase = "pool" /\ context = "live" /\ Interrupt

Fairness ==
  /\ WF_vars(Prepare) /\ WF_vars(StartPool) /\ WF_vars(CommandReturns)
  /\ WF_vars(PoolAnswered) /\ WF_vars(FallBack) /\ WF_vars(PoolDeadline)
  /\ WF_vars(KillCommand)

Spec == Init /\ [][Next]_vars /\ Fairness

-----------------------------------------------------------------------------
Contexts == {"live", "expired", "cancelled"}

TypeOK ==
  /\ context \in Contexts
  /\ process \in {"none", "running", "ended"}
  /\ exit \in {"none", "zero", "nonzero", "signal"}
  /\ held \in BOOLEAN
  /\ written \in [Streams -> Seq(Lines)]
  /\ captured \in [Streams -> Seq(Lines)]
  /\ exceeded \in BOOLEAN
  /\ result \in {"none", "ok", "failed", "not-found", "context", "limit"}
  /\ phase \in {"prepare", "pool", "direct", "done"}
  /\ provider \in {"none", "idle", "turn", "ended"}
  /\ starts \in Nat /\ begun \in Nat /\ spent \in Nat
  /\ outcome \in [status : {"none", "ok", "error"},
                  transport : {"none", "pooled", "pool-unconfirmed", "direct-fallback"},
                  tokens : Nat \cup {Unknown}, turns : Nat]

(* boundedCapture: the two streams together never exceed the limit, and a  *)
(* command whose run is not reported as over the limit lost nothing.       *)
CaptureFaithful ==
  /\ Used =< Limit
  /\ result \notin {"none", "limit"} => captured = written

(* The provider runs at most once per call: the direct fallback is never a *)
(* replay of a call the pool may have started, whatever is lost on the way.*)
StartedAtMostOnce == starts =< 1

(* A call succeeds only if a provider ran, once, and has ended: a zero exit *)
(* of the pool alone proves nothing.                                       *)
SuccessMeansRan == outcome.status = "ok" => starts = 1 /\ provider = "ended"

(* What a call reports is what its provider spent: its tokens, if they are *)
(* known, after no lost, failed or unreported turn, overflow, cut          *)
(* transcript or provider that runs on; and, for the turn budget of        *)
(* service.Execute, every turn of a successful call, unless a line was too *)
(* long for the scanner of codexTurns.                                     *)
UsageComplete ==
  /\ outcome.tokens # Unknown => outcome.tokens = spent
  /\ outcome.status = "ok" /\ ~Has({"long item"}, captured["stdout"]) => outcome.turns = begun

(* A pool that hangs cannot hold a call up, its deadline ends the phase;   *)
(* only what the pool has started can, for as long as it keeps a stream.   *)
PoolBounded == <>[]held \/ (phase = "pool" ~> phase # "pool")
=============================================================================
