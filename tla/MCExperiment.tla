---------------------------- MODULE MCExperiment ----------------------------
(***************************************************************************)
(* An experiment for TLC: what happens in its worktree (Worktree) and, on  *)
(* the tree that was accepted, its benchmark (Benchmark).  The benchmark   *)
(* sees nothing of the tree but what its command reports, which is left    *)
(* open, so a behaviour is one of either; the other stays as it begins.    *)
(***************************************************************************)
EXTENDS Benchmark

CONSTANTS Paths, Tracked, Ignored, Entries, New, Absent,
          MaxEdits, MaxCrashes, MaxCommits  \* of Worktree

VARIABLES part, allowed, source, dest, head, tree, like, intent, place, base,
          record, attempt, report, changed, patch, passed, outcome, edits, crashes

(* Three values, so that a target can be missed, met and exceeded.         *)
MCValues == 0..2

(* Two tracked files, of which one is usually allowed, a new file inside   *)
(* the allowed directory, one that only shares its name's beginning, and   *)
(* an ignored one.                                                         *)
MCTracked == {<<"src", "a">>, <<".github", "workflows", "ci">>}
MCIgnored == {<<"out">>}
MCPaths == MCTracked \cup MCIgnored \cup {<<"src", "b">>, <<"src2">>}
MCEntries == {<<"src">>, <<"src", "a">>, <<".github">>, <<".github", "workflows">>}

ASSUME WorktreeAssumption ==
  /\ Tracked \subseteq Paths /\ Ignored \subseteq Paths \ Tracked
  /\ New \notin Paths /\ Absent \notin Paths /\ New # Absent

W == INSTANCE Worktree WITH pc <- place

treeVars == <<allowed, source, dest, head, tree, like, intent, place, base, record,
              attempt, report, changed, patch, passed, outcome, edits, crashes>>
allVars == <<part, vars, treeVars>>

NoTree ==
  /\ W!Init
  /\ allowed = {<<"src">>}

NoBenchmark ==
  /\ Init
  /\ metric = [source |-> "wall", direction |-> "maximize", baseline |-> 0, target |-> 1]

MCInit ==
  \/ part = "worktree" /\ W!Init /\ NoBenchmark
  \/ part = "benchmark" /\ Init /\ NoTree

MCNext ==
  \/ part = "worktree" /\ W!Next /\ UNCHANGED <<part, vars>>
  \/ part = "benchmark" /\ Next /\ UNCHANGED <<part, treeVars>>

MCSpec ==
  /\ MCInit /\ [][MCNext]_allVars
  /\ part = "benchmark" => WF_vars(Step)

-----------------------------------------------------------------------------
(* The properties of Worktree: an accepted patch is the one that was       *)
(* inspected, on its base, within the allowed paths.                       *)
PatchFaithful == W!PatchFaithful

(* An inspected execution is not rejected by its inspection after a crash. *)
RecoveryKeepsResult == W!RecoveryKeepsResult
=============================================================================
