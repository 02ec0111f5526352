------------------------------ MODULE Worktree ------------------------------
(***************************************************************************)
(* The experiment's worktree: how Execute prepares it, lets the executor   *)
(* change it, inspects it and takes the patch, across crashes.             *)
(*                                                                         *)
(* A path is the sequence of its segments and stands for a clean relative  *)
(* path.  The content of a file is the path it was committed at, or New.   *)
(* git is external: a commit, a worktree and an index, a listing by `git   *)
(* diff --name-only HEAD`, which names a file that was moved, edited or    *)
(* not, by its new path only, once the index knows the new path, and by    *)
(* `git ls-files --others --exclude-standard`.  The executor cannot move   *)
(* HEAD or write the index.                                                *)
(***************************************************************************)
EXTENDS Integers, Sequences, FiniteSets, SequencesExt

CONSTANTS
  Paths,         \* files that may be there
  Tracked,       \* those of the commit
  Ignored,       \* those a .gitignore excludes
  Entries,       \* entries a contract's allowed_paths may have
  New, Absent,   \* contents: written by the executor; no file
  None,
  MaxEdits,      \* bound: changes the executor makes
  MaxCrashes,    \* bound: crashes and failed calls
  MaxCommits     \* bound: commits to the source repository

VARIABLES
  allowed,      \* contract.AllowedPaths
  source,       \* HEAD of the source repository
  dest,         \* the worktree: none, broken (no HEAD yet), partial, ready
  head,         \* HEAD of the worktree
  tree,         \* what its files hold
  like,         \* the committed file that a New one is similar to, or None
  intent,       \* untracked files `git add -N` has put in the index
  pc, base,     \* place in the handler, and the base it has in hand
  record,       \* cycle.Execution.BaseCommit, or None
  attempt,      \* key execution:attempt
  report,       \* changed_paths of execution-report.json, or None
  changed,      \* result of ChangedPaths
  patch,        \* experiment.patch: what it makes of each path
  passed,       \* history: the inspection has accepted this worktree
  outcome,      \* none, failed, rejected (also failed), indeterminate, accepted
  edits, crashes

repo == <<source, dest, head>>
work == <<tree, like, intent, edits>>
cycle == <<record, attempt, report, outcome>>
vars == <<allowed, repo, work, cycle, pc, base, changed, patch, passed, crashes>>

Under(prefix, p) == IsPrefix(prefix, p)

Protected(p) == Under(<<".git">>, p) \/ Under(<<".github", "workflows">>, p)

(* validateRelativePath, on a clean path. *)
ValidRelative(p) == p # <<>> /\ ~Protected(p)

Covered(p) == \E a \in allowed : Under(a, p)

Committed == [p \in Paths |-> IF p \in Tracked THEN p ELSE Absent]
Differs == {p \in Paths : tree[p] # Committed[p]}

Init ==
  /\ allowed \in SUBSET Entries \ {{}}
  /\ \A a \in allowed : ValidRelative(a)
  /\ source = 1 /\ dest = "none" /\ head = None
  /\ tree = Committed /\ like = [p \in Paths |-> None] /\ intent = {} /\ edits = 0
  /\ record = None /\ attempt = "none" /\ report = None /\ outcome = "none"
  /\ pc = "idle" /\ base = None /\ changed = {} /\ patch = None /\ passed = FALSE
  /\ crashes = 0

At(l) == pc = l /\ outcome = "none"
Goto(l) == pc' = l
Fail == outcome' = "failed" /\ Goto("idle")
Reject == outcome' = "rejected" /\ Goto("idle")
Keeps(rest) == UNCHANGED <<allowed, passed, crashes, rest>>

(* External: somebody commits to the source repository. *)
SourceMoves ==
  /\ source < MaxCommits /\ source' = source + 1
  /\ UNCHANGED <<allowed, dest, head, work, cycle, pc, base, changed, patch, passed, crashes>>

(* What the idempotency keys say is left to do. *)
Resume ==
  /\ At("idle")
  /\ \/ attempt = "none" /\ record = None /\ Goto("base") /\ UNCHANGED outcome
     \/ attempt = "none" /\ record # None /\ Goto("claim") /\ UNCHANGED outcome
     \/ attempt = "started" /\ report # None /\ Goto("inspect") /\ UNCHANGED outcome
     \/ attempt = "started" /\ report = None /\ outcome' = "indeterminate" /\ UNCHANGED pc
  /\ Keeps(<<repo, work, record, attempt, report, base, changed, patch>>)

(* Prepare: rev-parse HEAD in the source repository. *)
ReadBase ==
  /\ At("base") /\ base' = source /\ Goto("stat")
  /\ Keeps(<<repo, work, cycle, changed, patch>>)

(* An existing worktree is taken as it is, with the commit it has.         *)
(* Mutant: with the commit the source repository has now. *)
ReuseWithSource == base' = base
Reuse == base' = head

Stat ==
  /\ At("stat")
  /\ \/ dest = "none" /\ Goto("add") /\ UNCHANGED <<base, outcome>>
     \/ dest = "broken" /\ Fail /\ UNCHANGED base
     \/ dest \in {"partial", "ready"} /\ Reuse /\ Goto("record") /\ UNCHANGED outcome
  /\ Keeps(<<repo, work, record, attempt, report, changed, patch>>)

AddBegins ==
  /\ At("add")
  /\ dest' = "broken" /\ Goto("adding")
  /\ Keeps(<<source, head, work, cycle, base, changed, patch>>)

(* External: git links the worktree to the commit, then checks it out.     *)
Link ==
  /\ At("adding") /\ dest = "broken"
  /\ \E missing \in SUBSET Tracked \ {{}} :
       tree' = [p \in Paths |-> IF p \in missing THEN Absent ELSE Committed[p]]
  /\ dest' = "partial" /\ head' = base
  /\ Keeps(<<source, like, intent, edits, cycle, pc, base, changed, patch>>)

AddEnds ==
  /\ At("adding") /\ dest = "partial"
  /\ dest' = "ready" /\ tree' = Committed /\ Goto("record")
  /\ Keeps(<<source, head, like, intent, edits, cycle, base, changed, patch>>)

Record ==
  /\ At("record") /\ record' = base /\ Goto("claim")
  /\ Keeps(<<repo, work, attempt, report, outcome, base, changed, patch>>)

Claim ==
  /\ At("claim") /\ attempt' = "started" /\ Goto("execute")
  /\ Keeps(<<repo, work, record, report, outcome, base, changed, patch>>)

(* External: the executor writes, removes and moves files.                 *)
Edit ==
  /\ At("execute") /\ edits < MaxEdits /\ edits' = edits + 1
  /\ \/ \E p \in Paths, l \in Tracked \cup {None} :
          tree[p] # New /\ tree' = [tree EXCEPT ![p] = New] /\ like' = [like EXCEPT ![p] = l]
     \/ \E p \in Paths :
          /\ tree[p] # Absent
          /\ tree' = [tree EXCEPT ![p] = Absent] /\ like' = [like EXCEPT ![p] = None]
     \/ \E p, q \in Paths :
          /\ tree[p] # Absent /\ p # q
          /\ tree' = [tree EXCEPT ![p] = Absent, ![q] = tree[p]]
          /\ like' = [like EXCEPT ![p] = None, ![q] = like[p]]
  /\ Keeps(<<repo, intent, cycle, pc, base, changed, patch>>)

(* It reports some of what is different, or fails and ends the cycle.      *)
Report ==
  /\ At("execute")
  /\ \/ \E r \in SUBSET Differs : report' = r /\ Goto("inspect") /\ UNCHANGED outcome
     \/ Fail /\ UNCHANGED report
  /\ Keeps(<<repo, work, record, attempt, base, changed, patch>>)

Deleted == {p \in Tracked : tree[p] = Absent}
Modified == {p \in Tracked : tree[p] # Absent /\ tree[p] # p}
Added == {p \in intent : tree[p] # Absent}
Untracked == {p \in Paths \ (Tracked \cup intent \cup Ignored) : tree[p] # Absent}

(* `git diff --name-only HEAD`, with its detection of renames: a file that *)
(* is gone, and one like it that the index knows and the commit does not.  *)
Similar(q, p) == tree[q] = p \/ (tree[q] = New /\ like[q] = p)
Moved == {p \in Deleted : \E q \in Added : Similar(q, p)}
(* Mutant: only files of the commit are listed. *)
DiffOfCommit == (Deleted \ Moved) \cup Modified
DiffNames == (Deleted \ Moved) \cup Modified \cup Added

(* ChangedPaths.                                                           *)
ChangedPaths == DiffNames \cup Untracked

Inspect ==
  /\ At("inspect") /\ changed' = ChangedPaths /\ Goto("check")
  /\ Keeps(<<repo, work, cycle, base, patch>>)

(* CheckAllowedPaths, then samePaths with the executor's report. *)
Check ==
  /\ At("check")
  /\ IF (\A p \in changed : Covered(p)) /\ changed = report
     THEN Goto("mark") /\ passed' = TRUE /\ UNCHANGED outcome
     ELSE Reject /\ UNCHANGED passed
  /\ UNCHANGED <<allowed, repo, work, record, attempt, report, base, changed, patch, crashes>>

MarkUntracked == intent' = intent \cup Untracked

Mark ==
  /\ At("mark") /\ MarkUntracked /\ Goto("diff")
  /\ Keeps(<<repo, tree, like, edits, cycle, base, changed, patch>>)

Diff ==
  /\ At("diff")
  /\ patch' = [p \in Deleted \cup Modified \cup Added |-> tree[p]]
  /\ Goto("complete")
  /\ Keeps(<<repo, work, cycle, base, changed>>)

Complete ==
  /\ At("complete") /\ attempt' = "completed" /\ outcome' = "accepted" /\ Goto("idle")
  /\ Keeps(<<repo, work, record, report, base, changed, patch>>)

(* git cannot be run, ends with an error or shows more than the runner     *)
(* takes, or the patch cannot be written: each fails the cycle, in the     *)
(* inspection of a recovered execution as well.                            *)
CallFails ==
  /\ \E l \in {"base", "stat", "add", "adding", "inspect", "mark", "diff"} : At(l)
  /\ crashes < MaxCrashes /\ crashes' = crashes + 1 /\ Fail
  /\ UNCHANGED <<allowed, repo, work, record, attempt, report, base, changed, patch, passed>>

(* A crash, or a persist that fails. *)
Crash ==
  /\ outcome = "none" /\ pc # "idle" /\ crashes < MaxCrashes
  /\ crashes' = crashes + 1 /\ Goto("idle")
  /\ UNCHANGED <<allowed, repo, work, cycle, base, changed, patch, passed>>

Ended == outcome # "none" /\ UNCHANGED vars

Next == \/ SourceMoves \/ Resume \/ ReadBase \/ Stat \/ AddBegins \/ Link \/ AddEnds
        \/ Record \/ Claim \/ Edit \/ Report \/ Inspect \/ Check \/ Mark \/ Diff
        \/ Complete \/ CallFails \/ Crash \/ Ended

Spec == Init /\ [][Next]_vars

-----------------------------------------------------------------------------

(* What is recorded of an accepted execution is right, although the check  *)
(* is made on another listing, the source repository moves and a crash may *)
(* lie between any two steps: the patch stays within the allowed paths,    *)
(* and applied to the base commit on record it gives the tree that was     *)
(* inspected, new files included, except for what git ignores.             *)
PatchFaithful ==
  outcome = "accepted" =>
    /\ record = head
    /\ \A p \in DOMAIN patch : Covered(p)
    /\ \A p \in Paths \ Ignored :
         tree[p] = IF p \in DOMAIN patch THEN patch[p] ELSE Committed[p]

(* An execution that has passed the inspection is not rejected by it after *)
(* a crash, although Patch may have changed the index in between; only a   *)
(* renamed file is listed differently then.  (An error of git, or of the   *)
(* write of the patch, may still fail it: CallFails.)                      *)
Renamed == \E p \in Deleted, q \in Paths \ (Tracked \cup Ignored) : Similar(q, p)
RecoveryKeepsResult == passed /\ ~Renamed => outcome # "rejected"
=============================================================================
