-------------------------- MODULE ParallelSubtasks ---------------------------
(***************************************************************************)
(* run_parallel_subtasks (apps/desktop/src-tauri/src/subagent.rs): every   *)
(* subtask works in a git worktree and on a branch of its own              *)
(* (crates/tool-runtime/src/worktree.rs), and the branches are merged into *)
(* the branch of the workspace one after the other, until one fails.       *)
(* Meanwhile the user and the other runs go on using the workspace, with   *)
(* the git tools too (crates/tool-runtime/src/git.rs).                     *)
(*                                                                         *)
(* git itself is modelled as far as these commands use it: a commit is a   *)
(* tree and its parents, a tree gives every file a content, and a merge    *)
(* compares the two sides with the last commit they share.                 *)
(***************************************************************************)
EXTENDS Naturals, Sequences, FiniteSets, FiniteSetsExt

CONSTANTS
  GitFiles, Contents,     \* "gone" is the content of a file that is not there
  Branches,               \* branches the user may create; the first is "main"
  MaxSubtasks,            \* subtasks of a call (4 in the code)
  MaxEdits, MaxCommits,   \* bounds: edits of files; commits of the repository
  MaxExits                \* bound: ends of the process

ASSUME ParallelAssumption ==
  /\ "gone" \in Contents /\ "main" \in Branches
  /\ MaxSubtasks \in Nat \ {0} /\ MaxEdits \in Nat /\ MaxCommits \in Nat /\ MaxExits \in Nat

VARIABLES
  commits,    \* every commit: [tree, from]
  refs,       \* branch -> commit
  parent,     \* the workspace: branch, index, files, and the merge open in it
  isolated,   \* subtask -> its worktree, with the tip of its branch
  orch,       \* the call: phase, target branch, subtasks, position, how it stopped;
              \* moved is history: the workspace left the branch just checked
  items,      \* what is known of each subtask
  edits, exits

pmvars == <<commits, refs, parent, isolated, orch, items, edits, exits>>

Subtasks == 1..MaxSubtasks
Detached == "detached"
Trees    == [GitFiles -> Contents]

(* The least set that has the commit and the parents of what it has. *)
Closed(S) == \A i \in S : commits[i].from \subseteq S
Ancestors(c) == {i \in 1..c : \A S \in SUBSET (1..c) : c \in S /\ Closed(S) => i \in S}

Tree(c)        == commits[c].tree
HeadOf(branch) == Tree(refs[branch])

NewCommit(tree, from) ==
  /\ Len(commits) < MaxCommits
  /\ commits' = Append(commits, [tree |-> tree, from |-> from])

(* git_status: clean when nothing is staged, changed, untracked or unmerged. *)
Staged(w)    == {f \in GitFiles : w.index[f] # HeadOf(w.branch)[f]}
Unstaged(w)  == {f \in GitFiles : w.work[f] # w.index[f]}
StatusClean  == Staged(parent) = {} /\ Unstaged(parent) = {} /\ parent.unmerged = {}

Item == [committed |-> FALSE, tip |-> 0, merge |-> "none", retained |-> FALSE]
Idle == [phase |-> "idle", target |-> "main", n |-> 0, at |-> 0, stop |-> "no", moved |-> {}]

PmInit ==
  /\ \E tree \in Trees :
       /\ commits = <<[tree |-> tree, from |-> {}]>>
       /\ \E here \in {"main", Detached} :
            /\ refs = [b \in {"main", here} |-> 1]
            /\ parent = [branch |-> here, index |-> tree, work |-> tree, unmerged |-> {}, merge |-> {}]
  /\ isolated = [s \in {} |-> 0] /\ orch = Idle /\ items = [s \in {} |-> Item]
  /\ edits = 0 /\ exits = 0

-----------------------------------------------------------------------------
(* The workspace, in the hands of the user and of other runs. *)

EditFile(f, text) ==
  /\ edits < MaxEdits /\ edits' = edits + 1
  /\ parent' = [parent EXCEPT !.work[f] = text]
  /\ UNCHANGED <<commits, refs, isolated, orch, items, exits>>

GitAdd(files) ==
  /\ parent' = [parent EXCEPT !.index = [f \in GitFiles |-> IF f \in files THEN parent.work[f] ELSE @[f]],
                              !.unmerged = @ \ files]
  /\ parent' # parent
  /\ UNCHANGED <<commits, refs, isolated, orch, items, edits, exits>>

(* all is -a: the files that are tracked are staged first. *)
GitCommit(all) ==
  LET index == [f \in GitFiles |-> IF all /\ parent.index[f] # "gone" THEN parent.work[f] ELSE parent.index[f]]
  IN /\ parent.unmerged = {} \/ all
     /\ index # HeadOf(parent.branch) \/ parent.merge # {}
     /\ NewCommit(index, {refs[parent.branch]} \cup parent.merge)
     /\ refs' = [refs EXCEPT ![parent.branch] = Len(commits) + 1]
     /\ parent' = [parent EXCEPT !.index = index, !.unmerged = {}, !.merge = {}]
     /\ UNCHANGED <<isolated, orch, items, edits, exits>>

(* Between the check of the branch and git merge, the workspace may leave it. *)
Leaves == orch' = IF orch.phase = "merging" THEN [orch EXCEPT !.moved = @ \cup {orch.at}] ELSE orch

GitBranchCreate(b) ==
  /\ b \notin DOMAIN refs /\ parent.merge = {} /\ Leaves
  /\ refs' = [c \in DOMAIN refs \cup {b} |-> IF c = b THEN refs[parent.branch] ELSE refs[c]]
  /\ parent' = [parent EXCEPT !.branch = b]
  /\ UNCHANGED <<commits, isolated, items, edits, exits>>

(* The files where two trees differ, and what git writes there. *)
Differ(t, u)     == {f \in GitFiles : t[f] # u[f]}
Over(t, files, u) == [f \in GitFiles |-> IF f \in files THEN u[f] ELSE t[f]]

GitBranchSwitch(b) ==
  LET files == Differ(HeadOf(parent.branch), HeadOf(b))
  IN /\ b \in DOMAIN refs \ {parent.branch} /\ parent.merge = {} /\ Leaves
     /\ files \cap (Staged(parent) \cup Unstaged(parent)) = {}
     /\ parent' = [branch |-> b, unmerged |-> {}, merge |-> {},
                   index |-> Over(parent.index, files, HeadOf(b)),
                   work  |-> Over(parent.work, files, HeadOf(b))]
     /\ UNCHANGED <<commits, refs, isolated, items, edits, exits>>

-----------------------------------------------------------------------------
(* The call. *)

Phase(p) == orch.phase = p /\ UNCHANGED exits
Goto(p)  == orch' = [orch EXCEPT !.phase = p]

(* IsolatedWorktree is removed with its branch when its guard is dropped;   *)
(* what cannot be removed stays, and nobody is told.                        *)
CleanUp(S) == \E gone \in SUBSET S : isolated' = [s \in DOMAIN isolated \ gone |-> isolated[s]]

(* Refused unless the workspace is on a branch and clean. *)
RunParallel(n) ==
  /\ Phase("idle") /\ DOMAIN items = {}
  /\ parent.branch # Detached /\ StatusClean
  /\ orch' = [phase |-> "create", target |-> parent.branch, n |-> n, at |-> 1, stop |-> "no", moved |-> {}]
  /\ UNCHANGED <<commits, refs, parent, isolated, items, edits>>

(* git worktree add, at the HEAD of this moment.  One that fails takes the  *)
(* others away.                                                             *)
CreateWorktree ==
  /\ Phase("create")
  /\ \/ /\ isolated' = [s \in DOMAIN isolated \cup {orch.at} |->
                      IF s = orch.at
                      THEN [tip |-> refs[parent.branch], work |-> HeadOf(parent.branch), busy |-> TRUE]
                      ELSE isolated[s]]
        /\ orch' = IF orch.at = orch.n THEN [orch EXCEPT !.phase = "work", !.at = 1]
                                       ELSE [orch EXCEPT !.at = @ + 1]
     \/ CleanUp(DOMAIN isolated) /\ Goto("failed")
  /\ UNCHANGED <<commits, refs, parent, items, edits>>

SubtaskEdits(s, f, text) ==
  /\ Phase("work") /\ isolated[s].busy
  /\ edits < MaxEdits /\ edits' = edits + 1
  /\ isolated' = [isolated EXCEPT ![s].work[f] = text]
  /\ UNCHANGED <<commits, refs, parent, orch, items>>

(* add -A and commit: the subtask itself, in its shell, or commit_all.      *)
CommitsIsolated(s) ==
  /\ isolated[s].work # Tree(isolated[s].tip)
  /\ NewCommit(isolated[s].work, {isolated[s].tip})
  /\ isolated' = [isolated EXCEPT ![s].tip = Len(commits) + 1]

SubtaskCommits(s) ==
  /\ Phase("work") /\ isolated[s].busy
  /\ CommitsIsolated(s)
  /\ UNCHANGED <<refs, parent, orch, items, edits>>

SubtaskEnds(s) ==
  /\ Phase("work") /\ isolated[s].busy
  /\ isolated' = [isolated EXCEPT ![s].busy = FALSE]
  /\ UNCHANGED <<commits, refs, parent, orch, items, edits>>

(* When all have ended.  Nothing to commit and a commit that fails are the  *)
(* same to the caller.                                                      *)
Known(s, item) == items' = [t \in DOMAIN items \cup {s} |-> IF t = s THEN item ELSE items[t]]

CommitAll ==
  /\ Phase("work") /\ \A s \in DOMAIN isolated : ~isolated[s].busy
  /\ LET s == orch.at
     IN \/ /\ CommitsIsolated(s)
           /\ Known(s, [Item EXCEPT !.committed = TRUE, !.tip = Len(commits) + 1])
        \/ Known(s, Item) /\ UNCHANGED <<commits, isolated>>
  /\ orch' = IF orch.at = orch.n THEN [orch EXCEPT !.phase = "merge", !.at = 1]
                                 ELSE [orch EXCEPT !.at = @ + 1]
  /\ UNCHANGED <<refs, parent, edits>>

-----------------------------------------------------------------------------
(* The branches are merged in order. *)

Current == orch.at
Merging == Phase("merge") /\ Current <= orch.n
Settle(item, stop) ==
  /\ Known(Current, item)
  /\ orch' = [orch EXCEPT !.phase = "merge", !.at = @ + 1, !.stop = IF stop = "no" THEN @ ELSE stop]

DropUnchanged ==
  /\ Merging /\ ~items[Current].committed
  /\ CleanUp({Current}) /\ Settle(items[Current], "no")
  /\ UNCHANGED <<commits, refs, parent, edits>>

(* Slip: what is not merged is cleaned up with the rest. *)
SlipRetainAfterStop ==
  /\ Merging /\ items[Current].committed /\ orch.stop # "no"
  /\ CleanUp({Current}) /\ Settle([items[Current] EXCEPT !.retained = TRUE], "no")
  /\ UNCHANGED <<commits, refs, parent, edits>>

RetainAfterStop ==
  /\ Merging /\ items[Current].committed /\ orch.stop # "no"
  /\ Settle([items[Current] EXCEPT !.retained = TRUE], "no")
  /\ UNCHANGED <<commits, refs, parent, isolated, edits>>

(* What git merge --no-ff finds. *)
Theirs     == Tree(isolated[Current].tip)
Shared     == Ancestors(refs[parent.branch]) \cap Ancestors(isolated[Current].tip)
MergeBase  == Tree(Max(Shared))
Ours       == HeadOf(parent.branch)
Changed    == Differ(MergeBase, Theirs)
Conflicts  == {f \in Changed : Ours[f] # MergeBase[f] /\ Ours[f] # Theirs[f]}
Overwrites == Changed \cap Differ(Ours, Theirs)
CanMerge   == Staged(parent) = {} /\ Overwrites \cap Unstaged(parent) = {}

(* git rev-parse: the workspace must be on the target branch.  git merge is *)
(* a process of its own, and the workspace is not held in between.          *)
ReadyToMerge == Merging /\ items[Current].committed /\ orch.stop = "no"
NotMerged    == Settle([items[Current] EXCEPT !.retained = TRUE], "error")

(* Slip: no check. *)
SlipCheckBranch ==
  /\ ReadyToMerge /\ Goto("merging")
  /\ UNCHANGED <<commits, refs, parent, isolated, items, edits>>

CheckBranch ==
  /\ ReadyToMerge
  /\ \/ parent.branch = orch.target /\ Goto("merging") /\ UNCHANGED items
     \/ NotMerged
  /\ UNCHANGED <<commits, refs, parent, isolated, edits>>

(* git merge works on the branch that is checked out now. *)
MergeClean ==
  /\ Phase("merging") /\ CanMerge /\ Conflicts = {}
  /\ LET tree == Over(Ours, Changed, Theirs)
     IN /\ NewCommit(tree, {refs[parent.branch], isolated[Current].tip})
        /\ refs' = [refs EXCEPT ![parent.branch] = Len(commits) + 1]
        /\ CleanUp({Current})
        /\ parent' = [parent EXCEPT !.index = tree, !.work = Over(@, Changed, Theirs)]
  /\ Settle([items[Current] EXCEPT !.merge = "clean"], "no")
  /\ UNCHANGED edits

(* It stops on the files in conflict, or before its commit because a hook   *)
(* says so; or changes in the way or a lock refuse it.                      *)
MergeStops ==
  /\ Phase("merging")
  /\ \/ /\ CanMerge
        /\ parent' = [parent EXCEPT !.index = Over(@, Changed \ Conflicts, Theirs),
                                    !.work = Over(@, Changed, Theirs), !.unmerged = Conflicts,
                                    !.merge = {isolated[Current].tip}]
     \/ parent' = parent
  /\ Goto("list") /\ UNCHANGED <<commits, refs, isolated, items, edits>>

(* The unmerged paths say whether it is a conflict. *)
ListUnmerged ==
  /\ Phase("list")
  /\ \/ Goto(IF parent.unmerged # {} THEN "abort" ELSE "undo") /\ UNCHANGED items
     \/ NotMerged
  /\ UNCHANGED <<commits, refs, parent, isolated, edits>>

(* git merge --abort *)
Aborted ==
  /\ parent.merge # {}
  /\ parent' = [parent EXCEPT !.index = Ours, !.unmerged = {}, !.merge = {},
                  !.work = Over(@, Staged(parent) \cup parent.unmerged, Ours)]

MergeAbort ==
  /\ Phase("abort")
  /\ \/ Aborted /\ Settle([items[Current] EXCEPT !.merge = "conflict", !.retained = TRUE], "conflict")
     \/ parent' = parent /\ NotMerged
  /\ UNCHANGED <<commits, refs, isolated, edits>>

(* No conflict: an error, whatever the abort tried in any case comes to. *)
MergeUndo ==
  /\ Phase("undo")
  /\ Aborted \/ parent' = parent
  /\ NotMerged /\ UNCHANGED <<commits, refs, isolated, edits>>

Report ==
  /\ Phase("merge") /\ Current > orch.n /\ Goto("reported")
  /\ UNCHANGED <<commits, refs, parent, isolated, items, edits>>

(* The process ends: no guard is dropped. *)
ExitProcess ==
  /\ exits < MaxExits /\ exits' = exits + 1
  /\ orch' = [orch EXCEPT !.phase = "lost"]
  /\ UNCHANGED <<commits, refs, parent, isolated, items, edits>>

PmNext ==
  \/ \E f \in GitFiles, text \in Contents : EditFile(f, text)
  \/ \E files \in SUBSET GitFiles \ {{}} : GitAdd(files)
  \/ \E all \in BOOLEAN : GitCommit(all)
  \/ \E b \in Branches : GitBranchCreate(b) \/ GitBranchSwitch(b)
  \/ \E n \in Subtasks : RunParallel(n)
  \/ CreateWorktree
  \/ \E s \in DOMAIN isolated :
       \/ SubtaskCommits(s) \/ SubtaskEnds(s)
       \/ \E f \in GitFiles, text \in Contents : SubtaskEdits(s, f, text)
  \/ CommitAll \/ DropUnchanged \/ RetainAfterStop
  \/ CheckBranch \/ MergeClean \/ MergeStops \/ ListUnmerged \/ MergeAbort \/ MergeUndo
  \/ Report \/ ExitProcess

PmSpec == PmInit /\ [][PmNext]_pmvars

-----------------------------------------------------------------------------
PmTypeOK ==
  /\ \A c \in 1..Len(commits) : commits[c].tree \in Trees /\ commits[c].from \subseteq 1..c-1
  /\ \A b \in DOMAIN refs : refs[b] \in 1..Len(commits)
  /\ parent.branch \in DOMAIN refs \cap (Branches \cup {Detached})
  /\ parent.index \in Trees /\ parent.work \in Trees
  /\ parent.unmerged \subseteq GitFiles /\ (parent.merge = {} => parent.unmerged = {})
  /\ DOMAIN isolated \subseteq Subtasks
  /\ \A s \in DOMAIN isolated : isolated[s].tip \in 1..Len(commits)
  /\ orch.at \in 0..orch.n + 1 /\ orch.n \in 0..MaxSubtasks

(* What a subtask changed and the call committed can be reached from a      *)
(* branch for ever after: whatever the user does to the workspace, whether  *)
(* its merge is clean, conflicts, fails or is skipped, and if the process   *)
(* ends half way.                                                           *)
CommittedWorkReachable ==
  \A s \in DOMAIN items :
    items[s].committed =>
      \E c \in {refs[b] : b \in DOMAIN refs} \cup {isolated[t].tip : t \in DOMAIN isolated} :
        items[s].tip \in Ancestors(c)

(* What the model is told when the call returns: a subtask reported merged  *)
(* is in the target branch, unless the workspace left that branch between   *)
(* the check and the merge; one that is kept has its branch; what was       *)
(* committed is one or the other; and the workspace is said to be restored  *)
(* only when no merge is open in it.                                        *)
ReportTruthful ==
  [][(orch.phase = "merge" /\ orch'.phase = "reported") =>
       /\ \A s \in DOMAIN items :
            /\ items[s].merge = "clean" /\ s \notin orch.moved => items[s].tip \in Ancestors(refs[orch.target])
            /\ items[s].retained => s \in DOMAIN isolated
            /\ items[s].committed => items[s].merge = "clean" \/ items[s].retained
       /\ orch.stop # "error" => parent.merge = {}]_pmvars
=============================================================================
