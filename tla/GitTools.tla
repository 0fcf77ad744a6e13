------------------------------ MODULE GitTools -------------------------------
(***************************************************************************)
(* The git tools of the agent (crates/tool-runtime/src/git.rs): each call  *)
(* is one to three runs of git or gh, with a time limit, in a repository   *)
(* that the user works in at the same time and that shares a remote with   *)
(* colleagues.                                                             *)
(*                                                                         *)
(* The history of a branch is the set of the changes in its commits.  What *)
(* git, gh, the user and the colleague do is external; which runs a call   *)
(* makes, in which order, with which branch, and what it answers, is the   *)
(* code's.                                                                 *)
(***************************************************************************)
EXTENDS Naturals, FiniteSets, Functions

CONSTANTS
  Refs,        \* branch names, "main" among them
  MaxChanges   \* bound: changes made

NoBranch == "(detached)"

ASSUME GitAssumption == "main" \in Refs /\ NoBranch \notin Refs /\ MaxChanges \in Nat

VARIABLES
  world,  \* the repository, the remote and its pull requests
  run,    \* the call under way
  told    \* the answer of the last call

gitvars == <<world, run, told>>


(* The history at HEAD, and everything that is kept somewhere. *)
At(w)   == IF w.head = NoBranch THEN w.at ELSE w.heads[w.head]
Kept(w) == UNION ({w.work, w.fresh, w.index, At(w)} \cup Range(w.heads) \cup Range(w.remote))

(* The calls. *)
GitCalls ==
       [tool : {"status", "diff", "log", "list"}, name : {"good", "bad"}, all : {FALSE}]
  \cup [tool : {"create", "switch"}, name : Refs \cup {"bad"}, all : {FALSE}]
  \cup [tool : {"add", "commit"}, name : {"good", "bad"}, all : BOOLEAN]
  \cup [tool : {"push", "pr"}, name : {"good", "bad"}, all : {FALSE}]

(* Refused before anything runs: a blank title or message, a name or path  *)
(* that is empty, starts with -, has a blank or leaves the workspace, no   *)
(* path at all, an unknown action.                                         *)
Refused(c) == c.name = "bad"

NoGit == [pc |-> "idle", call |-> [tool |-> "none", name |-> "good", all |-> FALSE], branch |-> "none", seen |-> {}]
Error == [ok |-> FALSE, tool |-> "none", branch |-> "none", units |-> {}]
Done(c, branch, units) == [ok |-> TRUE, tool |-> c.tool, branch |-> branch, units |-> units]

GitInit ==
  /\ world = [head |-> "main", at |-> {}, heads |-> [b \in {"main"} |-> {}], index |-> {}, work |-> {}, fresh |-> {},
              lock |-> FALSE, remote |-> [b \in {"main"} |-> {}], tracking |-> [b \in {"main"} |-> {}], prs |-> {}, made |-> 0]
  /\ run = NoGit /\ told = Error

-----------------------------------------------------------------------------
(* What a command does to the repository when it exits with 0: the worlds  *)
(* it may leave, none when it refuses.                                     *)

With(f, b, units) == [x \in DOMAIN f \cup {b} |-> IF x = b THEN units ELSE f[x]]

(* Reading, and gh auth status: no locks, no changes. *)
Reads(w) == {w}

(* git add: of everything, or of the paths given. *)
Adds(w, all) ==
  {[w EXCEPT !.index = @ \cup S, !.work = @ \ S, !.fresh = @ \ S] :
     S \in IF w.lock THEN {} ELSE IF all THEN {w.work \cup w.fresh} ELSE SUBSET (w.work \cup w.fresh) \ {{}}}

(* git commit, with -a also the changes of tracked files. *)
Commits(w, all) ==
  LET S     == w.index \cup IF all THEN w.work ELSE {}
      moved == [w EXCEPT !.index = {}, !.work = @ \ S]
  IN  IF w.lock \/ S = {} THEN {}
      ELSE IF w.head = NoBranch THEN {[moved EXCEPT !.at = @ \cup S]}
      ELSE {[moved EXCEPT !.heads[w.head] = @ \cup S]}

(* git switch carries uncommitted changes along, and makes a local branch  *)
(* of one it only knows from the remote; git switch -c makes a new one.    *)
Switches(w, b) ==
  IF w.lock \/ b \notin DOMAIN w.heads \cup DOMAIN w.tracking THEN {}
  ELSE {[w EXCEPT !.head = b, !.at = {}, !.heads = IF b \in DOMAIN @ THEN @ ELSE With(@, b, w.tracking[b])]}

(* Slip: git switch -C, which makes the branch anew when it exists. *)
SlipCreates(w, b) ==
  IF w.lock THEN {} ELSE {[w EXCEPT !.head = b, !.at = {}, !.heads = With(@, b, At(w))]}

Creates(w, b) ==
  IF w.lock \/ b \in DOMAIN w.heads THEN {}
  ELSE {[w EXCEPT !.head = b, !.at = {}, !.heads = With(@, b, At(w))]}

(* git push <remote> <branch>: never forced, so only forward. *)
Pushes(w, b) ==
  IF b \in DOMAIN w.remote /\ ~(w.remote[b] \subseteq w.heads[b]) THEN {}
  ELSE {[w EXCEPT !.remote = With(@, b, w.heads[b]), !.tracking = With(@, b, w.heads[b])]}

(* gh pr create: for the branch of HEAD, when its tip is known to be on    *)
(* the remote, ahead of main, and has no pull request yet.                 *)
OpensPr(w) ==
  IF /\ w.head \in DOMAIN w.tracking \ {"main"} /\ w.tracking[w.head] = At(w)
     /\ ~(w.remote[w.head] \subseteq w.remote["main"]) /\ w.head \notin w.prs
  THEN {[w EXCEPT !.prs = @ \cup {w.head}]} ELSE {}

(* What the reading calls answer: all that is not committed; of tracked    *)
(* files, with the index; the newest of the history; branches.             *)
Status(w)   == w.work \cup w.fresh \cup w.index
Diff(w)     == w.work \cup w.index
Log(w)      == At(w)
BranchList(w) == DOMAIN w.heads \cup DOMAIN w.tracking

-----------------------------------------------------------------------------
(* The run of git or gh which a call has come to. *)
Effect(r) ==
  LET c == r.call IN
  CASE c.tool = "add"    /\ r.pc = "first"  -> Adds(world, c.all)
    [] c.tool = "commit" /\ r.pc = "first"  -> Commits(world, c.all)
    [] c.tool = "create"                    -> Creates(world, c.name)
    [] c.tool = "switch"                    -> Switches(world, c.name)
    [] c.tool = "push"   /\ r.pc = "second" -> Pushes(world, r.branch)
    [] c.tool = "pr"     /\ r.pc = "second" -> OpensPr(world)
    [] OTHER                                -> Reads(world)

GitRunning == run.pc \in {"first", "second", "third"}
Answer(a) == run' = NoGit /\ told' = a

(* A call arrives; what is wrong with its arguments is said at once. *)
CallGit(c) ==
  /\ run = NoGit
  /\ IF Refused(c) THEN Answer(Error) ELSE run' = [NoGit EXCEPT !.pc = "first", !.call = c] /\ told' = Error
  /\ UNCHANGED world

(* What is read from its output. *)
Seen(r, w) ==
  LET tool == r.call.tool IN
  CASE tool = "status" -> Status(w)
    [] tool = "diff"   -> Diff(w)
    [] tool = "list"   -> BranchList(w)
    [] tool = "add"    -> w.index
    [] tool = "push"   -> IF r.pc = "second" THEN w.remote[r.branch] ELSE {}
    [] OTHER           -> Log(w)

(* The command exits with 0, and the process is seen to have exited later. *)
GitExits(new) ==
  /\ GitRunning /\ new \in Effect(run)
  /\ world' = new
  /\ run' = [run EXCEPT !.pc = CASE run.pc = "first" -> "exited1" [] run.pc = "second" -> "exited2" [] OTHER -> "exited3",
               !.branch = IF run.pc = "first" THEN new.head ELSE @,
               !.seen   = Seen(run, new)]
  /\ UNCHANGED told

(* How many runs each call makes: the numbers and the text of a diff, the  *)
(* index after an add, the full and the short name of HEAD after a commit, *)
(* the branch before a push, the login before a pull request.              *)
LastRun(tool) ==
  CASE tool = "commit" -> "exited3" [] tool \in {"diff", "add", "push", "pr"} -> "exited2" [] OTHER -> "exited1"

(* The next run, or the answer.  A push has no branch on a detached HEAD.  *)
GitReturns ==
  /\ run.pc \in {"exited1", "exited2", "exited3"}
  /\ IF run.call.tool = "push" /\ run.branch = NoBranch THEN Answer(Error)
     ELSE IF run.pc = LastRun(run.call.tool) THEN Answer(Done(run.call, run.branch, run.seen))
     ELSE run' = [run EXCEPT !.pc = IF run.pc = "exited1" THEN "second" ELSE "third"] /\ UNCHANGED told
  /\ UNCHANGED world

(* It is not installed, cannot be started, or exits with another code: a   *)
(* refusal of its own, of a hook, or of the network.                       *)
GitFails == GitRunning /\ Answer(Error) /\ UNCHANGED world

(* The time is up: git is killed, with its work done or not; one that was  *)
(* writing the index may leave index.lock behind.  What it started, a hook *)
(* for one, lives on and holds the pipes, which are read to their end.     *)
GitTimesOut(new) ==
  /\ GitRunning
  /\ new \in Effect(run) \cup {world}
               \cup IF run.call.tool \in {"add", "commit", "create", "switch"} THEN {[world EXCEPT !.lock = TRUE]} ELSE {}
  /\ world' = new /\ run' = [run EXCEPT !.pc = "killed"] /\ UNCHANGED told

PipesClosed == run.pc = "killed" /\ Answer(Error) /\ UNCHANGED world

-----------------------------------------------------------------------------
(* The user, and the agent's other tools, on the same repository; the      *)
(* colleague on the remote.                                                *)
Moves(new) == world' = new /\ UNCHANGED <<run, told>>

FileChanges(where) ==
  /\ world.made < MaxChanges
  /\ \/ where = "tracked" /\ Moves([world EXCEPT !.made = @ + 1, !.work = @ \cup {world.made + 1}])
     \/ where = "new"     /\ Moves([world EXCEPT !.made = @ + 1, !.fresh = @ \cup {world.made + 1}])

UserCommits == \E new \in Commits(world, FALSE) : Moves(new)
UserSwitches(b) == world.head # b /\ world.head # NoBranch /\ \E new \in Switches(world, b) : Moves(new)
UserDetaches == world.head # NoBranch /\ ~world.lock /\ Moves([world EXCEPT !.head = NoBranch, !.at = At(world)])
UserUnlocks  == world.lock /\ run.pc = "idle" /\ Moves([world EXCEPT !.lock = FALSE])
UserFetches  == world.tracking # world.remote /\ Moves([world EXCEPT !.tracking = world.remote])

UserPulls ==
  /\ world.head \in DOMAIN world.remote /\ ~world.lock
  /\ Moves([world EXCEPT !.tracking = world.remote, !.heads[world.head] = @ \cup world.remote[world.head]])

ColleaguePushes(b) ==
  /\ world.made < MaxChanges /\ b \in DOMAIN world.remote
  /\ Moves([world EXCEPT !.made = @ + 1, !.remote[b] = @ \cup {world.made + 1}])

GitNext ==
  \/ \E c \in GitCalls : CallGit(c)
  \/ \E new \in Effect(run) : GitExits(new)
  \/ \E new \in Effect(run) \cup {world, [world EXCEPT !.lock = TRUE]} : GitTimesOut(new)
  \/ GitReturns \/ GitFails \/ PipesClosed
  \/ \E where \in {"tracked", "new"} : FileChanges(where)
  \/ UserCommits \/ UserDetaches \/ UserUnlocks \/ UserFetches \/ UserPulls
  \/ \E b \in Refs : UserSwitches(b) \/ ColleaguePushes(b)

GitSpec == GitInit /\ [][GitNext]_gitvars

-----------------------------------------------------------------------------
(* Types: a change is in one place of the working tree, and branches known *)
(* from the remote were there.                                             *)
GitTypeOK ==
  /\ world.head \in DOMAIN world.heads \cup {NoBranch} /\ world.prs \subseteq DOMAIN world.remote
  /\ world.work \cap world.fresh = {} /\ world.index \cap (world.work \cup world.fresh) = {}
  /\ Kept(world) \subseteq 1..world.made
  /\ \A b \in DOMAIN world.tracking : b \in DOMAIN world.remote /\ world.tracking[b] \subseteq world.remote[b]
  /\ run.pc \in {"idle", "first", "second", "third", "exited1", "exited2", "exited3", "killed"}

(* What a push or a pull request reports is so: the remote has, under the  *)
(* branch named, all that was pushed, though the user switched to another  *)
(* branch between the two runs of the call and colleagues push as well.    *)
PushesReported ==
  /\ told.ok /\ told.tool = "push" => told.branch \in DOMAIN world.remote /\ told.units \subseteq world.remote[told.branch]
  /\ told.ok /\ told.tool = "pr" => world.prs # {}

(* No run of git loses a change: of the user, of a colleague, or of the    *)
(* agent, committed or not, whatever is killed, tried again or done at the *)
(* same time.  The one way out is the repository's own: commits made on a  *)
(* detached HEAD are left behind when HEAD goes to a branch.               *)
NothingLost ==
  [][\A u \in Kept(world) : u \in Kept(world') \/ (world.head = NoBranch /\ u \in world.at /\ world'.head # NoBranch)]_gitvars

(* What does not hold, each for one of the hazards of these calls.         *)
(* The numbers and the text of a diff are of the same changes.             *)
DiffTallies ==
  [][run.pc = "second" /\ run.call.tool = "diff" /\ run'.pc = "exited2" => run'.seen = run.seen]_gitvars
(* A call that fails has done nothing. *)
FailedDidNothing ==
  [][run.pc = "killed" /\ run.call.tool = "push" => run.branch \notin DOMAIN world.remote
       \/ world.heads[run.branch] # world.remote[run.branch]]_gitvars
(* Nothing is in the way of the next call. *)
GitUsable == run = NoGit => ~world.lock
=============================================================================
