------------------------------- MODULE MCHost --------------------------------
(***************************************************************************)
(* One run for the parts that talk to the world outside: worktrees,        *)
(* approvals, language servers, the stream of an answer, MCP servers,      *)
(* shells and git.  They share no state, so their state spaces are explored*)
(* side by side: part says which one moves, the others rest in one state.  *)
(***************************************************************************)
EXTENDS ParallelSubtasks, Approvals, LspPool, StreamRetry, McpClients, Shells, GitTools

VARIABLE part

(* A repository with one commit. *)
OneTree == [f \in GitFiles |-> "a"]
OneCommit == commits = <<[tree |-> OneTree, from |-> {}]>>

(* No rule, a rule that forbids a command, a rule that allows a tool. *)
RulesHere ==
  {{}, {[deny |-> TRUE, by |-> "cmd", what |-> "run"]}, {[deny |-> FALSE, by |-> "tool", what |-> "write_file"]}}

(* Two conversations, one with a subtask. *)
LeadHere == [a \in Askers |-> IF a = "s" THEN "m" ELSE a]

(* Six units of text; a marker early, late, at the very end; its first     *)
(* units only; one that starts with a unit of a marker.                    *)
AnsweredHere ==
  {<<>>, <<"t", "t", "t", "t", "t", "t">>, <<"t", "<", "To", "ol", "t", "t">>, <<"t", "t", "t", "<", "To", "t", "t">>,
   <<"t", "t", "t", "t", "t", "<", "To", "ol">>, <<"<", "<", "To", "ol">>}
SiblingHere ==
  [m \in ModelNames |-> IF m = "flash" THEN "pro" ELSE IF m = "pro" THEN "flash" ELSE "none"]

(* What each part starts with when it moves, and when it rests. *)
HostInit ==
  /\ part \in {"worktrees", "approvals", "lsp", "stream", "mcp", "shells", "git"}
  /\ OneCommit /\ PmInit
  /\ ApInit /\ LspInit /\ StrInit /\ McpInit /\ ShInit /\ GitInit
  /\ part = "worktrees" \/ parent.branch = "main"
  /\ part = "approvals" \/ rules = {}
  /\ lspcfg = "x"
  /\ part = "mcp" \/ \A s \in ServerIds : table[s].row = "absent"

HostNext ==
  /\ part' = part
  /\ \/ part = "worktrees" /\ PmNext /\ UNCHANGED <<apvars, lspvars, strvars, mcpvars, shvars, gitvars>>
     \/ part = "approvals" /\ ApNext /\ UNCHANGED <<pmvars, lspvars, strvars, mcpvars, shvars, gitvars>>
     \/ part = "lsp"       /\ LspNext /\ UNCHANGED <<pmvars, apvars, strvars, mcpvars, shvars, gitvars>>
     \/ part = "stream"    /\ StrNext /\ UNCHANGED <<pmvars, apvars, lspvars, mcpvars, shvars, gitvars>>
     \/ part = "mcp"       /\ McpNext /\ UNCHANGED <<pmvars, apvars, lspvars, strvars, shvars, gitvars>>
     \/ part = "shells"    /\ ShNext /\ UNCHANGED <<pmvars, apvars, lspvars, strvars, mcpvars, gitvars>>
     \/ part = "git"       /\ GitNext /\ UNCHANGED <<pmvars, apvars, lspvars, strvars, mcpvars, shvars>>

HostSpec == HostInit /\ [][HostNext]_<<part, pmvars, apvars, lspvars, strvars, mcpvars, shvars, gitvars>>

(* A call of parallel subtasks is made in a workspace nobody has edited yet  *)
(* and followed to its end; files are alike, so the first edit is of "f",    *)
(* and it changes the text.                                                  *)
FirstFile ==
  /\ orch.phase \in {"idle", "create"} => edits = 0
  /\ orch.phase \notin {"failed", "reported", "lost"}
  /\ edits <= 1 => \A w \in {parent.work} \cup {isolated[s].work : s \in DOMAIN isolated} : w["g"] = "a" /\ w["f"] # "gone"

(* Of several runs and subtasks at a time all ask every time, without rules; *)
(* what they ask for at a time would leave the same rule; one press of the   *)
(* stop button at a time.                                                    *)
AllAsk ==
  /\ rules \in RuleSets \cup {{[deny |-> FALSE, by |-> "cmd", what |-> "run"]}}
  /\ \A a, b \in Askers :
       a # b /\ agents[a].phase # "idle" /\ agents[b].phase # "idle" =>
         /\ agents[a].mode = "AskEveryTime" /\ agents[a].rules = {}
  /\ \A i, j \in DOMAIN requests : requests[i].rule = requests[j].rule
  /\ \A c, d \in Runs : c # d /\ stops[c] # "no" => stops[d] = "no"

(* Calls are alike, so the first on a language server is "o1", and the first *)
(* of an MCP tool "c1".  Of a death, a message nobody asked for and a change *)
(* of the settings one happens; pipes hold a few messages.                   *)
FirstCalls ==
  /\ asks <= 1 => lookups["o2"].pc = "idle"
  /\ sent <= 1 => callers["c2"].pc = "idle"
  /\ noise + deaths + (IF lspcfg = "x" THEN 0 ELSE 1) <= 1
  /\ \A p \in DOMAIN procs : procs[p] # Gone => Len(procs[p].inbox) <= 3 /\ Len(procs[p].rx) <= 2

(* With every change made, calls of git that only read are not followed, nor *)
(* locks left behind and commits on a detached HEAD.                         *)
WritingCalls ==
  world.made = MaxChanges =>
    run.call.tool \notin {"status", "log", "list"} /\ ~world.lock /\ world.head # NoBranch

Bounded == FirstFile /\ AllAsk /\ FirstCalls /\ WritingCalls

(* Files and settings change while calls on the language server are idle or *)
(* wait for it.                                                             *)
EditsWhileWaiting ==
  disk' # disk \/ lspcfg' # lspcfg => \A o \in Lookups : lookups[o].pc \in {"idle", "wait"}

(* Every part is in order: values of their kind; in the table of approvals  *)
(* exactly the ones who wait; each language server with one owner; what a  *)
(* push or a pull request reports is on the remote.                        *)
HostOK ==
  /\ PmTypeOK /\ ApTypeOK /\ LspTypeOK /\ StrTypeOK /\ McpTypeOK /\ ShTypeOK /\ GitTypeOK
  /\ RequestsMatchWaiting /\ ServersOwned /\ PushesReported
=============================================================================
