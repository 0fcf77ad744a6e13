------------------------------ MODULE Approvals ------------------------------
(***************************************************************************)
(* Who lets a tool call through: the permission mode and the user's rules  *)
(* (apps/desktop/src-tauri/src/permissions.rs, crates/sandbox-runtime),    *)
(* and the user, asked on the screen.  Several askers wait at a time: the  *)
(* subtasks of one call, and, as a reload of the screen forgets that a run  *)
(* is on, the runs of two conversations.  The backend keeps every request   *)
(* by its id; the screen has room for one.                                 *)
(***************************************************************************)
EXTENDS Naturals, Sequences, FiniteSets

CONSTANTS
  Askers,
  Lead,           \* [Askers -> Askers]: the run a subtask works for; a run leads itself
  Commands,       \* first words of commands; "look" is on the low risk list
  RuleSets,       \* the rules the database may hold at the start
  MaxRequests, MaxReloads   \* bounds: requests, reloads of the screen

VARIABLES
  rules,       \* table permission_rules
  agents,      \* the askers: phase, mode, rules as their run found them, call
  requests,    \* state.approvals: id -> who asks, and the rule to remember
  emitted,     \* events on their way to the screen: ids of requests, and chat-done
  screen,      \* the request the dialog shows
  sending,     \* the run whose end the screen listens for
  stops,       \* per run, how far a press of the stop button has come
  seq,         \* APPROVAL_SEQ
  disturbed,   \* history: requests that met what makes the screen forget them
  reloads

apvars == <<rules, agents, requests, emitted, screen, sending, stops, seq, disturbed, reloads>>

Runs     == {a \in Askers : Lead[a] = a}
Nobody   == "nobody"
ChatDone == 0   \* ids start at 1

Modes == {"Restricted", "AskEveryTime", "WorkspaceAuto", "FullAccess"}

(* One tool of each class, and a command. *)
Plain     == {"read_file", "write_file", "delete_file", "add_mcp_server", "web_search", "git_push", "unknown"}
Call      == [tool : Plain, cmd : {"none"}, revertible : {TRUE}]
             \cup [tool : {"write_file"}, cmd : {"none"}, revertible : {FALSE}]
             \cup [tool : {"run_command"}, cmd : Commands, revertible : {TRUE}]
LowRisk   == {"look"}

Capability(tool) ==
  CASE tool = "read_file"   -> "FileRead"
    [] tool = "write_file"  -> "FileWrite"
    [] tool = "delete_file" -> "FileDelete"
    [] tool \in {"run_command", "add_mcp_server"} -> "CommandRun"
    [] tool \in {"web_search", "git_push"}        -> "NetworkAccess"

DecideToolAccess(mode, capability) ==
  CASE mode = "FullAccess" \/ capability = "FileRead"               -> "Allow"
    [] mode = "Restricted" /\ capability # "FileRead"               -> "Deny"
    [] mode = "WorkspaceAuto" /\ capability = "FileWrite"           -> "Allow"
    [] OTHER                                                        -> "Ask"

(* A rule: deny or allow, by command or by tool; a rule with a path is a   *)
(* rule by tool here.                                                      *)
Rule == [deny : BOOLEAN, by : {"cmd"}, what : Commands] \cup [deny : BOOLEAN, by : {"tool"}, what : Plain \cup {"run_command"}]
ASSUME ApprovalsAssumption ==
  /\ RuleSets \subseteq SUBSET Rule
  /\ Lead \in [Askers -> Askers] /\ \A a \in Askers : Lead[Lead[a]] = Lead[a]
  /\ Nobody \notin Askers

Covers(rule, call) == rule.what = IF rule.by = "cmd" THEN call.cmd ELSE call.tool

RulesDecision(known, call) ==
  LET hit == {r \in known : Covers(r, call)}
  IN IF \E r \in hit : r.deny THEN "Deny" ELSE IF hit # {} THEN "Allow" ELSE "none"

GateToolDecision(mode, known, call) ==
  IF call.tool = "unknown" \/ RulesDecision(known, call) = "Deny" THEN "Deny"
  ELSE IF mode = "WorkspaceAuto" /\ (call.tool = "web_search" \/ call.cmd \in LowRisk) THEN "Allow"
  ELSE LET access == DecideToolAccess(mode, Capability(call.tool))
       IN IF access = "Ask" /\ RulesDecision(known, call) = "Allow" THEN "Allow" ELSE access

(* permission_rule_for: what "always allow" will remember. *)
PermissionRuleFor(call) ==
  IF call.tool = "run_command" THEN [deny |-> FALSE, by |-> "cmd", what |-> call.cmd]
                               ELSE [deny |-> FALSE, by |-> "tool", what |-> call.tool]

-----------------------------------------------------------------------------
Resting == [phase |-> "idle", mode |-> "Restricted", rules |-> {}, id |-> 0, stopped |-> FALSE]

ApInit ==
  /\ rules \in RuleSets
  /\ agents = [a \in Askers |-> Resting]
  /\ requests = [i \in {} |-> 0] /\ emitted = <<>> /\ screen = 0 /\ seq = 1
  /\ sending = Nobody /\ stops = [a \in Runs |-> "no"]
  /\ disturbed = {} /\ reloads = 0

(* A run reads the rules once, when it starts. *)
BeginRun(a, mode) ==
  /\ a \in Runs /\ agents[a].phase = "idle"
  /\ sending = Nobody /\ sending' = a
  /\ agents' = [agents EXCEPT ![a] = [Resting EXCEPT !.phase = "run", !.mode = mode, !.rules = rules]]
  /\ UNCHANGED <<rules, requests, emitted, screen, stops, seq, disturbed, reloads>>

(* A subtask of a call has the mode, the rules and the flag of its run.     *)
BeginSubtask(a) ==
  /\ a \notin Runs /\ agents[a].phase = "idle"
  /\ agents[Lead[a]].phase = "run" /\ ~agents[Lead[a]].stopped
  /\ agents' = [agents EXCEPT ![a] = agents[Lead[a]]]
  /\ UNCHANGED <<rules, requests, emitted, screen, sending, stops, seq, disturbed, reloads>>

(* While its subtasks are at work, a run waits for them.                    *)
Free(a) == agents[a].phase = "run" /\ \A b \in Askers : Lead[b] = a /\ b # a => agents[b].phase = "idle"

EndSubtask(a) ==
  /\ a \notin Runs /\ agents[a].phase = "run" /\ agents' = [agents EXCEPT ![a] = Resting]
  /\ UNCHANGED <<rules, requests, emitted, screen, sending, stops, seq, disturbed, reloads>>

(* chat-done names no conversation.                                        *)
EndRun(a) ==
  /\ a \in Runs /\ Free(a) /\ agents' = [agents EXCEPT ![a] = Resting]
  /\ emitted' = Append(emitted, ChatDone) /\ disturbed' = disturbed \cup DOMAIN requests
  /\ UNCHANGED <<rules, requests, screen, sending, stops, seq, reloads>>

(* The send command returns an error, to the screen that sent.              *)
FailRun(a) ==
  /\ a \in Runs /\ Free(a) /\ agents' = [agents EXCEPT ![a] = Resting]
  /\ sending' = IF sending = a THEN Nobody ELSE sending
  /\ UNCHANGED <<rules, requests, emitted, screen, stops, seq, disturbed, reloads>>

Refusing == \E c \in Runs : stops[c] = "refused"

(* request_tool_approval registers the request, then tells the screen.     *)
RequestToolApproval(a, call) ==
  /\ seq <= MaxRequests /\ seq' = seq + 1
  /\ requests' = [i \in DOMAIN requests \cup {seq} |->
                    IF i = seq THEN [who |-> a, rule |-> PermissionRuleFor(call)] ELSE requests[i]]
  /\ emitted' = Append(emitted, seq)
  /\ agents' = [agents EXCEPT ![a].phase = "asked", ![a].id = seq]
  /\ disturbed' = IF DOMAIN requests = {} /\ ~Refusing THEN disturbed ELSE disturbed \cup DOMAIN requests \cup {seq}

(* A call that cannot be taken back is asked for even where it is allowed. *)
(* A call that the stop comes too late for is one made before it.           *)
ToolCall(a, call) ==
  /\ Free(a) /\ ~agents[a].stopped
  /\ LET gate == GateToolDecision(agents[a].mode, agents[a].rules, call)
     IN IF gate = "Ask" \/ (gate = "Allow" /\ ~call.revertible)
        THEN RequestToolApproval(a, call)
        ELSE UNCHANGED <<agents, requests, emitted, seq, disturbed>>
  /\ UNCHANGED <<rules, screen, sending, stops, reloads>>

(* An event arrives.  A request takes the place of what is shown.  The end   *)
(* of a run, whichever it is, closes the dialog if the screen listens.      *)
ShowEvent ==
  /\ emitted # <<>> /\ emitted' = Tail(emitted)
  /\ \/ Head(emitted) # ChatDone /\ screen' = Head(emitted) /\ UNCHANGED sending
     \/ Head(emitted) = ChatDone /\ sending # Nobody /\ screen' = 0 /\ sending' = Nobody
     \/ Head(emitted) = ChatDone /\ sending = Nobody /\ UNCHANGED <<screen, sending>>
  /\ UNCHANGED <<rules, agents, requests, stops, seq, disturbed, reloads>>

Awake(agent) == [agent EXCEPT !.phase = "run", !.id = 0]

(* respond_approval takes the request out and wakes the one who waits.     *)
RespondApproval(id, approved, remember) ==
  IF id \notin DOMAIN requests THEN UNCHANGED <<rules, agents, requests>>
  ELSE LET a == requests[id].who
       IN /\ requests' = [i \in DOMAIN requests \ {id} |-> requests[i]]
          /\ rules' = IF approved /\ remember THEN rules \cup {requests[id].rule} ELSE rules
          /\ agents' = [agents EXCEPT ![a] = Awake(@)]

(* The dialog closes and the answer is sent without an await in between.    *)
UserAnswers(approved, remember) ==
  /\ screen # 0 /\ screen' = 0
  /\ RespondApproval(screen, approved, remember)
  /\ UNCHANGED <<emitted, sending, stops, seq, disturbed, reloads>>

(* Slip: the dialog is closed and nobody is told. *)
SlipStopRefuses(conv) ==
  /\ sending # Nobody /\ stops[conv] = "no" /\ screen # 0
  /\ stops' = [stops EXCEPT ![conv] = "refused"]
  /\ UNCHANGED <<rules, agents, requests, emitted, screen, sending, seq, disturbed, reloads>>

(* handleStop: with a request on the screen, whoever asked it, it is refused *)
(* first; when the answer is through, whatever is shown then is closed, and  *)
(* only then the run is cancelled.  The one refused is not stopped yet and   *)
(* may ask again in between.                                               *)
StopRefuses(conv) ==
  /\ sending # Nobody /\ stops[conv] = "no" /\ screen # 0
  /\ stops' = [stops EXCEPT ![conv] = "refused"]
  /\ RespondApproval(screen, FALSE, FALSE)
  /\ UNCHANGED <<emitted, screen, sending, seq, disturbed, reloads>>

StopClears(conv) ==
  /\ stops[conv] = "refused" /\ stops' = [stops EXCEPT ![conv] = "cleared"]
  /\ screen' = 0
  /\ UNCHANGED <<rules, agents, requests, emitted, sending, seq, disturbed, reloads>>

(* cancel_agent: the flag of the run is that of its subtasks too.  One that  *)
(* waits for an answer sees it when it is answered.                        *)
StopCancels(conv) ==
  /\ stops[conv] = "cleared" \/ (stops[conv] = "no" /\ sending # Nobody /\ screen = 0)
  /\ stops' = [stops EXCEPT ![conv] = "no"]
  /\ agents' = [a \in Askers |-> IF Lead[a] = conv /\ agents[a].phase # "idle"
                                 THEN [agents[a] EXCEPT !.stopped = TRUE] ELSE agents[a]]
  /\ UNCHANGED <<rules, requests, emitted, screen, sending, seq, disturbed, reloads>>

ReloadScreen ==
  /\ reloads < MaxReloads /\ reloads' = reloads + 1
  /\ screen' = 0 /\ emitted' = <<>> /\ disturbed' = disturbed \cup DOMAIN requests
  /\ sending' = Nobody /\ stops' = [a \in Runs |-> "no"]
  /\ UNCHANGED <<rules, agents, requests, seq>>

CreatePermissionRule(rule) ==
  /\ rule \notin rules /\ rules' = rules \cup {rule}
  /\ UNCHANGED <<agents, requests, emitted, screen, sending, stops, seq, disturbed, reloads>>

DeletePermissionRule(rule) ==
  /\ rule \in rules /\ rules' = rules \ {rule}
  /\ UNCHANGED <<agents, requests, emitted, screen, sending, stops, seq, disturbed, reloads>>

ApNext ==
  \/ \E a \in Askers :
       \/ \E mode \in Modes : BeginRun(a, mode)
       \/ BeginSubtask(a) \/ EndSubtask(a) \/ EndRun(a) \/ FailRun(a)
       \/ \E call \in Call : ToolCall(a, call)
  \/ ShowEvent
  \/ \E approved, remember \in BOOLEAN : UserAnswers(approved, remember)
  \/ \E conv \in Runs : StopRefuses(conv) \/ StopClears(conv) \/ StopCancels(conv)
  \/ ReloadScreen
  \/ \E rule \in UNION RuleSets : CreatePermissionRule(rule) \/ DeletePermissionRule(rule)

ApSpec == ApInit /\ [][ApNext]_apvars

-----------------------------------------------------------------------------
ApTypeOK ==
  /\ rules \subseteq Rule /\ DOMAIN requests \subseteq 1..seq-1
  /\ screen \in 0..seq-1 /\ sending \in Runs \cup {Nobody} /\ stops \in [Runs -> {"no", "refused", "cleared"}]
  /\ \A a \in Askers : agents[a].phase \in {"idle", "run", "asked"} /\ agents[a].rules \subseteq Rule

(* Every asker that waits has its request in the map, no two share one, and *)
(* the map holds nothing else.                                              *)
RequestsMatchWaiting ==
  /\ \A a \in Askers : agents[a].phase = "asked" =>
       agents[a].id \in DOMAIN requests /\ requests[agents[a].id].who = a
  /\ \A i \in DOMAIN requests : agents[requests[i].who].phase = "asked" /\ agents[requests[i].who].id = i

(* A request that waits is on the screen or on its way there, whatever else *)
(* was answered, stopped or denied before: unless it waits at a time with    *)
(* another, or while some run ends or the screen is reloaded, or was asked   *)
(* while a stop refused the one before.  Each of these makes the screen      *)
(* forget it, and as a request has no timeout and does not look at the flag, *)
(* its asker then waits for ever.                                          *)
WaitingIsVisible ==
  \A i \in DOMAIN requests \ disturbed :
    screen = i \/ \E k \in DOMAIN emitted : emitted[k] = i
=============================================================================
