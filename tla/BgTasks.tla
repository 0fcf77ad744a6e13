------------------------------ MODULE BgTasks ------------------------------
(***************************************************************************)
(* Background subtasks (apps/desktop/src-tauri/src: subagent.rs            *)
(* execute_run_subtask, run_subtask_loop and execute_bg_task_tool;         *)
(* state.rs BgTask; commands.rs cancel_agent and kill_bg_activity).        *)
(*                                                                         *)
(* A run of a conversation launches a task: its entry goes into bg_tasks   *)
(* and an asynchronous loop fills the entry in, one lock per field.  Runs  *)
(* of any conversation poll the entry, field by field, and the first poll  *)
(* that finds the task finished settles its usage.  A run is reduced to    *)
(* what matters here: its token, and the tool call it is in.               *)
(***************************************************************************)
EXTENDS Integers, FiniteSets

CONSTANTS
  Convs,      \* conversations
  Tasks,      \* task ids, BG_TASK_SEQ never gives one twice
  MaxRounds,  \* SUBTASK_MAX_ROUNDS
  MaxRuns     \* bound: runs per conversation

Nobody == "nobody"
NoTask == "no task"

ASSUME TasksAssumption ==
  /\ Nobody \notin Convs
  /\ NoTask \notin Tasks
  /\ MaxRounds \in Nat \ {0}
  /\ MaxRuns \in Nat

VARIABLES
  owner,     \* BgTask.conversation_id; Nobody: not in bg_tasks yet
  status,    \* BgTask.status
  report,    \* BgTask.report
  usage,     \* BgTask.usage, 0 for None
  settled,   \* BgTask.settled
  cancel,    \* BgTask.cancel
  step,      \* where the task's loop is
  rounds,    \* completions asked for
  text,      \* the loop's report, not published yet
  final,     \* final_status
  spent,     \* the loop's usage
  run,       \* where the conversation's run is
  token,     \* the conversation's entry in AppState.cancels
  stopping,  \* cancel_agent has set the token and not cascaded yet
  poll,      \* get_task_output of the run: the task and what was read of it
  runs,      \* history: runs started, for the bound
  paid,      \* history: what was recorded for the task's usage, 0 for nothing
  answers,   \* history: what get_task_output returned of finished tasks
  late       \* history: completions since the task was cancelled

entry    == <<owner, status, report, usage, settled>>
loop     == <<step, rounds, text, final, spent, late>>
convs    == <<run, token, stopping, poll, runs>>
vars     == <<entry, cancel, loop, convs, paid, answers>>

Statuses == {"running", "done", "killed"}
Texts    == {"", "report", "none given", "error"}
Steps    == {"unborn", "top", "asking", "decide", "report", "usage", "status", "over"}
Calls    == {"idle", "loop", "launching", "polling", "status", "report", "settling"}
NoPoll   == [task |-> NoTask, status |-> "running", report |-> ""]

Init ==
  /\ owner = [t \in Tasks |-> Nobody]     /\ status = [t \in Tasks |-> "running"]
  /\ report = [t \in Tasks |-> ""]        /\ usage = [t \in Tasks |-> 0]
  /\ settled = [t \in Tasks |-> FALSE]    /\ cancel = [t \in Tasks |-> FALSE]
  /\ step = [t \in Tasks |-> "unborn"]    /\ rounds = [t \in Tasks |-> 0]
  /\ text = [t \in Tasks |-> ""]          /\ final = [t \in Tasks |-> "running"]
  /\ spent = [t \in Tasks |-> 0]          /\ late = [t \in Tasks |-> 0]
  /\ run = [c \in Convs |-> "idle"]       /\ token = [c \in Convs |-> "none"]
  /\ stopping = [c \in Convs |-> FALSE]   /\ poll = [c \in Convs |-> NoPoll]
  /\ runs = [c \in Convs |-> 0]
  /\ paid = [t \in Tasks |-> 0]        /\ answers = {}

-----------------------------------------------------------------------------
(* The task's loop. *)

Go(t, from, to) == step[t] = from /\ step' = [step EXCEPT ![t] = to]

(* Slip: the status is published first. *)
StatusFirst(s) == [decide |-> "status", status |-> "report", report |-> "usage", usage |-> "over"][s]

(* Slip: the usage is published last. *)
UsageLast(s) == [decide |-> "report", report |-> "status", status |-> "usage", usage |-> "over"][s]

(* The order in which the loop's end fills the entry in, a lock each. *)
After(s) == [decide |-> "report", report |-> "usage", usage |-> "status", status |-> "over"][s]

LoopFrame == UNCHANGED <<owner, settled, cancel, convs, paid, answers>>

(* Slip: one round too many. *)
CheckOneMore(t) ==
  /\ IF cancel[t] \/ rounds[t] > MaxRounds
     THEN Go(t, "top", "decide") /\ text' = [text EXCEPT ![t] = "none given"]
     ELSE Go(t, "top", "asking") /\ UNCHANGED text
  /\ LoopFrame
  /\ UNCHANGED <<status, report, usage, rounds, final, spent, late>>

(* Slip: the flag is not read between rounds. *)
CheckUncancelled(t) ==
  /\ IF rounds[t] = MaxRounds
     THEN Go(t, "top", "decide") /\ text' = [text EXCEPT ![t] = "none given"]
     ELSE Go(t, "top", "asking") /\ UNCHANGED text
  /\ LoopFrame
  /\ UNCHANGED <<status, report, usage, rounds, final, spent, late>>

(* The top of a round: cancelled, or out of rounds, or one more request. *)
CheckCancel(t) ==
  /\ IF cancel[t] \/ rounds[t] = MaxRounds
     THEN Go(t, "top", "decide") /\ text' = [text EXCEPT ![t] = "none given"]
     ELSE Go(t, "top", "asking") /\ UNCHANGED text
  /\ LoopFrame
  /\ UNCHANGED <<status, report, usage, rounds, final, spent, late>>

(* The security context of the workspace cannot be made: no round at all. *)
SetupFails(t) ==
  /\ rounds[t] = 0
  /\ Go(t, "top", "decide")
  /\ text' = [text EXCEPT ![t] = "error"]
  /\ LoopFrame
  /\ UNCHANGED <<status, report, usage, rounds, final, spent, late>>

(* The model answers, with read-only tool calls that run at once, or with a  *)
(* report, which may be blank.  The endpoint may leave the usage out.  The   *)
(* flag is not read.                                                         *)
Completion(t) ==
  /\ \/ Go(t, "asking", "top") /\ UNCHANGED text
     \/ /\ Go(t, "asking", "decide")
        /\ \E r \in {"report", "none given"} : text' = [text EXCEPT ![t] = r]
  /\ rounds' = [rounds EXCEPT ![t] = @ + 1]
  /\ \E u \in {0, 1} : spent' = [spent EXCEPT ![t] = @ + u]
  /\ late' = IF cancel[t] THEN [late EXCEPT ![t] = @ + 1] ELSE late
  /\ LoopFrame
  /\ UNCHANGED <<status, report, usage, final>>

(* Slip: an error ends the loop without publishing anything. *)
CompletionFailsSilently(t) ==
  /\ Go(t, "asking", "over")
  /\ text' = [text EXCEPT ![t] = "error"]
  /\ LoopFrame
  /\ UNCHANGED <<status, report, usage, rounds, final, spent, late>>

(* The request fails, its retries too: the error is the report. *)
CompletionFails(t) ==
  /\ Go(t, "asking", "decide")
  /\ text' = [text EXCEPT ![t] = "error"]
  /\ LoopFrame
  /\ UNCHANGED <<status, report, usage, rounds, final, spent, late>>

(* final_status: by the flag alone, also after an error. *)
Decide(t) ==
  /\ Go(t, "decide", After("decide"))
  /\ final' = [final EXCEPT ![t] = IF cancel[t] THEN "killed" ELSE "done"]
  /\ LoopFrame
  /\ UNCHANGED <<status, report, usage, rounds, text, spent, late>>

PublishReport(t) ==
  /\ Go(t, "report", After("report"))
  /\ report' = [report EXCEPT ![t] = text[t]]
  /\ LoopFrame
  /\ UNCHANGED <<status, usage, rounds, text, final, spent, late>>

PublishUsage(t) ==
  /\ Go(t, "usage", After("usage"))
  /\ usage' = [usage EXCEPT ![t] = spent[t]]
  /\ LoopFrame
  /\ UNCHANGED <<status, report, rounds, text, final, spent, late>>

PublishStatus(t) ==
  /\ Go(t, "status", After("status"))
  /\ status' = [status EXCEPT ![t] = final[t]]
  /\ LoopFrame
  /\ UNCHANGED <<report, usage, rounds, text, final, spent, late>>

-----------------------------------------------------------------------------
(* The conversations' runs. *)

Call(c, from, to) == run[c] = from /\ run' = [run EXCEPT ![c] = to]

ConvFrame == UNCHANGED <<status, report, usage, step, rounds, text, final, spent, late>>

StartRun(c) ==
  /\ runs[c] < MaxRuns
  /\ Call(c, "idle", "loop")
  /\ runs' = [runs EXCEPT ![c] = @ + 1]
  /\ token' = [token EXCEPT ![c] = "live"]
  /\ ConvFrame
  /\ UNCHANGED <<owner, settled, cancel, stopping, poll, paid, answers>>

(* send_message cleans up, after a stop, an error or the final answer. *)
EndRun(c) ==
  /\ Call(c, "loop", "idle")
  /\ token' = [token EXCEPT ![c] = "none"]
  /\ ConvFrame
  /\ UNCHANGED <<owner, settled, cancel, stopping, poll, runs, paid, answers>>

(* The run is past its check of the flag and about to run run_subtask. *)
BeginLaunch(c) ==
  /\ token[c] = "live"
  /\ Call(c, "loop", "launching")
  /\ ConvFrame
  /\ UNCHANGED <<owner, settled, cancel, token, stopping, poll, runs, paid, answers>>

(* execute_run_subtask in the background: the entry is registered and the    *)
(* loop spawned; the loop starts with its check.                             *)
Launch(c, t) ==
  /\ owner[t] = Nobody
  /\ Call(c, "launching", "loop")
  /\ owner' = [owner EXCEPT ![t] = c]
  /\ step' = [step EXCEPT ![t] = "top"]
  /\ UNCHANGED <<status, report, usage, settled, cancel, rounds, text, final, spent,
                 late, token, stopping, poll, runs, paid, answers>>

(* get_task_output finds the entry, whoever launched it.  With block the     *)
(* poll sleeps until the task is finished or the time is out: any while.     *)
BeginPoll(c, t) ==
  /\ token[c] = "live"
  /\ owner[t] # Nobody
  /\ Call(c, "loop", "polling")
  /\ poll' = [poll EXCEPT ![c] = [NoPoll EXCEPT !.task = t]]
  /\ ConvFrame
  /\ UNCHANGED <<owner, settled, cancel, token, stopping, runs, paid, answers>>

PollFrame == ConvFrame /\ UNCHANGED <<owner, cancel, token, stopping, runs>>

ReadStatus(c) ==
  /\ Call(c, "polling", "status")
  /\ poll' = [poll EXCEPT ![c].status = status[poll[c].task]]
  /\ PollFrame
  /\ UNCHANGED <<settled, paid, answers>>

ReadReport(c) ==
  /\ Call(c, "status", "report")
  /\ poll' = [poll EXCEPT ![c].report = report[poll[c].task]]
  /\ PollFrame
  /\ UNCHANGED <<settled, paid, answers>>

Returned(c) ==
  answers' = IF poll[c].status = "running" THEN answers ELSE answers \cup {poll[c]}

(* Slip: the flag is set only when the usage was recorded. *)
SettleLate(c) ==
  LET t == poll[c].task
  IN  /\ IF poll[c].status # "running" /\ ~settled[t]
         THEN Call(c, "report", "settling") /\ UNCHANGED <<settled, answers, poll>>
         ELSE Call(c, "report", "loop") /\ Returned(c) /\ UNCHANGED settled
              /\ poll' = [poll EXCEPT ![c] = NoPoll]
      /\ PollFrame
      /\ UNCHANGED paid

(* settled.swap(true): the first poll that finds the task finished takes its *)
(* usage; any other returns.                                                 *)
Settle(c) ==
  LET t == poll[c].task
  IN  /\ IF poll[c].status # "running" /\ ~settled[t]
         THEN /\ Call(c, "report", "settling")
              /\ settled' = [settled EXCEPT ![t] = TRUE]
              /\ UNCHANGED <<answers, poll>>
         ELSE /\ Call(c, "report", "loop")
              /\ poll' = [poll EXCEPT ![c] = NoPoll]
              /\ Returned(c)
              /\ UNCHANGED settled
      /\ PollFrame
      /\ UNCHANGED paid

(* The usage, if any, is recorded (record_usage_attribution) and merged. *)
Bill(c) ==
  LET t == poll[c].task
  IN  /\ Call(c, "settling", "loop")
      /\ poll' = [poll EXCEPT ![c] = NoPoll]
      /\ Returned(c)
      /\ paid' = [paid EXCEPT ![t] = @ + usage[t]]
      /\ PollFrame
      /\ UNCHANGED settled

-----------------------------------------------------------------------------
(* Stops. *)

StopFrame == ConvFrame /\ UNCHANGED <<owner, settled, run, poll, runs, paid, answers>>

(* set_task_cancel: by kill_task of any run, or kill_bg_activity of the UI. *)
Kill(t) ==
  /\ owner[t] # Nobody
  /\ cancel' = [cancel EXCEPT ![t] = TRUE]
  /\ StopFrame
  /\ UNCHANGED <<token, stopping>>

(* cancel_agent: first the token of the run, if it has one ... *)
CancelAgent(c) ==
  /\ token' = [token EXCEPT ![c] = IF @ = "live" THEN "cancelled" ELSE @]
  /\ stopping' = [stopping EXCEPT ![c] = TRUE]
  /\ StopFrame
  /\ UNCHANGED cancel

(* ... then, under the lock of bg_tasks, the tasks of the conversation. *)
Cascade(c) ==
  /\ stopping[c]
  /\ stopping' = [stopping EXCEPT ![c] = FALSE]
  /\ cancel' = [t \in Tasks |-> cancel[t] \/ owner[t] = c]
  /\ StopFrame
  /\ UNCHANGED token

-----------------------------------------------------------------------------
Loop(t) ==
  \/ SetupFails(t) \/ CheckCancel(t)
  \/ Completion(t) \/ CompletionFails(t) \/ Decide(t)
  \/ PublishReport(t) \/ PublishUsage(t) \/ PublishStatus(t)

Polling(c) == ReadStatus(c) \/ ReadReport(c) \/ Settle(c) \/ Bill(c)

Run(c) ==
  \/ StartRun(c) \/ EndRun(c) \/ BeginLaunch(c) \/ Polling(c)
  \/ \E t \in Tasks : Launch(c, t) \/ BeginPoll(c, t)

Stop ==
  \/ \E t \in Tasks : Kill(t)
  \/ \E c \in Convs : CancelAgent(c) \/ Cascade(c)

Next == (\E t \in Tasks : Loop(t)) \/ (\E c \in Convs : Run(c)) \/ Stop

Spec == Init /\ [][Next]_vars

(* The runtime polls the task's future, its requests have a timeout (the     *)
(* client's 300 s) and its tools only read; a poll in progress goes on.      *)
FairSpec ==
  /\ Spec
  /\ \A t \in Tasks : WF_vars(Loop(t))
  /\ \A c \in Convs : WF_vars(Polling(c))

-----------------------------------------------------------------------------
(* Every variable holds a value of the program, and no task asks for more    *)
(* than SUBTASK_MAX_ROUNDS completions.                                      *)
TypeOK ==
  /\ owner \in [Tasks -> Convs \cup {Nobody}]
  /\ status \in [Tasks -> Statuses]
  /\ report \in [Tasks -> Texts]       /\ text \in [Tasks -> Texts]
  /\ usage \in [Tasks -> Nat]          /\ spent \in [Tasks -> Nat]
  /\ settled \in [Tasks -> BOOLEAN]    /\ cancel \in [Tasks -> BOOLEAN]
  /\ step \in [Tasks -> Steps]         /\ final \in [Tasks -> Statuses]
  /\ rounds \in [Tasks -> 0..MaxRounds] /\ late \in [Tasks -> Nat]
  /\ run \in [Convs -> Calls]
  /\ token \in [Convs -> {"none", "live", "cancelled"}]
  /\ stopping \in [Convs -> BOOLEAN]
  /\ poll \in [Convs -> [task : Tasks \cup {NoTask}, status : Statuses, report : Texts]]
  /\ runs \in [Convs -> Nat]
  /\ paid \in [Tasks -> Nat]
  /\ answers \subseteq [task : Tasks \cup {NoTask}, status : Statuses, report : Texts]

(* Two polls that find a task finished, of one run or of two, in whatever    *)
(* order with its last steps, return the same: its final status and its      *)
(* whole report (execute_run_subtask publishes the report before the status, *)
(* get_task_output reads the status before the report).                      *)
FinalAnswersAgree ==
  \A a \in answers :
    a.status = final[a.task] /\ a.report = text[a.task] /\ a.report # ""

(* What a task spends is recorded at most once, and then in full, however    *)
(* many polls race for it (settled.swap; the usage is published before the   *)
(* status): see UsageLedger.                                                 *)
Ledger == INSTANCE UsageLedger
BilledOnce == Ledger!Spec

(* A task that was told to stop makes at most one more request: the one      *)
(* already past its check of the flag.                                       *)
KillBound == \A t \in Tasks : late[t] <= 1

(* A task that some poll settled is not forgotten: what it spent ends up     *)
(* recorded.                                                                 *)
SettledIsPaid ==
  \A t \in Tasks : (settled[t] /\ spent[t] > 0) ~> (paid[t] = spent[t])

(* A launched task ends, with its report, whatever the endpoint answers and  *)
(* whoever stops it.                                                         *)
TaskEnds == \A t \in Tasks : owner[t] # Nobody ~> (status[t] # "running" /\ report[t] # "")

-----------------------------------------------------------------------------
(* What the documentation says, and the code does not do. *)

(* Once a stop has gone through, its token and its cascade, every task of    *)
(* the conversation is told to stop (cancel_agent), while the run winds up.  *)
StopReachesTasks ==
  \A c \in Convs : token[c] = "cancelled" /\ ~stopping[c] =>
    \A t \in Tasks : owner[t] = c => cancel[t] \/ status[t] # "running"
=============================================================================
