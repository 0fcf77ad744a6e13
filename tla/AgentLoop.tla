----------------------------- MODULE AgentLoop -----------------------------
(***************************************************************************)
(* One conversation's agent runs (apps/desktop/src-tauri/src/agent_loop.rs *)
(* send_message and chat_with_builtin_tools, with the commands of          *)
(* commands.rs and the send / stop flow of apps/desktop/src/App.tsx that   *)
(* drive them).                                                            *)
(*                                                                         *)
(* The durable state is the messages table (chat) and the wire snapshot    *)
(* (snap); the rest is memory and a crash loses it.  A run assembles its   *)
(* wire from the snapshot, then alternates rounds of the model with the    *)
(* tool calls the model declares, writing the snapshot as it goes.         *)
(***************************************************************************)
EXTENDS WireHistory

CONSTANTS
  ReusableIds,     \* ids that may be declared again (dsml_call_0, call_0 ...)
  AllowSummary,    \* the model's context window is configured
  AskUser,         \* the ask_user tool is used
  PlanMode,        \* the user may send in plan mode
  EarlyErrors,     \* a run may fail before its token is registered
  MaxSends, MaxCrashes, MaxLost, MaxFeedback, MaxWire  \* bounds

NoCall == "no call"
PlanNote == "approved plan"

ASSUME LoopAssumption ==
  /\ ReusableIds \subseteq CallIds
  /\ Texts \cap Steers = {} /\ "feedback" \notin Steers   \* told apart by where they come from
  /\ NoCall \notin CallIds
  /\ PlanNote \in Notes
  /\ {AllowSummary, AskUser, PlanMode, EarlyErrors} \subseteq BOOLEAN
  /\ {MaxSends, MaxCrashes, MaxLost, MaxFeedback, MaxWire} \subseteq Nat

VARIABLES
  chat,      \* messages table: user and assistant messages
  snap,      \* wire_snapshots row of the conversation
  wire,      \* wire_messages of the run in progress
  pc,        \* where the run is
  token,     \* the conversation's entry in AppState.cancels
  steer,     \* the conversation's queue in AppState.steering
  todo,      \* declared calls the round has not handled yet
  cur,       \* the call being handled
  turn,      \* the arguments of the run: plan mode, plan to execute
  reply,     \* the text the UI has streamed, saved when the run ends
  awaiting,  \* the plan the UI offers to execute
  landed,    \* history: calls whose side effect took place
  torn,      \* history: calls that landed and lost their result to a crash
  used,      \* history: ids declared so far
  queuedLog, \* history: steering messages in the order they were queued
  lost,      \* history: snapshot writes that failed
  afterStop, \* history: side effects since the stop was registered
  count      \* history: sends, crashes and feedback rounds, for the bounds

run     == <<wire, pc, token, steer, todo, cur, reply>>
effects == <<landed, torn, afterStop>>
vars    == <<chat, snap, run, turn, awaiting, effects, lost, used,
          queuedLog, count>>

PlanStages == {"plan"}
ToolStages == {"top", "summarizing", "stream", "checking", "tools", "batch",
               "approval", "shown", "asking", "exec", "landed"}
Stages     == {"idle", "sending", "closing", "failing"} \cup PlanStages \cup ToolStages

Turns      == [plan : BOOLEAN, exec : Answers \cup {"none", "partial"}]
NormalTurn == [plan |-> FALSE, exec |-> "none"]

TurnNotes(t) == IF t.exec = "none" THEN {} ELSE {PlanNote}

Reply(b) == [role |-> "assistant", body |-> b, ids |-> {}, notes |-> {}]

Init ==
  /\ chat = <<>>     /\ snap = EmptyWire
  /\ wire = EmptyWire /\ pc = "idle" /\ token = "none" /\ steer = <<>>
  /\ todo = {}       /\ cur = NoCall /\ reply = "none"
  /\ turn = NormalTurn /\ awaiting = "none"
  /\ landed = {}     /\ torn = {}    /\ afterStop = 0 /\ lost = 0
  /\ used = {}       /\ queuedLog = <<>>
  /\ count = [sends |-> 0, crashes |-> 0, feedback |-> 0]

-----------------------------------------------------------------------------
(* The user, through the UI. *)

(* streamAgent: send_message is invoked with the turn's arguments. *)
StartRun(t) ==
  /\ pc = "idle"
  /\ count.sends < MaxSends
  /\ pc' = "sending"
  /\ turn' = t
  /\ awaiting' = "none"
  /\ afterStop' = 0
  /\ count' = [count EXCEPT !.sends = @ + 1, !.feedback = 0]
  /\ UNCHANGED <<wire, token, steer, todo, cur, reply, lost, used, queuedLog>>

(* sendText: the user message is saved first.  The plan the UI offers can be *)
(* sent for execution (approveAndExecutePlan).                               *)
Send(b, t) ==
  /\ t.plan => PlanMode /\ t.exec = "none"
  /\ t.exec \in {"none", awaiting}
  /\ StartRun(t)
  /\ chat' = Append(chat, UserMsg(b, {}))
  /\ UNCHANGED <<snap, landed, torn>>

(* The snapshot row is deleted, and with it what is known of past calls. *)
ForgetSnapshot == snap' = EmptyWire /\ landed' = {} /\ torn' = {}

(* handleRegenerate with delete_last_assistant_message: the last answer and  *)
(* the snapshot go, and the same user message runs again.                    *)
Regenerate ==
  /\ Len(chat) >= 2
  /\ chat[Len(chat)].role = "assistant"
  /\ chat[Len(chat) - 1].role = "user"
  /\ StartRun(NormalTurn)
  /\ chat' = Front(chat)
  /\ ForgetSnapshot

(* rewind_to_message: the table is cut at a user message, the snapshot goes. *)
Rewind(i) ==
  /\ pc = "idle"
  /\ chat[i].role = "user"
  /\ chat' = SubSeq(chat, 1, i - 1)
  /\ ForgetSnapshot
  /\ UNCHANGED <<run, turn, awaiting, afterStop, lost, used, queuedLog, count>>

(* compact_history: the table becomes one digest, the snapshot goes. *)
CompactHistory ==
  /\ pc = "idle"
  /\ Len(chat) >= 4
  /\ chat' = <<Reply("digest")>>
  /\ ForgetSnapshot
  /\ UNCHANGED <<run, turn, awaiting, afterStop, lost, used, queuedLog, count>>

(* queue_steering: the UI offers it while it is sending; nothing checks that *)
(* a run will drain the queue.                                               *)
QueueSteering(s) ==
  /\ pc # "idle"
  /\ \A i \in DOMAIN queuedLog : queuedLog[i].body # s
  /\ steer' = Append(steer, s)
  /\ queuedLog' = Append(queuedLog, [body |-> s, run |-> count.sends])
  /\ UNCHANGED <<chat, snap, wire, pc, token, todo, cur, reply, turn, awaiting,
                 effects, lost, used, count>>

(* handleStop and cancel_agent: a no-op when no token is registered.  An     *)
(* approval on screen is rejected first (AnswerApproval); a question is not. *)
CancelAgent ==
  /\ token = "live"
  /\ pc # "shown"
  /\ token' = "cancelled"
  /\ UNCHANGED <<chat, snap, wire, pc, steer, todo, cur, reply, turn, awaiting,
                 effects, lost, used, queuedLog, count>>

-----------------------------------------------------------------------------
(* The frame of the steps of a run. *)

Step(from, to) == pc = from /\ pc' = to

UserFrame == UNCHANGED <<chat, turn, awaiting, queuedLog, torn>>

(* persist_wire: best effort, a failure is only logged. *)
Persist(w) ==
  \/ snap' = w /\ UNCHANGED lost
  \/ lost < MaxLost /\ lost' = lost + 1 /\ UNCHANGED snap

NoPersist == UNCHANGED <<snap, lost>>

(* Everything a run keeps in memory is dropped; the snapshot stays. *)
DropRun ==
  /\ token' = "none" /\ steer' = <<>> /\ wire' = EmptyWire
  /\ todo' = {} /\ cur' = NoCall

(* chat_with_builtin_tools returns and send_message cleans up; the UI is     *)
(* told by chat-done (closing) or by the error (failing).                    *)
Finish(from, outcome, text) ==
  /\ Step(from, outcome)
  /\ reply' = text
  /\ DropRun
  /\ UserFrame
  /\ NoPersist
  /\ UNCHANGED <<landed, afterStop, used, count>>

Stopped == token = "cancelled"

-----------------------------------------------------------------------------
(* send_message. *)

(* An error before the token is registered returns past the cleanup. *)
FailEarly ==
  /\ EarlyErrors
  /\ Step("sending", "failing")
  /\ reply' = "none"
  /\ UserFrame
  /\ NoPersist
  /\ UNCHANGED <<wire, token, steer, todo, cur, landed, afterStop, used, count>>

(* The token is registered; a plan run streams without tools, another run    *)
(* assembles its wire from the snapshot and the UI's messages.               *)
Register ==
  LET history == [chat EXCEPT ![Len(chat)].notes = TurnNotes(turn)]
      fresh   == [EmptyWire EXCEPT !.hist = history]
  IN  /\ Step("sending", IF turn.plan THEN "plan" ELSE "top")
      /\ token' = "live"
      /\ wire' = IF turn.plan THEN EmptyWire ELSE AssembleResume(snap, fresh)
      /\ reply' = "none"
      /\ UserFrame
      /\ NoPersist
      /\ UNCHANGED <<steer, todo, cur, landed, afterStop, used, count>>

PlanAnswer(a) == Finish("plan", "closing", a)
PlanStopped   == Stopped /\ Finish("plan", "closing", "partial")
PlanFails     == Finish("plan", "failing", "partial")

-----------------------------------------------------------------------------
(* chat_with_builtin_tools: the top of a round. *)

TopStopped == Stopped /\ Finish("top", "closing", "partial")

(* Slip: the queue is drained from its end. *)
SlipInjected ==
  IF steer = <<>> THEN wire
  ELSE LET queue == [i \in DOMAIN steer |->
                       UserMsg(steer[Len(steer) + 1 - i], IF i = 1 THEN wire.tail ELSE {})]
       IN  [wire EXCEPT !.hist = @ \o queue, !.tail = {}]

(* The steering queue is drained into the wire, one message each. *)
Injected ==
  LET Notes1(i) == IF i = 1 THEN wire.tail ELSE {}
      queue     == [i \in DOMAIN steer |-> UserMsg(steer[i], Notes1(i))]
  IN  IF steer = <<>> THEN wire
      ELSE [wire EXCEPT !.hist = @ \o queue, !.tail = {}]

RoundFrame == UserFrame /\ UNCHANGED <<token, todo, cur, landed, afterStop, used, count, reply>>

(* Drain, then persist what the request will carry and send it. *)
BeginRound ==
  /\ ~Stopped
  /\ Step("top", "stream")
  /\ steer' = <<>>
  /\ wire' = Injected
  /\ Persist(wire')
  /\ RoundFrame

(* Over the limit with nothing left to condense: a summary is asked for. *)
BeginSummary ==
  /\ AllowSummary
  /\ ~Stopped
  /\ Step("top", "summarizing")
  /\ steer' = <<>>
  /\ wire' = Injected
  /\ NoPersist
  /\ RoundFrame

SummaryDone ==
  /\ Step("summarizing", "stream")
  /\ wire' = Summarize(wire)
  /\ Persist(wire')
  /\ UNCHANGED steer
  /\ RoundFrame

SummaryFails == Finish("summarizing", "failing", "partial")

-----------------------------------------------------------------------------
(* The model's answer. *)

(* Slip: the flag is not watched while the answer streams. *)
StreamUnwatched == FALSE

StreamStopped == Stopped /\ Finish("stream", "closing", "partial")
StreamFails   == Finish("stream", "failing", "partial")
BudgetStops   == Finish("stream", "closing", "partial")

(* Slip: the calls are persisted only with their first result. *)
StreamCallsUnpersisted(S) ==
  /\ Step("stream", "tools")
  /\ S \cap used \subseteq ReusableIds
  /\ Len(wire.hist) < MaxWire
  /\ wire' = Push(wire, CallMsg(S))
  /\ todo' = S
  /\ used' = used \cup S
  /\ UserFrame
  /\ NoPersist
  /\ UNCHANGED <<token, steer, cur, landed, afterStop, count, reply>>

(* The answer declares calls: they are pushed and persisted before any runs. *)
StreamCalls(S) ==
  /\ Step("stream", "tools")
  /\ S \cap used \subseteq ReusableIds
  /\ Len(wire.hist) < MaxWire
  /\ wire' = Push(wire, CallMsg(S))
  /\ Persist(wire')
  /\ todo' = S
  /\ used' = used \cup S
  /\ UserFrame
  /\ UNCHANGED <<token, steer, cur, landed, afterStop, count, reply>>

(* sequence_loop_tripped, before any call is handled: the run pauses. *)
LoopTripped ==
  /\ todo # {}
  /\ Last(wire.hist).role = "assistant"
  /\ Finish("tools", "closing", "partial")

ToolFrame == UserFrame /\ UNCHANGED <<token, steer, used, count, reply>>

(* No calls: what was changed is verified and reviewed (FinishGate), and    *)
(* neither watches the flag.                                                *)
BeginChecks ==
  /\ Step("stream", "checking")
  /\ ToolFrame
  /\ NoPersist
  /\ UNCHANGED <<wire, todo, cur, landed, afterStop>>

(* The text is the final answer, which is not pushed to the wire ... *)
StreamFinal(a) == Finish("checking", "closing", a)

(* ... unless verification or review feeds something back. *)
Feedback ==
  /\ Step("checking", "top")
  /\ count.feedback < MaxFeedback
  /\ count' = [count EXCEPT !.feedback = @ + 1]
  /\ wire' = Push(wire, UserMsg("feedback", {}))
  /\ UserFrame
  /\ NoPersist
  /\ UNCHANGED <<token, steer, todo, cur, landed, afterStop, used, reply>>

-----------------------------------------------------------------------------
(* The calls of a round. *)

(* All calls are read-only and allowed: they run concurrently, *)
BeginBatch ==
  /\ ~Stopped
  /\ Step("tools", "batch")
  /\ Cardinality(todo) > 1
  /\ Last(wire.hist).role = "assistant"
  /\ ToolFrame
  /\ NoPersist
  /\ UNCHANGED <<wire, todo, cur, landed, afterStop>>

(* and when all have returned, their results are pushed and persisted. *)
ParallelBatch ==
  /\ Step("batch", "tools")
  /\ wire' = [wire EXCEPT !.hist = @ \o ToolMsgs(todo, "result")]
  /\ Persist(wire')
  /\ todo' = {}
  /\ ToolFrame
  /\ UNCHANGED <<cur, landed, afterStop>>

ToolsStopped == Stopped /\ todo # {} /\ Finish("tools", "closing", "partial")

(* Slip: the flag is read between rounds only. *)
BeginUnchecked(c, to) ==
  /\ to = "asking" => AskUser
  /\ Step("tools", to)
  /\ c \in todo
  /\ cur' = c
  /\ todo' = todo \ {c}
  /\ ToolFrame
  /\ NoPersist
  /\ UNCHANGED <<wire, landed, afterStop>>

(* A call is taken: it runs, or waits for the user. *)
Begin(c, to) ==
  /\ ~Stopped
  /\ to = "asking" => AskUser
  /\ Step("tools", to)
  /\ c \in todo
  /\ cur' = c
  /\ todo' = todo \ {c}
  /\ ToolFrame
  /\ NoPersist
  /\ UNCHANGED <<wire, landed, afterStop>>

(* Slip: the denial answers whatever call is being handled. *)
DenyCurrent(c) ==
  /\ wire' = Push(wire, ToolMsg(cur, "denied"))
  /\ cur' = NoCall
  /\ ToolFrame
  /\ NoPersist
  /\ UNCHANGED <<landed, afterStop>>

(* feed_tool_denial: the reason is the call's result; nothing is persisted. *)
Deny(c) ==
  /\ wire' = Push(wire, ToolMsg(c, "denied"))
  /\ cur' = NoCall
  /\ ToolFrame
  /\ NoPersist
  /\ UNCHANGED <<landed, afterStop>>

(* The gate refuses the call. *)
BeginDenied(c) ==
  /\ ~Stopped
  /\ Step("tools", "tools")
  /\ c \in todo
  /\ todo' = todo \ {c}
  /\ Deny(c)

(* The approval-request event reaches the UI. *)
ShowApproval ==
  /\ Step("approval", "shown")
  /\ ToolFrame
  /\ NoPersist
  /\ UNCHANGED <<wire, todo, cur, landed, afterStop>>

(* respond_approval: the stop flag is not read again after the wait. *)
Approve ==
  /\ Step("shown", "exec")
  /\ ToolFrame
  /\ NoPersist
  /\ UNCHANGED <<wire, todo, cur, landed, afterStop>>

(* respond_approval with a no. *)
Reject == Step("shown", "tools") /\ Deny(cur) /\ UNCHANGED todo

(* A PreToolUse hook, run before the tool, refuses the call. *)
HookRefuses == Step("exec", "tools") /\ Deny(cur) /\ UNCHANGED todo

(* Slip: the snapshot is written before the result is pushed. *)
RecordTooEarly(from) ==
  /\ Step(from, "tools")
  /\ wire' = Push(wire, ToolMsg(cur, "result"))
  /\ Persist(wire)
  /\ cur' = NoCall
  /\ ToolFrame
  /\ UNCHANGED <<todo, landed, afterStop>>

(* The call's result, or its error, is pushed and persisted. *)
Record(from) ==
  /\ Step(from, "tools")
  /\ wire' = Push(wire, ToolMsg(cur, "result"))
  /\ Persist(wire')
  /\ cur' = NoCall
  /\ ToolFrame
  /\ UNCHANGED <<todo, landed, afterStop>>

(* respond_ask_user. *)
AnswerQuestion == Record("asking")

(* The side effect of the call takes place, before its result is recorded. *)
Execute ==
  /\ Step("exec", "landed")
  /\ landed' = landed \cup {cur}
  /\ afterStop' = IF Stopped THEN afterStop + 1 ELSE afterStop
  /\ ToolFrame
  /\ NoPersist
  /\ UNCHANGED <<wire, todo, cur>>

RecordResult  == Record("landed")
RecordFailure == Record("exec")

(* detect_and_emit_stuck, then the next round. *)
RoundStuck == todo = {} /\ Finish("tools", "closing", "partial")

RoundDone ==
  /\ todo = {}
  /\ Step("tools", "top")
  /\ ToolFrame
  /\ NoPersist
  /\ UNCHANGED <<wire, todo, cur, landed, afterStop>>

-----------------------------------------------------------------------------
(* The end of a run in the UI, and the end of the process. *)

CloseFrame == UNCHANGED <<snap, wire, token, steer, todo, cur, turn, effects,
                          lost, used, queuedLog, count>>

(* chat-done: the streamed text is saved; a plan turn offers it for execution. *)
ChatDone ==
  /\ Step("closing", "idle")
  /\ chat' = Append(chat, Reply(reply))
  /\ awaiting' = IF turn.plan THEN reply ELSE awaiting
  /\ reply' = "none"
  /\ CloseFrame

(* The catch of streamAgent: only what was streamed before the error is saved. *)
ChatFailed ==
  /\ Step("failing", "idle")
  /\ chat' \in {chat} \cup (IF reply = "none" THEN {} ELSE {Append(chat, Reply(reply))})
  /\ reply' = "none"
  /\ UNCHANGED awaiting
  /\ CloseFrame

(* The process ends.  A call whose effect landed loses its result. *)
Crash ==
  /\ pc # "idle"
  /\ count.crashes < MaxCrashes
  /\ count' = [count EXCEPT !.crashes = @ + 1]
  /\ pc' = "idle"
  /\ DropRun
  /\ reply' = "none" /\ awaiting' = "none" /\ turn' = NormalTurn /\ afterStop' = 0
  /\ torn' = IF pc = "landed" THEN torn \cup {cur} ELSE torn
  /\ UNCHANGED <<chat, snap, landed, lost, used, queuedLog>>

-----------------------------------------------------------------------------
User ==
  \/ \E b \in Texts, t \in Turns : Send(b, t)
  \/ Regenerate
  \/ \E i \in DOMAIN chat : Rewind(i)
  \/ CompactHistory
  \/ \E s \in Steers : QueueSteering(s)
  \/ CancelAgent
  \/ Approve \/ Reject
  \/ AnswerQuestion

(* Whether and how the model's endpoint answers. *)
Endpoint ==
  \/ \E a \in Answers : PlanAnswer(a) \/ StreamFinal(a)
  \/ PlanFails \/ StreamFails \/ BudgetStops \/ BeginChecks
  \/ \E S \in SUBSET CallIds \ {{}} : StreamCalls(S)
  \/ Feedback

Local ==
  \/ FailEarly \/ Register \/ PlanStopped
  \/ TopStopped \/ BeginRound \/ BeginSummary \/ SummaryDone \/ SummaryFails
  \/ StreamStopped \/ LoopTripped
  \/ BeginBatch \/ ParallelBatch \/ ToolsStopped
  \/ \E c \in CallIds, to \in {"exec", "approval", "asking"} : Begin(c, to)
  \/ \E c \in CallIds : BeginDenied(c)
  \/ ShowApproval \/ HookRefuses \/ Execute \/ RecordResult \/ RecordFailure
  \/ RoundStuck \/ RoundDone
  \/ ChatDone \/ ChatFailed

Next == User \/ Endpoint \/ Local \/ Crash

Spec == Init /\ [][Next]_vars

(* Where the run waits without watching the flag: for the user, for tools    *)
(* and hooks (a child that keeps a pipe open, a subtask that asks the user), *)
(* for the commands of a verification and for the review.                    *)
Unwatched == {"shown", "asking", "exec", "landed", "batch", "checking"}

(* The runtime polls the run's future and the UI handles its events: a local *)
(* step outside those waits that stays possible is taken.  The summary       *)
(* request has a timeout.  Nothing is assumed of the user, of tools, of the  *)
(* endpoint's stream (it has no timeout) or of crashes.                      *)
Prompt   == pc \notin Unwatched /\ Local
FairSpec == Spec /\ WF_vars(Prompt)

-----------------------------------------------------------------------------
(* Every variable holds a value of the program: in particular the wire and   *)
(* the snapshot hold messages only, and the stages of a run are the known.   *)
TypeOK ==
  /\ chat \in Seq(Msg) /\ snap \in Wire /\ wire \in Wire
  /\ pc \in Stages
  /\ token \in {"none", "live", "cancelled"}
  /\ steer \in Seq(Steers)
  /\ todo \subseteq CallIds /\ cur \in CallIds \cup {NoCall}
  /\ turn \in Turns
  /\ reply \in Answers \cup {"none", "partial"}
  /\ awaiting \in Answers \cup {"none", "partial"}
  /\ landed \subseteq CallIds /\ torn \subseteq CallIds /\ used \subseteq CallIds
  /\ afterStop \in Nat /\ lost \in Nat
  /\ queuedLog \in Seq([body : Steers, run : Nat])
  /\ count \in [sends : Nat, crashes : Nat, feedback : Nat]

(* Every request sent to the model has each declared call followed by its    *)
(* result and no result without its call: finalize_wire and the order in     *)
(* which the loop pushes messages see to it after any stop, error or crash.  *)
RequestPaired == pc = "stream" => WellPaired(wire.hist)

(* No request answers a call twice, whatever mixture of denials, parallel    *)
(* results, failures and placeholders answered the calls.                    *)
AnsweredOnce ==
  pc = "stream" =>
    \A i, j \in DOMAIN wire.hist :
      /\ wire.hist[i].role = "tool" /\ wire.hist[j].role = "tool"
      /\ wire.hist[i].ids = wire.hist[j].ids
      => i = j

(* At every instant the snapshot can be resumed with a new user message into *)
(* a well paired request (persist_wire, assemble_resume_wire), even when     *)
(* writes of it failed on the way.                                           *)
SnapshotResumable ==
  \A b \in Texts :
    WellPaired(AssembleResume(snap, [EmptyWire EXCEPT !.hist = <<UserMsg(b, {})>>]).hist)

(* A call runs, or waits for the user, only when the snapshot already        *)
(* declares it and does not answer it: persist_wire precedes the tools.      *)
WriteAhead ==
  lost = 0 /\ pc \in {"approval", "shown", "asking", "exec", "landed"} => cur \in Orphans(snap.hist)

(* A side effect that took place has its result in the snapshot, unless its  *)
(* result is being recorded or a crash took it: no later stop, error, crash  *)
(* or resume loses it, so the model is not led to do it again.               *)
EffectsDurable ==
  lost = 0 =>
    landed \ (torn \cup (IF pc = "landed" THEN {cur} ELSE {})) \subseteq Resolved(snap.hist)

(* A call torn by a crash (done, result lost) is in every later request, and *)
(* is reported as interrupted.                                               *)
TornReported ==
  lost = 0 /\ pc = "stream" =>
    \A c \in torn : \E i \in DOMAIN wire.hist : wire.hist[i] = ToolMsg(c, "interrupted")

(* What a request says of a call is exact: each result once, and a call that *)
(* a crash tore is neither forgotten nor reported as if it had succeeded.    *)
AnswersExact == AnsweredOnce /\ TornReported

(* Within a run, a result the model has seen stays in the request or goes    *)
(* into a summary, whatever is compacted (summarize_wire_history).           *)
KnownResults(w) == Resolved(w.hist) \cup w.memo

ResultsKept ==
  [][{pc, pc'} \subseteq ToolStages =>
       KnownResults(wire) \subseteq KnownResults(wire')]_vars

(* Queued messages reach the wire in the order they were queued, each at     *)
(* most once, over all the runs that resume the same snapshot.               *)
SteeringInOrder ==
  LET Rank(s)   == CHOOSE i \in DOMAIN queuedLog : queuedLog[i].body = s
      IsSteer(i) == wire.hist[i].role = "user" /\ wire.hist[i].body \in Steers
      Sent      == {i \in DOMAIN wire.hist : IsSteer(i)}
  IN  /\ \A i, j \in Sent : i < j => Rank(wire.hist[i].body) < Rank(wire.hist[j].body)
      /\ \A i, j \in DOMAIN steer : i < j => Rank(steer[i]) < Rank(steer[j])
      /\ \A i \in Sent, j \in DOMAIN steer : Rank(wire.hist[i].body) < Rank(steer[j])

(* The approved-plan instruction is in the requests of the run it was sent   *)
(* with and of no other, resumed or not; only a summary may absorb it.       *)
PlanNoteExact ==
  pc = "stream" =>
    LET sent == wire.tail \cup UNION {wire.hist[i].notes : i \in DOMAIN wire.hist}
    IN  /\ sent \subseteq TurnNotes(turn)
        /\ ~AllowSummary => TurnNotes(turn) \subseteq sent

(* Once a stop is registered at most one more side effect takes place: the   *)
(* call already past its check of the flag, be it waiting for an approval.   *)
StopBound == afterStop <= 1

(* A registered stop ends the run, unless the run waits for ever where it    *)
(* does not watch the flag.                                                  *)
StopSettles == token = "cancelled" ~> (token = "none" \/ [](pc \in Unwatched))

(* The snapshot as a ledger of calls: see CallLedger. *)
Ledger == INSTANCE CallLedger WITH open <- Orphans(snap.hist), settled <- Answered(snap.hist)

(* What is durable implements the ledger, as long as no write is lost and    *)
(* nothing is summarized: a batch is declared only when the last one is      *)
(* settled, and a settled call is never open again.                          *)
LedgerSpec ==
  Ledger!Init /\ [][lost' = 0 => Ledger!Next]_<<Orphans(snap.hist), Answered(snap.hist)>>

-----------------------------------------------------------------------------
(* What the documentation says, and the code does not do. *)

(* The run that is to execute an approved plan of the conversation has the   *)
(* plan in its request.                                                      *)
PlanInRequest ==
  pc = "stream" /\ turn.exec \in BodiesOf(chat, "assistant") \cap Answers
    => turn.exec \in BodiesOf(wire.hist, "assistant")

(* A side effect whose result was summarized is still known after a resume. *)
SummarySurvives ==
  landed \ (torn \cup (IF pc = "landed" THEN {cur} ELSE {}))
    \subseteq Resolved(snap.hist) \cup snap.memo

(* A message queued during one run is not injected into another. *)
SteeringOfThisRun ==
  [][pc = "top" => \A i \in DOMAIN queuedLog :
       queuedLog[i].body \in BodiesOf(wire.hist', "user") \ BodiesOf(wire.hist, "user")
         => queuedLog[i].run = count.sends]_vars

=============================================================================
