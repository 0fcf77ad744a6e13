# MDGA in TLA+

MDGA is a desktop coding agent: a Tauri application (`apps/desktop/src-tauri`, Rust) with a React front end
(`apps/desktop/src`) over a set of crates (`crates/*`). This directory is a verification development of it:
TLA+ modules written from the code, TLC configurations that check them on small instances, and theorems checked by TLAPS.
File and line references are to the sources under `src/`; `PROJECT.json` maps each definition to the lines it models.
Below, `agent_loop.rs`, `commands.rs`, ... without a path are files of `apps/desktop/src-tauri/src`.

1. [Inventory](#1-inventory)
2. [Plan](#2-plan)
3. [Modules](#3-modules)
4. [Runs](#4-runs)
5. [Fairness](#5-fairness)
6. [Proofs](#6-proofs)
7. [Where the code and its documentation disagree](#7-where-the-code-and-its-documentation-disagree)
8. [What is not modelled](#8-what-is-not-modelled)

## 1. Inventory

### 1.1 The parts, their state and their operations

| Part | State it keeps | Operations |
|---|---|---|
| Agent loop (`agent_loop.rs`, `chat.rs`) | of a run: `wire_messages`, the calls of the round, the counters of the gates and guards; in `AppState`: the cancel token and steering queue of the conversation | `send_message`: register the token, assemble the wire, run `chat_with_builtin_tools`, clean up, emit `chat-done`. A round: check the flag, drain the steering queue, compact, persist, stream, push the declared calls, handle each, record results |
| Wire history (`agent_loop.rs`, `compaction.rs`) | the list of messages of a request; its snapshot in the table `wire_snapshots` | `persist_wire`, `finalize_wire`, `assemble_resume_wire`, `summarize_wire_history` |
| Front end (`App.tsx`) | messages on screen, `sending`, the streamed text, the plan on offer | send, steer, stop, regenerate, edit and resend, approve, answer, execute a plan |
| Conversation commands (`commands.rs`) | table `messages`; they reach into the run through `AppState` | `queue_steering`, `cancel_agent`, `rewind_to_message`, `delete_last_assistant_message`, `compact_history`, `list_bg_activity`, `kill_bg_activity` |
| Permissions (`permissions.rs`) | pending approvals and questions, "always allow" rules | `gate_tool_decision`, `request_tool_approval`, `execute_ask_user`, `feed_tool_denial` |
| Background subtasks (`subagent.rs`, `state.rs`) | `AppState.bg_tasks`: an entry per task with status, report, usage, `settled`, `cancel`, a lock each | `run_subtask` with `background`, the task's loop, `get_task_output`, `kill_task`, the cascade of a stop |
| Background shells (`command_run.rs`) | `bg_shells`: output, status, cancel | start, `get_shell_output`, `kill_shell` |
| Parallel subtasks (`subagent.rs`, `tool-runtime/worktree.rs`) | a worktree and a branch per subtask; the branch, index and files of the workspace | run all, commit what each changed, merge one after the other until one fails, report |
| Verification and review (`agent_loop.rs`, `agent-core/test_report.rs`, `reviewer.rs`) | `edits_made`, `verify_*`, `turn_diffs`, `review_rounds` of a run | gates, focused runs, stall guard, review, feedback |
| Loop guards (`agent-core/loop_guard.rs`, `agent_loop.rs`) | windows and counters of a run | pause a run that repeats itself |
| Compaction (`compaction.rs`, `agent-core/compaction.rs`) | archive files | condense, stub, summarize |
| Checkpoints (`checkpoint.rs`, storage) | table `file_checkpoints` | capture before a call, persist after it, undo from one change on, edit and retry |
| Stream and retry (`chat.rs`, `deepseek-client`) | the request under way | stream, retry, recover calls from text |
| Model registry (`crates/storage`, `commands.rs`, `embedding.rs`) | tables `connections`, `models`, `role_models` and two older layouts; the embedding configuration of the process | migrate, edit, delete with or without force, assign, resolve a role |
| Prices (`crates/token-accounting`, `pricing_capture.rs`, `settings.tsx`) | prices compiled in, captured (`preset_pricing_overrides`) and typed (`models.pricing_json`) | capture a page, check, compare, apply, reset; choose the price and the tier of a usage |
| Accounts (`agent_loop.rs`, `crates/storage`, `App.tsx`) | `token_usage_attribution`, `token_ledger`, `messages.usage_json`, `usage_counters` | record each usage for its consumer, settle a run, store the answer, export |
| Storage (`crates/storage`) | SQLite tables | one statement per operation, migrations |
| Tool runtime (`crates/tool-runtime`) | the workspace | files, patches, commands; git and gh as one to three runs per call |
| Hooks (`hooks.rs`) | none | run a command before or after a tool |
| MCP client (`mcp.rs`, `crates/mcp-client`) | the map of connected clients; per client request ids and who waits under them | connect in the background, authorise, call, turn off, delete |
| Language servers (`crates/lsp`) | a pool of sessions and the documents each has open | borrow or start, sync, ask, give back, evict, drop |
| Wiki and bundles (`crates/wiki`, `commands.rs`) | `.mdga/wiki`: pages, index, fingerprint; overlay, shared folder, imports | build, summarize, publish, export, import |
| Sandbox, browser, code map, prompts | files and processes | see section 8 |

### 1.2 How they interact

- The front end calls commands and listens to events. `send_message` runs for the whole of a run; the other
  commands run beside it and share `AppState` with it: the token (`cancels`), the queue (`steering`), the
  approvals and questions a run waits on, and the background tables.
- A run and its successors share the snapshot and the message table. They are written at different moments: the table
  by the front end, before and after a run, the snapshot by the run, at each round and each result.
- A background task outlives the round, and the run, that launched it. Runs of any conversation may poll or kill
  it.
- The screen and the table of messages are two lists. Editing and retrying counts on the first and cuts the second; the
  file changes to undo are matched to messages by time.
- A run starts processes and talks to servers that answer late, in another order, or never: git, shells, language
  servers, MCP servers, the endpoint itself. The settings page turns some of them off meanwhile, and the user works in the
  same repository.
- The registry of models is read by every run when it starts (endpoint, key, price), and one thing derived
  from it is kept by the process.
- The process may end at any of these moments. Only the tables and the workspace survive.

### 1.3 What is hard here

- *Half-finished rounds.* A round declares calls, runs them one by one and answers each. A stop, an error, a denial, a
  crash or a lost snapshot write can fall anywhere, and the endpoint refuses a request whose calls are not each
  answered. Every later request is built on what was left.
- *Flags read at points.* The stop flag is read at the top of a round, while streaming and before each call, not while
  an approval, a question, a summary, a tool, a hook, a verification or a review is under way.
- *Entries filled in field by field.* The end of a background task writes three fields under three locks; a poll reads
  two of them and settles a third.
- *Names that repeat.* Calls recovered from text are named by position and repeat from answer to answer.
- *Counters that outlive rounds.* The gates reset some of their state with each verification and keep the rest.
- *Several writes that are one step to the reader.* The files of a wiki, the migration of the registry, the tables
  of an account, the merge of several branches: each can stop half way, and most without a transaction.
- *Names chosen by what else is there.* Concept files, canonical names of models, ids of requests.
- *Late answers.* A reply to a call that timed out, diagnostics of an older text, a second attempt of a stream after part of
  the first was shown, a status that overtakes the output it closes.

### 1.4 What makes each part correct

| Part | Properties |
|---|---|
| Agent loop, wire history | each request is well paired (`RequestPaired`), at every instant the snapshot can be resumed (`SnapshotResumable`), no call is answered twice and a call torn by a crash is reported (`AnswersExact`), a call is durable before its effect (`WriteAhead`) and its result after (`EffectsDurable`), compaction loses no result (`ResultsKept`), a stop bounds effects (`StopBound`) and ends the run, unless the run waits for ever where it does not watch the flag (`StopSettles`) |
| Steering, plans | messages in order and once (`SteeringInOrder`), notes with their own turn (`PlanNoteExact`) |
| Background subtasks | polls agree (`FinalAnswersAgree`), usage is billed once and in full (`BilledOnce`) and not forgotten (`SettledIsPaid`), a kill takes at most one more request (`KillBound`), a task always ends with a report (`TaskEnds`) |
| Verification and review | green means the whole suite (`GreenIsFull`), a stall is a repetition (`StallIsRepetition`), feedback is bounded (`FeedbackBound`), writes are reviewed (`ReviewedBeforeDone`) |
| Model registry | every role reaches a complete chain (`ChainsComplete`), the migrations change no answer, also when the process ends between them (`MigrationKeepsAnswers`), what the process keeps is what the tables say (`SnapshotFresh`) |
| Checkpoints, edit and retry | undoing restores the files, as far as checkpoints tell what changed them (`UndoRestores`), both lists of messages are cut alike and only later changes are undone (`RewindCutsWhatIsShown`), no cut turn is replayed |
| Wiki and bundles | however many builds stopped half way, no page says other than the index and other sources than those of the last whole build are never "unchanged"; summaries are of their section, a bundle is read as it was written (`WikiFaithful`) |
| Prices and accounts | a captured price is found under every spelling, tiers fit, every usage is attributed once, to its consumer, and the four books agree (`BooksAgree`) |
| Parallel subtasks | committed work stays reachable (`CommittedWorkReachable`), the report is true, if the workspace keeps its branch between the check and the merge (`ReportTruthful`) |
| Approvals | the map holds exactly those who wait, and a request that waits can be answered on the screen, unless another, the end of a run, a reload or a stop made the screen forget it (`WaitingIsVisible`) |
| Language servers | a server has one owner, and an answer is of the text the call read (`OwnTextAnswered`) |
| Stream and retry | the screen shows the beginning of one answer, without a marker (`ScreenShowsOneAnswer`) |
| MCP client | a call gets its own answer, whatever is late, turned off or connected anew (`AnswersOwnCall`) |
| Shells | a final status comes after the last line (`FinalStatusIsLast`) |
| Git | no run of git loses a change (`NothingLost`); what a push reports is on the remote |

The hazards of the code, each at its line, with the properties that cover it or the reason why none does, are in
`PROJECT.json`.

## 2. Plan

The order is by what the program is for: the loop and what survives it, then what runs beside it, then what judges it,
then the rest.

| | Modules | Abstract specification | State |
|---|---|---|---|
| 1 | `WireHistory`, `AgentLoop` | `CallLedger`: what the durable wire promises about calls | modelled, checked, proved |
| 2 | `BgTasks` | `UsageLedger`: what billing promises | modelled, checked, proved |
| 3 | `FinishGate` | — | modelled, checked, proved |
| 4 | `ModelRegistry`: roles, models, connections, two migrations | the answer a role had before | modelled, checked, proved |
| 5 | `FileTools`, `Rewind`: the tools on files, checkpoints, edit and retry | the files before the first change undone | modelled, checked, proved |
| 6 | `ParallelSubtasks`, `Approvals`: worktrees merged in turn; who lets a call through | — | modelled, checked, proved |
| 7 | `LspPool`, `StreamRetry`, `McpClients`, `Shells`, `GitTools`: what talks to processes and servers | a server as a partial function from requests to answers | modelled, checked, proved |
| 8 | `Wiki`, `Okf`: builds, bundles | the bundle read is the bundle written | modelled, checked, proved |
| 9 | `Pricing`, `Accounts`: prices, and what the requests cost | one list of reports, of which each book is a view | modelled, checked, proved |
| 10 | two runs of one conversation that overlap, `compact_history` in its real steps, rows of a deleted conversation, the loop guards | — | open |

The MC module of a component gives names to its model values and nothing else, so that a component can be composed
with another by `EXTENDS` or `INSTANCE`. Runs are kept few: each asks a question of its own, and the parts that share no state are explored side by side
in two of them, `stores` (what keeps data) and `host` (what talks to the world outside).

## 3. Modules

| Module | What it is |
|---|---|
| `WireHistory` | the wire and the operations on it, as operators |
| `AgentLoop` | the runs of one conversation: extends `WireHistory` |
| `CallLedger` | abstract specification implemented by the snapshot of `AgentLoop` |
| `WireHistory_proofs`, `AgentLoop_proofs` | lemmas and theorems |
| `BgTasks` | background subtasks of several conversations |
| `UsageLedger` | abstract specification implemented by `BgTasks` |
| `BgTasks_proofs` | theorems |
| `FinishGate`, `FinishGate_proofs` | verification and review at the end of a run |
| `ModelRegistry` | connections, models, roles and their migrations |
| `FileTools`, `Rewind` | the tools on files as operators; the transcript and its undo, which extends them |
| `Wiki`, `Okf` | the builds of the wiki; the bundles made of it, which extend it |
| `Pricing`, `Accounts` | the price of a model; the books of a run, which extend it |
| `ParallelSubtasks`, `GitTools` | subtasks in worktrees; the git tools |
| `Approvals` | modes, rules, requests and the screen |
| `LspPool` | language servers |
| `StreamRetry` | one streamed request |
| `McpClients` | MCP servers and the calls on them |
| `Shells` | commands, their pipes and readers |
| `MCAgentLoop`, `MCBgTasks`, `MCFinishGate` | model values (and symmetry) for TLC |
| `MCStores` | composes `ModelRegistry`, `Rewind`, `Okf`, `Accounts` |
| `MCHost` | composes `ParallelSubtasks`, `Approvals`, `LspPool`, `StreamRetry`, `McpClients`, `Shells`, `GitTools` |
| `Interaction_proofs` | theorems about `Approvals` and `StreamRetry` |
| `Processes_proofs` | theorems about `McpClients`, `LspPool` and `Shells` |
| `Host_proofs` | theorems about `GitTools`, `ParallelSubtasks` and `MCHost` |
| `Stores_proofs` | theorems about `ModelRegistry`, `Rewind`, `Wiki`, `Okf`, `Pricing`, `Accounts` and `MCStores` |

Some definitions are introduced by a comment that begins with *Slip*. They are not part of a specification: each is a variant of
the definition that follows it, with a mistake one could make in the code, and is used to see that a property notices the mistake.

### 3.1 WireHistory

A wire is a record. `hist` is the list of user, assistant and tool messages; a message carries in `notes` the system
messages that stand right before it (the instruction to execute a plan, a first look at an image). `tail` holds the notes after the
last message. `memo` holds the calls whose results are only in an auto-compact summary, which is a
system message of the leading block. The fixed prompt of that block is in every request and left out.

`FinalizeWire`, `AssembleResume`, `SplitPoint` and `Summarize` are `finalize_wire`, `assemble_resume_wire`,
`summary_split_points` and `summarize_wire_history`. The code scans back for the cut; `Cuts` says which cuts it may
stop at and `SplitPoint` takes the last, with messages weighed as the code counts them, notes included. `WellPaired`
is what the endpoint requires: each declaration is followed, before anything else, by a result for each of its
calls, and each result by its declaration. Contents are reduced to what properties tell apart: who wrote them,
and for a result whether it is real, a denial or a placeholder.

### 3.2 AgentLoop

| Variable | Code |
|---|---|
| `chat`, `snap` | tables `messages` and `wire_snapshots`: they survive a crash |
| `wire`, `todo`, `cur`, `pc` | `wire_messages`, the calls of the round not handled yet, the one being handled, where the run is |
| `token`, `steer` | the conversation's entries in `AppState.cancels` and `AppState.steering` |
| `turn`, `reply`, `awaiting` | the arguments of `send_message`, the text streamed so far, the plan on offer |
| `landed`, `torn`, `used`, `queuedLog`, `lost`, `afterStop`, `count` | history: effects that took place, those whose result a crash took, ids declared, messages queued, snapshot writes that failed, effects since the stop, counters for the bounds |

The user's actions are `Send`, `Regenerate`, `Rewind`, `CompactHistory`, `QueueSteering`, `CancelAgent`, `Approve`, `Reject`
and `AnswerQuestion`; the endpoint's are the answers and failures of a stream; the rest is local. A stage of `pc` stands for an
await point, or for a point between two writes that a crash or another command can fall into: *Execute* (the effect) and
*Record* (its result) are two steps, the declaration of calls is pushed and persisted in one because nothing
awaits between. *checking* is the time between an answer without calls and the end of its verification and review, *batch*
the time read-only calls run side by side, *exec* that of hooks and the tool. None of these three, nor an approval or a question, watches
the stop: `Unwatched` names them. A snapshot write may fail (`Persist`): the code logs it and goes on. `Finish` is every return of
`chat_with_builtin_tools` with the cleanup of `send_message`; `FailEarly` is the return past the cleanup.

Simplifications that matter to a reader: two runs of one conversation never overlap here (the front end's guard on `sending`
is taken at its word, see the hazards); what the verification and the review feed back is one action, `Feedback`, detailed in
`FinishGate`; queued texts are told apart; the bubble the UI shows for an error and never saves is not a message;
lossless compaction changes contents only and is left out.

### 3.3 BgTasks

`owner`, `status`, `report`, `usage`, `settled` and `cancel` are the fields of a `BgTask`; `step`, `rounds`, `text`, `final`
and `spent` are locals of its loop. A run is reduced to its token and to the tool call it is in. Each lock is an
action: a task publishes its report, its usage and its status in three (`After` has the order), a poll reads the status
and the report in two, then takes `settled` (`Settle`, one atomic swap) and records the usage (`Bill`). A stop is the
token (`CancelAgent`) and then the cascade over the tasks registered so far (`Cascade`). A poll that blocks may
read at any time. `answers` keeps what polls returned of finished tasks, `paid` what was recorded, `late` the
completions since a kill. The endpoint may leave the usage of a completion out, so a task may spend nothing.

### 3.4 FinishGate

`code` is the workspace: the gates its plan has, whether it builds, which tests fail. A captured write (`Edit`) sets
`edits_made`; a command, or a subtask that writes, changes the code and sets nothing (`RunCommand`). `Answer` enters the gates, or goes
to the review. A gate runs, is skipped because its command does not start, or times out; the test gate runs what
`Scopes` allows: up to `MAX_FOCUSED` of the names that failed last and are safe in a command, or everything. A focused
run that passes goes to *confirm*, where a command that does not start is not a pass. `Reports` is what the parsers can make of a red
run: names, or none; a timeout, or the fingerprint of errors or output. `known` is a history variable: what the
verification said of the code as it is.

### 3.5 ModelRegistry

The tables are functions from ids to rows. Each time the database is opened rows of the two older layouts are moved, by two
migrations that are a transaction and an action each (`OpenConnections`, `Start`): the process may end between them. Neither clears the table it reads, so
the initial databases have any of them filled. The commands are one action each, with the checks of the command and the statements of the storage function it calls.
`ResolveRoleProvider` follows a role to its model and connection, and to main when it has no usable row of its own. A forced
delete takes the rows of the roles with it (`cascade` is what the user is told). `embedding` is the only thing the process derives
and keeps; commands that derive it again say so. `moves` counts the migrations that moved rows.

### 3.6 FileTools and Rewind

A file system gives each path a text, and has a set of directories; `Apply` is what a tool does to it, with its refusals. `Rewind`
adds the table of messages, the list on screen, the snapshot (by the turns it replays) and the checkpoints. A call is
captured, waits for approval, is executed (`ExecuteCall`), and its checkpoint is stored when it succeeded (`PersistCheckpoint`): three steps. In
between the process may end, and storing may fail, which the code ignores (`LoseCheckpoint`); `landed` is the change that is made and not yet stored. Undoing
is a step per checkpoint, so the process may end between two. Time is in whole seconds and several things happen in one. `spoilt` is history: the
number of the last checkpoint after which files were changed in a way no checkpoint tells (a patch torn half way, a checkpoint lost, a
call on files other than captured). What came later is exact again.

### 3.7 ParallelSubtasks and GitTools

`ParallelSubtasks` has git as far as worktrees and merges use it: a commit is a tree and its parents, a merge compares both sides
with the last commit they share. The orchestrator (`orch`) creates worktrees, runs the subtasks, commits what changed, merges in turn
and reports. A merge is up to four runs of git, and a step each: `CheckBranch` (rev-parse), `MergeClean` or `MergeStops`, `ListUnmerged`, and `MergeAbort` or
`MergeUndo`. `orch.moved` is history: the subtasks during whose merge the workspace left the branch that was checked. A worktree that cannot
be removed stays (`CleanUp`). The user edits, commits and switches branches meanwhile, and the process may end at any point. `GitTools` has the
tools the model calls: each is one to three runs of git or gh, each run may exit, fail or be killed at the time limit with its work done or
not, and the user and a colleague work on the repository and the remote between any two. There the history of a branch is a set of changes.

### 3.8 Approvals

`GateToolDecision` is the gate: rules, mode, capability of the tool, list of harmless commands. An asker is a run, one per conversation, or a
subtask of one (`Lead`), which has the rules and the flag of its run; a run reads the rules when it starts. `requests` is the map of the backend, `emitted` the events on
their way, requests and *chat-done*, and `screen` the one dialog the front end has room for. *chat-done* names no conversation and closes whatever is shown.
A stop is the three steps of `handleStop`: the shown request is refused (`StopRefuses`), after the await what is shown then is closed (`StopClears`), and then the run is
cancelled (`StopCancels`). `sending` is the run the screen listens for; a reload forgets it, and then a second conversation can run beside the first.

### 3.9 LspPool, StreamRetry, McpClients, Shells

`LspPool`: a session and its server are one entry; `inbox` and `rx` are the pipes between them; a lookup reads its file, borrows,
starts or waits, syncs the document, asks, collects and gives back. An answer that is an error ends the call as a timeout does (`TimeUp`). `StreamRetry`: an answer is a sequence of units of three bytes and
arrives in pieces of any size; `ShowUpTo` is the guard that holds back what may become a marker; attempts, backoff, the sibling model
and the stop are there; notices about retries are left out. `McpClients`: a client is numbered by the thread that connects it, is shared, and is
dropped with its process when the map, its thread and the calls have let go of it (`LetGo`). `Shells`: a command has two
pipes with a reader each and may leave a child that keeps them open; the unsandboxed path is modelled.

### 3.10 Wiki and Okf

The analysis of a directory is a version of it. A build takes the sections, awaits summaries within its budget, and writes
file after file (`BeginWrite` to `PrintRename` are the writes of `write_all`, each of `write_atomic` in its two or three steps); a second
build, a change of the code or the end of the process can fall between any two. `last` and `torn` are history. A build removes the old pages and nothing else first: index and fingerprint of the build before stay until
they are replaced. `Okf` names one file per
section, lays the user's text over the generated one, publishes, exports and imports; a file name is a stem and a suffix.

### 3.11 Pricing and Accounts

A name of a model is the platform's name and a prefix; the case is left out, which `Normalize` would only fold. `capture` is the panel: asked, shown
with what differs, shut. `CurrentPrice` is the captured or the compiled price; `ResolveBilling` puts what the user typed before it. `Accounts` follows one
conversation: every response reports a usage or none, and a report is numbered, so that a usage is known by the
reports merged in it (`of`, which the code keeps in `raw_json`). `rows`, `ledger`, `bills` and `counter` are the four books.
The model of each consumer is a constant (`RoleModel`): how a role is resolved is in `ModelRegistry`.

## 4. Runs

From this directory: `tlc -config MCAgentLoop.cfg MCAgentLoop`, and so on.

| Run | Configuration | States | What it shows |
|---|---|---|---|
| `agent_loop` | `MCAgentLoop.cfg` | 1.4 million | three turns of a conversation with two call ids, plan turns, two queued messages, a stop at any time, one crash, one lost snapshot write: the safety properties of the loop and the refinement of `CallLedger` |
| `agent_loop_stop` | `MCAgentLoop_stop.cfg` | 136 thousand | one turn with three calls, summaries, questions, feedback and early errors, under fairness: a stop ends the run unless it waits for ever unwatched; no result is lost to compaction |
| `bg_tasks` | `MCBgTasks.cfg` | 506 thousand | two conversations and a task of up to two rounds: the safety of `BgTasks`, the refinement of `UsageLedger` and, under fairness, that tasks end and usage is paid |
| `finish_gate` | `MCFinishGate.cfg` | 1.2 million | four edits and a command on a workspace with two tests, three verifications, one review, stall at two repetitions |
| `stores` | `MCStores.cfg` | 0.86 million | the registry through both migrations and an end between them, a transcript with its file changes, wiki builds and bundles, prices and accounts |
| `host` | `MCHost.cfg` | 1.2 million | worktrees, approvals, language servers, the stream, MCP servers, shells and git, with failures, timeouts and stops |
| `ids_reused`, `plan_missing`, `summary_forgotten`, `steering_leaked`, `stop_misses_task`, `review_of_red` | `*_v_*.cfg` | small | each violates one statement of the documentation: section 7 |

**Bounds.**
`AgentLoop`: three sends, because what one turn leaves behind is resumed by a second and read again by a third (a plan is made, executed, and
followed by a turn that must not carry its note); two call ids, because a round can then be half answered, a batch can be
parallel, and calls of two rounds can coexist; one crash and one lost write, each at every possible point;
wires of up to five or six messages before a declaration, enough for a cut in the middle of a round with
`KeepRecent = 2`. `MaxFeedback` bounds the rounds a run is sent back. Summaries are in other runs than the ledger, whose
property is stated for wires that keep their messages and up to a lost write. Two messages may be queued, so that their order can go wrong.
`Bounded` in `MCAgentLoop` keeps what that multiplies in bounds: the messages are interchangeable, so the first to be queued is `s1`; once one is
queued, states are followed on with up to three sends, or two and one crash or lost write, or one and both; with two queued, with up to two sends and one call.
`BgTasks`: two conversations are what it takes for two polls to race, for one to stop while the other polls, and for a launch to
race a stop; with one task the order of its three publications is explored against all of them; two rounds make a kill fall before, in and
between requests. The invariants of the proofs were also checked with two tasks and one conversation (590 thousand
states).
`FinishGate`: three verifications are what a stall at threshold 2 takes; two tests with one name per focused run make a run
pass on the name and fail on the rest; two outputs tell a repetition from progress; a fourth edit comes after the last
verification. `SYMMETRY` permutes tests, and outputs, which nothing tells apart; the properties are invariants.

`stores`: in each initial state one part moves. Three uuids give two connections, two models and a deletion; older
databases with one and with two roles, one of the layout between, and upgraded ones in which the oldest table is still filled and says something else. Two turns with three changes in all, over a file that is there
and one in a directory that is not yet; two seconds, so that a change may fall in the second of the next message; one
end of the process. Three directories, among them `index` and `root`, whose names a bundle keeps for itself; two builds at a time, or three
in turn, one of which may be forced or cut. Two models, one with two names, one with tiers; two runs with four reports and three operations on prices.
`Bounded` in `MCStores` narrows combinations that share nothing: a second endpoint or price list is tried with one key and one model; after the migration of a lone role a third
id is followed only in an upgraded database with two connections, and with embeddings on only if an endpoint serves them; when both turns have ended, two changes
are followed further only if a second has passed and nothing disturbed them; the code changes while no file of a wiki is being written.
`host`: two subtasks of one call with two edits and six commits, made in a workspace nobody has edited yet and followed until it is over; two conversations, one of them with a subtask, and two requests among the three (of several at a time all ask every time, and one stop is pressed at a time); two lookups on one document with a
pool of one, whose server dies without having said anything unasked; answers of six units with a marker early, late and at the end, guard of four units as the code's (twelve bytes); two calls on two successive
clients of a server; one command with three lines, buffers of two, a child that holds the pipes; two branches, two changes.

**Deadlock** is checked in `MCBgTasks.cfg` and `MCBgTasks_v_stop.cfg`. In the configurations of the agent loop the user has a
bounded number of sends, in those of the finish gate a run ends, and in those of `stores` and `host` a part rests when its bounds are used up: there it is not checked.

**What properties notice.** For every property of a passing run `PROJECT.json` names a slip that it catches.

## 5. Fairness

`AgentLoop!FairSpec` is `WF_vars(Prompt)`: local steps outside the stages of `Unwatched` are taken by the runtime, which polls the future of the run, and by the
front end, which handles its events; the request for a summary has the 300 s timeout of the client (`crates/deepseek-client/src/lib.rs:712`). Nothing is
assumed of the stages in `Unwatched`. Tools need not return: the readers of a command are joined without a bound (`crates/tool-runtime/src/lib.rs:1923`), those of a hook
too, and a subtask that writes waits for the user inside the tool (`subagent.rs:390`, `subagent.rs:422`). The user need not answer, and what a verification and a review run
are commands and requests of their own. So `StopSettles` says that a registered stop ends the run or the run is in such a wait for ever from some point on:
one that returns is followed by a check of the flag. A stream has no timeout, so the
endpoint is not fair; a stop during a stream is watched, which is `StreamStopped`, a local step.

`BgTasks!FairSpec` has `WF_vars(Loop(t))` for each task: its future is polled, its completions go through
`chat_completion`, which has the timeout, and its tools are those that only read. It has `WF_vars(Polling(c))`: a
poll in progress is not cancelled. Starts, stops, kills and launches are not fair. `FinishGate` has no liveness property: its
bounds on feedback say what termination needs from it. The modules of `stores` and `host` are checked for safety alone: what they wait for (a server,
a command, a reader of a pipe that a child holds open, a user) is not fair, and where the code bounds the wait the timeout is an action.

## 6. Proofs

Proofs hold for every value of the constants that the assumptions allow. The assumptions say that bounds are natural numbers, that sentinels
are not elements of the sets they extend, that ids and notes are finite, and

- `LoopAssumption`: that texts typed, texts queued and the code's own feedback are told apart;
- `WireAssumption`, `LoopAssumption`: that `KeepRecent` exceeds the number of notes (the code keeps eight messages; the model tells apart one note);
- `RegistryAssumption`: that the roles are finitely many, in an order (the alphabet of the query), with main and embed among them, and that what can be reached are endpoints;
- `ApprovalsAssumption`: that the sets of rules to start from are sets of rules, and that a subtask works for a run; `McpAssumption`: that there is a server;
- `StreamAssumption`: that the guard is at least two units, the longest marker less one (the code keeps four), that an answer is a sequence
  of units, that a sibling is a model or none, and that there is at least one attempt;
- `ParallelAssumption`, `GitAssumption`: that there is a branch `main`, that a file can be gone, and that a call has at least one subtask;
- `LspAssumption`: that there is a document and a text, and that its bounds are natural numbers; `ShellsAssumption`: that the sizes of buffers are natural numbers;
- `FileToolsAssumption`, `RewindAssumption`: that a path lies in a directory or in the root, and that the calls tried are calls;
- `WikiAssumption`: that the order of the directories names each once (it is the sorted list of a map's keys);
- `OkfAssumption`: that a directory lies in a directory or in none, and that the user's own notes have names without a suffix;
- `PricingAssumption`, `AccountsAssumption`: that prices, reports and answers are records of integers, counts, and sequences of entries, that
  each consumer has a registered model, and that a report without hits and misses has no prompt: `parse_raw_usage` takes what the server does not
  tell as misses (`crates/deepseek-client/src/lib.rs:907`). Only a server that sends a prompt and two zeros breaks it; see section 7.

`TasksAssumption` and `GateAssumption` say nothing else of note. TLC evaluates all of them in the runs.

**WireHistory_proofs.** `Closable` generalises `WellPaired`: all declarations are answered in place except the last,
which may lack results that can still be appended. `FinalizePairs`: `FinalizeWire` makes a closable wire well
paired and extends it. `SummarizeProperties`: a cut keeps a well paired wire well paired, because it never falls on a
result. `AssembleProperties`: whatever closable snapshot is resumed, the request is well paired.

**AgentLoop_proofs.** `TypeCorrect`. `RequestsPaired` and `SnapshotsResumable`, for `ReusableIds = {}`. `RequestPaired` is
not inductive: it says nothing of the middle of a round, nor of the snapshot, and both end up in requests. `PairInv` adds that the
wire and the snapshot are closable, that what they declare is in `used` (so that a new declaration is new), that
requests are well paired from the top of a round on, and that while a round is handled the calls of its
declaration are those in `todo`, `cur`, and those already answered. Without the hypothesis the theorem is false: `ids_reused`.
`StopsBounded`, from `StopInv`: an effect after the stop takes a call that was past its check. The other theorems each have an invariant too:

- `CallsWrittenAhead` (no id reused), from `AheadInv`: as long as calls are handled, each without a result is open in the wire, and in
  the snapshot unless a write was lost.
- `EffectsKept` (no summary), from `ChatInv` (the table has no notes and no queued messages, and a run starts after a message of the user) and `EffectInv`
  (the wire of a run knows every result the snapshot knows, so persisting it forgets none). With a summary the statement is false over two turns: `summary_forgotten`.
- `PlanNotesExact`, from `NoteInv`: a resume drops every note, and a wire gets those of its own turn once.
- `LedgerImplemented` (no id reused, no summary), from `LedgerInv`: wire and snapshot declare the same calls, the wire has answers the snapshot has not, and a
  request is what was persisted. Then each step leaves the ledger as it is, settles calls, or declares a batch after the last was settled.
- `AnswersAreExact` (no id reused, no summary), from `AnswerInv`: no call has two results, and a torn call is open in the snapshot until a resume reports it.
- `ResultsAreKept`, a fact of each step: a cut moves what it takes into the summary (`SummarizeResults`).
- `SteeringOrdered`, from `SteerInv`: the queue is the end of the log of what was queued, and wire and snapshot hold messages of the part before it, in its order. What
  moves messages (resuming, cutting, finalizing) only thins them out. It takes that no queued text is the code's own feedback, by which the model tells
  them apart (`LoopAssumption`).

**BgTasks_proofs.** `TypeInv` adds that a poll has a task and that a request is made in a round that is left. `EntryInv` ties
the entry to how far its loop's end has come; `PollInv` says that a poll that read a final status has a task that is over,
so that what it reads next is final; `BillInv` that at most one poll is settling a task, and that it has not been paid; `KillInv` that a
killed task is in its last request or past it. They give `AnswersAgree`, `KillBounded` and `BillingRefines`: `Spec`
implies `UsageLedger`'s, step by step.

**FinishGate_proofs.** `GateInv` (what the gates passed so far say of the code) gives `GreenCorrect`. `CountInv` (each message
fed back has a verification or a review of its own, and one under way still has its own) gives `FeedbackBounded`, with
`EditPerVerification`. `StallInv` (the last red verifications, as many as the counter says and one, have the kept
signature) gives `StallCorrect`, with `FocusFollowsTests`. These two companions are stated for the proofs and checked by no run. `DiffInv` (a write with a diff waits
for the review or one was made) gives `ReviewCorrect`.

**Interaction_proofs.** *Approvals:* `WaitersKnown`, from `MatchInv`: entries of the map and those who wait are paired, whoever answers, stops or starts
meanwhile. `WaitingSeen`: `WaitingIsVisible` is not inductive, since an event that arrives takes the place of what is shown, and a stop closes what is shown. `SightInv`
adds that an event on its way is of a request that waits (`OfWaiting`), each at most once (`EachOnce`), that a request that met no other waits alone (`Alone`), and that
the last the screen was told, or will be, is such a request (`LastWord`); that what is shown and does not wait is what a stop just refused
(`StopBegun`), and that until this stop has closed the dialog all that wait were asked since, which makes the screen forget them (`Since`).
*The stream:* `ScreenIsOneAnswer`. `ScreenInv` says what the counters of the stream mean: without a marker so far, what is shown are the first
`emitted` units, `Guard` short of the end. Two lemmas about `MarkupIndex` do the work: more text after a marker leaves it the first (`MarkupStays`), and a
marker that was not there before begins no earlier than one unit before the end (`MarkupLater`), hence after what is shown. With a guard of one
unit the theorem would be false, and with none TLC finds it (`SlipShowUpTo`).

**Processes_proofs.** *MCP:* `AnswersAreOwn`. The property says nothing of the pipes. `CoreInv` says that what travels has an id below `next_id`, that whatever
travels under the id a call waits for is that call's, and that a client in use has finished connecting, so that no new thread takes its number. It is
stated of values rather than of the variables, because what an action changes passes through `LetGo` before it becomes the next state;
`LetGo` is proved once to keep it, and to leave no process of a client nobody holds.
*Language servers:* `OwnTextIsAnswered`. The property is about one step, and what makes it true happened several steps before, in another queue. `LspInv`
says of the call that holds a session: the last text on its way to the server, or else the text the server knows, is the one the call read
(`Told`); its question is behind every text (`AskedLast`); what comes back under its id was computed from its text (`AnsweredFrom`); no id was
given out twice (`Below`), so nothing an earlier call left in the queues is taken for an answer; and a session has one owner, the pool or a call
(`Owned`), so nobody else sends a text in between. TLC checked it over 1.2 million states before it was proved.
*Shells:* `FinalStatusLast`. `ShellInv` says where a line is that is not shown yet (`LinesKept`), that a reader ends only when its pipe is empty and
nobody has it open (`ReadersEnd`), what of the shown lines is in the buffer and the result (`ShownKept`), and that the call waits
for the process first and for the readers then (`Waits`).

**Host_proofs.** *Git:* `NoChangeLost` and `PushIsReported`. Both rest on `Forward`, which is a property of every step, of the user and the colleagues too:
branches only grow, on the remote as well, and each change stays in the working tree, the index or a branch, but for a detached HEAD left behind.
`RunOK` adds what the runs before the last one of a call have found.
*Parallel subtasks:* `WorkReachable` and `ReportIsTrue`, from `PmInv`: committed work is in some branch once its merge was clean, the target
if the workspace did not leave it (`OnTarget`), and in the subtask's own branch before and otherwise (`WorkKept`); which subtasks have been dealt with (`Settled`); how far the call is and which worktrees there are (`Progress`); and
whose merge is open in the workspace (`MergeOpen`). The history of commits only grows, and a commit added changes the ancestors of no other
(`NewAncestors`), so what was reachable stays so while no branch goes back.
*The host:* the parts share no state, so a behaviour of `MCHost` is one of each part (`HostRunsParts`); hence `HostInOrder`, the invariant `HostOK` of the run,
and `HostKeepsPromises`, its other properties.

**Stores_proofs.** *The registry:* `RegTypeCorrect`: every table keeps rows of its kind, through both migrations, and no id is used before it is
drawn. `ChainsAreComplete`, from `ChainInv`: before the first move there is nothing to break, and after it each command keeps every chain
sound, a forced delete by taking the roles with the row. `SnapshotIsFresh` is inductive together with the types: each command either
derives the configuration again or touches nothing that enters it, case by case. `MigrationIsFaithful` is about two steps:
the first migration leaves each role the row it had (`OldRow` reads the newest layout that has rows), and the second has each role resolve to it; as this is said of the state between
them, whoever opens the database after a crash there goes on from the same rows. `ModelsAreUnique`: a connection and a name have one
model, so no insert of a command or a migration meets the table's `UNIQUE`: each looks for the row before it makes one, with an id not drawn yet.
*Checkpoints and rewinding:* `TranscriptCorrect`, `UndoFindsFiles`, `RewindCutsAlike`. `UndoRestores` speaks of the end of an undo of any length. Its
invariant is a chain (`Chained`) over the changes after `spoilt`: each still in force, taken back from the files the next one found, leaves the files it found itself,
and the last one does so from the files as they are; an undo under way has taken back an end of that chain and no more (`Undoing`). That what a tool
does can be taken back is a lemma about `Capture`, `Apply` and `CanRevert`, by cases of the tool (`ApplyUndone`). `TalkInv` relates the table, the screen and the clock: ids and times of messages and
changes go up together, so the message the screen counts to and the time it is found by cut the same rows and the same changes.
TLC checked the invariant on the instance of `stores` before.
*Wiki and bundles:* `WikiCorrect`. `Apart` says of a build that writes alone what the files are, by how far it has come (`Wrote`), and of one that
still awaits summaries that it took every stored summary over (`Found`); `PrintKnown` says that, as long as no two wrote at once, the fingerprint on
disk is that of the last build that wrote all its files, or missing, and that no page says other than the index, page by page while they are written; and that after a whole build the three
agree. That the fingerprint marks a whole wiki is not a theorem: it is false (`PrintVouches`, section 7). Builds that overlap are in the theorem: they lose `alone`, and the property claims nothing of what they leave until one writes
by itself again. The round trip of a bundle needs that two sections never share a file (`OwnPath`): only the root and a directory `root` have one
stem, and the later takes the suffix. `BundlesCorrect` is about the bundles of others. TLC checked the invariants over 204 thousand states.
*Prices and books:* `BooksOfReports`, from `BooksInv`: every report has one row, or waits for its run to be settled (`RowsHeld`, `AllHaveRows`); the usage a
run carries has each report it is charged for once (`RunHeld`), and so has the stored answer (`BillsHeld`). A stop, an error and the
end of the process are steps like the others. `AppliedPriceIsCharged` has a hypothesis that is about the world and not the code, `AliasesAreThePlatforms`: two
spellings have one key exactly when the platform bills one model for both. It holds of the names in `MCStores`, which has an alias and a prefix; in it lies what the code
cannot know. TLC checked `BooksInv` over 37 thousand states.
`BooksAddUp` is about sums. `SumTo` is a recursive function; that it adds one value at a time (`SumStep`) is proved once, by induction from
`NatLessThanWellFounded`, and with it that a sum follows what a step appends or changes (`SumSame`, `SumMore`, `SumNothing`). `CounterHeld` counts
an answer that is settled and not yet stored with the counter. `AmountsHeld` says of a run with tools that so far its merged usage costs what its rows cost, at whatever
one price they have: a price without tiers is linear in the usage (`CostAdds`), and a row at another price or of another consumer ends the claim. Of a plan or a chat it needs
that rows before the one request are those of the first look. For the tiers, `SortTiers` is shown to put each tier at the place its rank says
(`RankOrders`, `RankIsPlace`: a rank is an injection of as many tiers into as many places), so prices that are offered and applied have their tiers in order
(`Offered`) and the first that fits is the smallest (`FirstFits`). The proof found that `AmountsAdd` had said too much: a model without a price has no amount in any book, and
there is nothing to add. TLC checked `CounterHeld` and `AmountsHeld` over the same states.
*The stores:* `StoresInOrder`, `WikiIsFaithful` and `BooksAgreeInStores` are the invariants `StoresOK`, `WikiFaithful` and `BooksAgree` of the run (the last with
the hypothesis of `AppliedPriceIsCharged`), `StoresKeepPromises` the rest of its properties. Of the wiki they claim what `PagesFollowIndex` says, no more.

**Only model-checked**: the liveness properties `StopSettles`, `TaskEnds` and `SettledIsPaid`, which are out of the prover's reach. Every other
property of a passing run is stated by a theorem.
The invariants of the proofs were checked by TLC, over the instances of section 4, before they were proved.

## 7. Where the code and its documentation disagree

| Run | The statement | The code |
|---|---|---|
| `ids_reused` | every call is followed by its result (`agent_loop.rs:773`) | `finalize_wire` looks for a result of the id anywhere in the wire; ids recovered from text repeat (`crates/deepseek-client/src/lib.rs:1278`), so a call left open by a stop may count as answered |
| `plan_missing` | the run that executes a plan follows the previous message (`agent_loop.rs:367`) | a plan run writes no snapshot; once the conversation has one, the history comes from it alone, without the plan |
| `summary_forgotten` | the summary keeps the direction of the task (`compaction.rs:325`) | the next turn drops the system messages of the snapshot, the summary with them (`agent_loop.rs:909`) |
| `steering_leaked` | the cleanup keeps the queue from the next run (`agent_loop.rs:447`) | a message queued after the cleanup makes a new queue, which the next run drains |
| `stop_misses_task` | a stop stops all background subtasks of the conversation (`commands.rs:2968`) | the cascade goes over the tasks registered so far; one that is being launched is missed |
| `review_of_red` | the review is reached only when the verification has passed (`agent_loop.rs:1436`) | after a red verification an answer without an edit skips the gates |

Each is an invariant or action property under the heading *What the documentation says* (or *a comment says*) at the end of its module.

The newer modules show more. These have no run; where a property is named, it is defined in the module, and TLC finds it violated.
Where none is, the module takes the step as the code does and its properties are stated for what remains.

*Models and roles* (`ModelRegistry`)
- `MovedOnce`: a forced delete can empty `role_models`, and the next start then runs the migration again, which is called one-time and
  idempotent (「一次性、幂等」, `crates/storage/src/lib.rs:2236`). `delete_connection` is two statements without a transaction (`DeleteConnectionTorn`).

*Files and turns* (`Rewind`, `FileTools`)
- A bubble of a run that failed before any output is on screen only, while editing and retrying counts what is on screen to keep both lists alike
  (「避免 UI 与 DB 不一致」, `App.tsx:1272`). `RewindCutsWhatIsShown` is stated without such a bubble.
- `apply_multi_patch` may fail between two files; no checkpoint is stored then (`agent_loop.rs:1875`), and nothing undoes the first. Captures are taken before the
  wait for approval. Checkpoints of one second are matched to messages of that second. `make_dir` of an empty directory that is
  there is "undone" by removing it.
- A change whose checkpoint is not stored, because storing failed (「失败只忽略，不阻塞工具链路」, `checkpoint.rs:196`) or the process ended after the call wrote
  (`agent_loop.rs:1827` to `1875`), is in no list of changes, and no undo or rewind takes it back; nobody is told. `UndoRestores` is stated for what came after it.
  Undoing is not kept from happening during a run, and names no workspace.

*Parallel subtasks* (`ParallelSubtasks`)
- The branch is checked so that nothing is merged into another (「避免误并到别的分支」, `worktree.rs:386`), by one run of git, and merged into by the next: when the user
  switches branches in between, the work lands on the other branch and is reported as merged into the target. `ReportTruthful` leaves that case out by `orch.moved`;
  `CommittedWorkReachable` covers it: the work is on a branch.
- A worktree or branch that cannot be removed stays, and nobody is told (`worktree.rs:470`).
- A commit that fails for any reason counts as "no changes", and the worktree and branch are removed with what was edited (`subagent.rs:609`).
- Branches after a merge that failed for another reason than a conflict are reported as skipped after a conflict. An ended process leaves its worktrees behind.

*Approvals* (`Approvals`)
- There is one place for a request on screen; a second overwrites the first. The end of any run closes what is shown (`App.tsx:1094`), of another
  conversation too. A stop refuses the shown one so that the loop does not hang (「避免后端工具循环卡在等待中」, `App.tsx:1323`), and when that is through it closes what is shown
  then (`App.tsx:1326`): a request that came in between, of the same run, which is not cancelled yet, is closed without an answer. A reload forgets all. A request forgotten waits for ever, for it has
  no timeout and does not watch the flag, and the run with it. `WaitingIsVisible` is stated for requests that met none of this (`disturbed`).
  Rules are read when a run starts, though "always allow" is announced for what follows
  (「后续同类动作免审批」, `commands.rs:2982`).

*Language servers* (`LspPool`)
- `OwnTextReported`: diagnostics may be of an older text of the document; other documents opened before are not sent again, against
  「绝不基于陈旧快照」 (`crates/lsp/src/pool.rs:12`, `client.rs:196`).

*Stream* (`StreamRetry`)
- `BookedAsAnswered`: when the sibling model answers, the usage is booked at the price of the model asked (`chat.rs:131`, `agent_loop.rs:1253`).
  A stream that closes without its sign of the end counts as whole, and one that says nothing has no time limit. A character cut in two by the network is replaced
  (`crates/deepseek-client/src/lib.rs:586`).

*MCP* (`McpClients`)
- `OffIsDisconnected`: a server turned off or deleted while it connects is entered all the same, against 「停用立即断开」 (`commands.rs:2713`).
  Authorising may take five minutes, the handshake that waits for it 30 seconds. A server that has died stays connected until its calls time out.

*Shells* (`Shells`)
- `PolledOutputIsWhole`: `get_shell_output` reads the output before the status (`command_run.rs:151`) and can return *done* without the last line.
  A kill reaches the direct child only; a grandchild that holds the pipes keeps the readers, and the call that joins them, waiting.

*Git* (`GitTools`)
- `GitUsable`: a run of git killed at its limit may leave its lock. `FailedDidNothing`: a commit, push or pull request reported as failed may have happened.
  `DiffTallies`: the numbers and the patch of `git_diff` are two runs. The limit does not bound a call whose hook keeps the pipes open.

*Wiki and bundles* (`Wiki`, `Okf`)
- `PrintVouches`: the old index and fingerprint are not removed before a build writes, though the comment lists them (「仅删本目录内的 .md 与 index/指纹」, `store.rs:79`), and
  the fingerprint is written last so that it marks a consistent wiki (「成功落盘后才标记一致」, `store.rs:111`). A build of the same sources, forced or made for new summaries, that stops half way
  leaves pages missing under the fingerprint of the build before, and the next build answers *unchanged* until the sources change or one is forced.
- `EditsStayPut`: edits are kept under the file name of a page, which depends on what other directories there are (`okf.rs:159`).
- Publishing removes every `.md` under the shared folder, the user's too, against 「绝不碰用户其它文件」 (`okf.rs:752`, `okf.rs:869`). A write of the overlay is not
  atomic, and an overlay that cannot be read is replaced by the next edit (`commands.rs:1942`). A page file that cannot be removed is left without a word, and `write_atomic` shares its temporary name with an overlapping build (`store.rs:151`). A build without
  summaries drops those that were paid for. `auto_publish` is stored and read by nobody.

*Prices and accounts* (`Pricing`, `Accounts`)
- `ExportOnce`: the export counts the vision model of a run with tools twice (`commands.rs:2584`), against 「避免 CSV 双计」 (`crates/storage/src/lib.rs:325`).
- `SpentIsShown`: the usage of a run that failed is in no message. `AmountsAddInTiers`: the tier of a run is chosen by its merged prompt, that of
  each row by its request; the comment has the prompt of the turn (「按本轮 prompt tokens 选档」, `crates/token-accounting/src/lib.rs:223`).
- A comment has subagents fall back to the price of the action model, then main (`agent_loop.rs:1060`); the code goes to main at once
  (`crates/storage/src/lib.rs:1461`). The usage of the final review, of wiki summaries and of price captures is counted nowhere. Two models of one platform that differ in the
  prefix `Pro/` share a price (`presets.rs:84`). Applying several prices is not a transaction. A usage that tells neither hits nor misses of its prompt is
  charged as misses when it is alone (`token-accounting/src/lib.rs:273`), but not once it is merged with one that tells them; `parse_raw_usage` keeps such
  usages away unless a server sends two zeros.

## 8. What is not modelled

- *Row 10 of the plan*: two runs of one conversation that overlap (the front end's guard is taken at its word), `compact_history` in
  its real steps, the rows a deleted conversation leaves, the counters of the loop guards. Each needs the messages and the wire in one model, or doubles a state space
  that takes a run to its time limit already.
- *Verification* (`FinishGate`): a background command may change the workspace while gates run, which the model has only between answers; a gate command that ends without
  an exit code, and was not timed out, counts as passed in the code (`agent_loop.rs:1357`, `unwrap_or(0)`) and is no case here.
- *Partly*: parsers of test outputs, reviews and recovered calls (what they decide is a choice), hooks (a denial, at any time), lossless compaction (contents only),
  storage beyond the tables named above (statistics, search, titles, pins: one statement on one row), rename edits of language servers,
  reading, listing and searching of files.
- *Command sandbox, browser, web search and fetch*: calls of the operating system or of other programs; no protocol of their own. Commands are modelled on the
  path without the sandbox.
- *Code map, ranking, embedding requests*: parsing and arithmetic over text; the wiki takes the analysis of a directory as a version of it.
- *Shared types, prompts, tool schemas, thinking profiles, application shell, panels*: data and layout.
