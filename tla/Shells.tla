-------------------------------- MODULE Shells -------------------------------
(***************************************************************************)
(* Commands the agent runs: in the foreground, where the tool call waits   *)
(* for the result, and in the background, where it polls and kills         *)
(* (apps/desktop/src-tauri/src/command_run.rs, commands.rs,                *)
(* crates/tool-runtime run_command_streaming).                             *)
(*                                                                         *)
(* A command is a process with two pipes and a reading thread for each; it *)
(* may leave a child of its own that holds the pipes open.  Output is a    *)
(* sequence of numbered lines.                                             *)
(***************************************************************************)
EXTENDS Naturals, Sequences, FiniteSets

CONSTANTS
  ShellIds,      \* commands, the background ones with their shellId
  OutputBuffer,  \* lines the polled buffer keeps (32 000 characters)
  MaxCollected,  \* lines a result holds (MAX_COMMAND_OUTPUT_BYTES)
  MaxLines       \* bound: lines a command writes

ASSUME ShellsAssumption == OutputBuffer \in Nat /\ MaxCollected \in Nat

VARIABLES
  shells,   \* the commands
  poller    \* get_shell_output: between its two reads

shvars == <<shells, poller>>

Pipes == {"stdout", "stderr"}
Final == {"done", "error", "killed"}

NotRun == [pc |-> "none", background |-> FALSE, alive |-> FALSE, child |-> FALSE, wrote |-> <<>>,
           pipe |-> [p \in Pipes |-> <<>>], reader |-> [p \in Pipes |-> "none"],
           collected |-> [p \in Pipes |-> <<>>], truncated |-> FALSE,
           shown |-> <<>>, output |-> <<>>, status |-> "none", cancel |-> FALSE, timed_out |-> FALSE]
NoPoll == [id |-> "none", output |-> <<>>]

ShInit == shells = [s \in ShellIds |-> NotRun] /\ poller = NoPoll

Is(s, what) == shells[s].pc = what
Put(s, new) == shells' = [shells EXCEPT ![s] = new]

(* Registered before its thread starts. *)
StartCommand(s, background) ==
  /\ Is(s, "none")
  /\ Put(s, [NotRun EXCEPT !.pc = "spawn", !.background = background, !.status = "running"])
  /\ UNCHANGED poller

Spawn(s) ==
  /\ Is(s, "spawn")
  /\ \/ Put(s, [shells[s] EXCEPT !.pc = "run", !.alive = TRUE, !.reader = [p \in Pipes |-> "reading"]])
     \/ Put(s, [shells[s] EXCEPT !.pc = "returned",   \* no PowerShell, no sandbox, no workspace
                  !.status = IF shells[s].cancel THEN "killed" ELSE "error"])
  /\ UNCHANGED poller

(* The command writes a line, leaves a child behind, exits; the child too. *)
CommandWrites(s, p) ==
  /\ (shells[s].alive \/ shells[s].child) /\ Len(shells[s].wrote) < MaxLines
  /\ LET n == Len(shells[s].wrote) + 1
     IN Put(s, [shells[s] EXCEPT !.wrote = Append(@, n), !.pipe[p] = Append(@, n)])
  /\ UNCHANGED poller

CommandForks(s) == shells[s].alive /\ ~shells[s].child /\ Put(s, [shells[s] EXCEPT !.child = TRUE]) /\ UNCHANGED poller
CommandExits(s) == shells[s].alive /\ Put(s, [shells[s] EXCEPT !.alive = FALSE]) /\ UNCHANGED poller
ChildExits(s)   == shells[s].child /\ Put(s, [shells[s] EXCEPT !.child = FALSE]) /\ UNCHANGED poller

Last(seq, n) == IF Len(seq) > n THEN SubSeq(seq, Len(seq) - n + 1, Len(seq)) ELSE seq

(* drain_pipe_streaming: each line goes to the callback first, then to the *)
(* result, up to its size; a line cut within a character ends the reader.  *)
ReadLine(s, p) ==
  LET line == Head(shells[s].pipe[p])
      read == [shells[s] EXCEPT !.pipe[p] = Tail(@), !.shown = Append(@, line), !.output = Last(Append(@, line), OutputBuffer)]
  IN /\ shells[s].reader[p] = "reading" /\ shells[s].pipe[p] # <<>>
     /\ IF Len(shells[s].collected[p]) < MaxCollected
        THEN \/ Put(s, [read EXCEPT !.collected[p] = Append(@, line)])
             \/ /\ Len(shells[s].collected[p]) + 1 = MaxCollected
                /\ \/ Put(s, [read EXCEPT !.collected[p] = Append(@, line), !.truncated = TRUE])
                   \/ Put(s, [read EXCEPT !.collected[p] = <<>>, !.reader[p] = "died"])
        ELSE Put(s, [read EXCEPT !.truncated = TRUE])
     /\ UNCHANGED poller

ReadEof(s, p) ==
  /\ shells[s].reader[p] = "reading" /\ shells[s].pipe[p] = <<>> /\ ~shells[s].alive /\ ~shells[s].child
  /\ Put(s, [shells[s] EXCEPT !.reader[p] = "ended"]) /\ UNCHANGED poller

(* The waiting loop: the process has exited, or was killed, itself alone,  *)
(* because of the cancel flag or of the time.                              *)
SeesExit(s) ==
  /\ Is(s, "run") /\ ~shells[s].alive /\ Put(s, [shells[s] EXCEPT !.pc = "join"]) /\ UNCHANGED poller

SeesCancel(s) ==
  /\ Is(s, "run") /\ shells[s].background /\ shells[s].cancel /\ shells[s].alive
  /\ Put(s, [shells[s] EXCEPT !.pc = "join", !.alive = FALSE]) /\ UNCHANGED poller

CommandTimesOut(s) ==
  /\ Is(s, "run") /\ shells[s].alive /\ ~(shells[s].background /\ shells[s].cancel)
  /\ Put(s, [shells[s] EXCEPT !.pc = "join", !.alive = FALSE, !.timed_out = TRUE]) /\ UNCHANGED poller

(* Slip: the status is set without waiting for the readers. *)
SlipJoinReaders(s) ==
  /\ Is(s, "join")
  /\ Put(s, [shells[s] EXCEPT !.pc = "returned", !.status = IF shells[s].cancel THEN "killed" ELSE "done"])
  /\ UNCHANGED poller

(* Both readers are joined; then the status is set. *)
JoinReaders(s) ==
  /\ Is(s, "join") /\ \A p \in Pipes : shells[s].reader[p] # "reading"
  /\ Put(s, [shells[s] EXCEPT !.pc = "returned", !.status = IF shells[s].cancel THEN "killed" ELSE "done"])
  /\ UNCHANGED poller

(* kill_shell, or the panel's kill_bg_activity. *)
KillShell(s) ==
  /\ shells[s].background /\ ~shells[s].cancel /\ Put(s, [shells[s] EXCEPT !.cancel = TRUE]) /\ UNCHANGED poller

(* get_shell_output: the output, then the status, each under a lock of its *)
(* own.                                                                    *)
PollOutput(s) ==
  /\ shells[s].background /\ poller = NoPoll
  /\ poller' = [id |-> s, output |-> shells[s].output] /\ UNCHANGED shells

PollStatus ==
  /\ poller # NoPoll /\ poller' = NoPoll /\ UNCHANGED shells

ShNext ==
  \/ \E s \in ShellIds :
       \/ \E background \in BOOLEAN : StartCommand(s, background)
       \/ Spawn(s) \/ CommandForks(s) \/ CommandExits(s) \/ ChildExits(s)
       \/ SeesExit(s) \/ SeesCancel(s) \/ CommandTimesOut(s) \/ JoinReaders(s) \/ KillShell(s) \/ PollOutput(s)
       \/ \E p \in Pipes : CommandWrites(s, p) \/ ReadLine(s, p) \/ ReadEof(s, p)
  \/ PollStatus

ShSpec == ShInit /\ [][ShNext]_shvars

-----------------------------------------------------------------------------
(* Types: buffers within their sizes. *)
ShTypeOK ==
  \A s \in ShellIds :
    /\ shells[s].status \in Final \cup {"none", "running"}
    /\ Len(shells[s].output) <= OutputBuffer
    /\ \A p \in Pipes : Len(shells[s].collected[p]) <= MaxCollected

Lines(seq) == {seq[i] : i \in DOMAIN seq}

(* A final status is the last word.  When a command is reported done or    *)
(* killed its process has exited, no reader is at work, and every line it  *)
(* or its child wrote has been read and shown, each once, and the buffer   *)
(* holds the last of them; killed says that someone asked for it.  Only a  *)
(* reader that died leaves lines behind.                                   *)
FinalStatusIsLast ==
  \A s \in ShellIds : LET sh == shells[s] IN
    sh.status \in {"done", "killed"} /\ sh.reader # NotRun.reader =>
      /\ ~sh.alive /\ \A p \in Pipes : sh.reader[p] # "reading"
      /\ (\A p \in Pipes : sh.reader[p] = "ended") =>
           /\ ~sh.child /\ Lines(sh.shown) = Lines(sh.wrote) /\ Len(sh.shown) = Len(sh.wrote)
           /\ sh.output = Last(sh.shown, OutputBuffer)
           /\ sh.truncated \/ Lines(sh.collected["stdout"]) \cup Lines(sh.collected["stderr"]) = Lines(sh.wrote)
      /\ sh.status = "killed" => sh.cancel

(* What get_shell_output returns with a final status is the whole output.  *)
(* It does not hold: lines arrive between its two reads.                   *)
PolledOutputIsWhole ==
  [][poller # NoPoll /\ poller' = NoPoll /\ shells[poller.id].status \in Final => poller.output = shells[poller.id].output]_shvars
=============================================================================
