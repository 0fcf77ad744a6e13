------------------------------- MODULE Rewind --------------------------------
(***************************************************************************)
(* The messages of a conversation, the file changes of its turns, and what *)
(* takes both back: "edit and retry" (commands.rs rewind_to_message) cuts  *)
(* the messages from one on and undoes the changes made since it was sent; *)
(* the list of changes (revert_to_checkpoint) undoes from one change on.   *)
(*                                                                         *)
(* The messages on screen and those in the database are two lists: the     *)
(* bubble of a run that failed before it said anything is only on screen.  *)
(* Changes and messages are matched by time, in whole seconds.             *)
(***************************************************************************)
EXTENDS FileTools

CONSTANTS
  Tried,                       \* calls the model makes
  MaxSecond,                   \* bound: seconds that pass
  MaxTurns, MaxCalls, MaxEnds  \* bounds: sends, calls, ends of the process

ASSUME RewindAssumption ==
  /\ Tried \subseteq Calls
  /\ MaxSecond \in Nat /\ MaxTurns \in Nat /\ MaxCalls \in Nat /\ MaxEnds \in Nat

VARIABLES
  fs,             \* the workspace
  now,            \* the clock, in seconds
  messages,       \* table messages, in the order of (created_at, rowid)
  shown,          \* the messages on screen; id 0 is a bubble that is not stored
  wire,           \* turns the wire snapshot replays, by the id of their message
  run,            \* the run of the last message: "idle", "started", "acted"
  pending,        \* the call whose snapshot is taken, waiting for approval
  landed,         \* the change that is made and not yet in checkpoints
  checkpoints,    \* table file_checkpoints, in the order of seq
  undo,           \* the revert in progress
  ids,            \* message ids drawn
  calls, ends,    \* history, for the bounds
  spoilt          \* history: what the checkpoints up to this one say of the
                  \* files no longer holds

transcript == <<messages, shown, wire, ids>>
rwvars == <<fs, now, transcript, run, pending, landed, checkpoints, undo, calls, ends, spoilt>>

Nobody  == [call |-> "none"]
NoUndo  == [kind |-> "none"]
(* The changes made, the one that is not stored among them. *)
Made    == IF landed = Nobody THEN Len(checkpoints) ELSE Len(checkpoints) + 1
Stored  == [i \in DOMAIN messages |-> [id |-> messages[i].id, role |-> messages[i].role]]
Targets(S) == {k \in S : ~checkpoints[k].reverted /\ checkpoints[k].revertible}

RwInit ==
  /\ fs \in FileSystems /\ Sound(fs)
  /\ now = 0 /\ messages = <<>> /\ shown = <<>> /\ wire = {} /\ ids = 0
  /\ run = "idle" /\ pending = Nobody /\ landed = Nobody /\ checkpoints = <<>> /\ undo = NoUndo
  /\ calls = 0 /\ ends = 0 /\ spoilt = 0

Tick ==
  /\ now < MaxSecond /\ now' = now + 1
  /\ UNCHANGED <<fs, transcript, run, pending, landed, checkpoints, undo, calls, ends, spoilt>>

-----------------------------------------------------------------------------
(* A turn. *)

SaveMessage(role, on_screen) ==
  /\ ids' = ids + 1
  /\ messages' = Append(messages, [id |-> ids', role |-> role, at |-> now])
  /\ shown' = Append(on_screen, [id |-> ids', role |-> role])

(* The turn of a run: the message it answers is the last one stored. *)
Turn == IF messages = <<>> THEN 0 ELSE messages[Len(messages)].id

Send ==
  /\ run = "idle" /\ undo = NoUndo /\ ids < 2 * MaxTurns
  /\ SaveMessage("user", shown) /\ run' = "started"
  /\ UNCHANGED <<fs, now, wire, pending, landed, checkpoints, undo, calls, ends, spoilt>>

(* The snapshot is read before the approval, the call runs after it. *)
CaptureBefore(call) ==
  /\ run # "idle" /\ pending = Nobody /\ landed = Nobody /\ calls < MaxCalls
  /\ pending' = [call |-> call, capture |-> Capture(fs, call), seen |-> fs]
  /\ calls' = calls + 1
  /\ UNCHANGED <<fs, now, transcript, run, landed, checkpoints, undo, ends, spoilt>>

Acted(turns) ==
  /\ run' = "acted" /\ wire' = wire \cup turns
  /\ UNCHANGED <<now, messages, shown, ids, undo, calls, ends>>

(* Denied, or the tool refuses: nothing is written. *)
RefuseCall ==
  /\ pending # Nobody /\ pending' = Nobody /\ Acted({Turn})
  /\ UNCHANGED <<fs, landed, checkpoints, spoilt>>

(* The call writes the files; its checkpoint is stored later. *)
ExecuteCall ==
  /\ pending # Nobody /\ CanApply(fs, pending.call)
  /\ fs' = Apply(fs, pending.call)
  /\ pending' = Nobody
  /\ landed' = [call |-> pending.call, prev |-> pending.capture.prev,
                revertible |-> pending.capture.revertible, before |-> fs.file]
  /\ spoilt' = IF undo # NoUndo \/ fs # pending.seen THEN Len(checkpoints) + 1 ELSE spoilt
  /\ UNCHANGED <<now, transcript, run, checkpoints, undo, calls, ends>>

PersistCheckpoint ==
  /\ landed # Nobody /\ landed' = Nobody
  /\ checkpoints' = Append(checkpoints,
       [call |-> landed.call, prev |-> landed.prev,
        revertible |-> landed.revertible, reverted |-> FALSE,
        at |-> now, turn |-> Turn, before |-> landed.before])
  /\ spoilt' = IF undo # NoUndo THEN Made ELSE spoilt
  /\ Acted({Turn}) /\ UNCHANGED <<fs, pending>>

(* The row is not written, which nobody is told: the run goes on, and the   *)
(* change cannot be taken back.                                            *)
LoseCheckpoint ==
  /\ landed # Nobody /\ landed' = Nobody
  /\ spoilt' = Len(checkpoints)
  /\ Acted({Turn}) /\ UNCHANGED <<fs, pending, checkpoints>>

(* A multi patch that fails half way is an error: no checkpoint is stored. *)
TearPatch ==
  /\ pending # Nobody /\ pending' = Nobody
  /\ fs' \in TornPatches(fs, pending.call)
  /\ spoilt' = IF fs' # fs THEN Len(checkpoints) ELSE spoilt
  /\ Acted({Turn}) /\ UNCHANGED <<landed, checkpoints>>

(* chat-done, or an error after some output: the answer is stored. *)
Finish ==
  /\ run # "idle" /\ pending = Nobody /\ landed = Nobody
  /\ SaveMessage("assistant", shown) /\ run' = "idle"
  /\ \E kept \in {{}, {Turn}} : wire' = wire \cup kept
  /\ UNCHANGED <<fs, now, pending, landed, checkpoints, undo, calls, ends, spoilt>>

(* An error before any output: a bubble on screen, nothing stored. *)
FailSilently ==
  /\ run = "started" /\ pending = Nobody /\ landed = Nobody
  /\ shown' = Append(shown, [id |-> 0, role |-> "assistant"]) /\ run' = "idle"
  /\ UNCHANGED <<fs, now, messages, wire, ids, pending, landed, checkpoints, undo, calls, ends, spoilt>>

Reload ==
  /\ run = "idle" /\ undo = NoUndo /\ shown # Stored /\ shown' = Stored
  /\ UNCHANGED <<fs, now, messages, wire, ids, run, pending, landed, checkpoints, undo, calls, ends, spoilt>>

(* Delete the last answer and run its message again.  The screen looks for  *)
(* the answer in its list, the backend in its own.                          *)
Regenerate ==
  /\ run = "idle" /\ undo = NoUndo /\ ids < 2 * MaxTurns
  /\ Len(shown) > 1 /\ shown[Len(shown)].role = "assistant" /\ shown[Len(shown) - 1].role = "user"
  /\ messages # <<>> /\ messages[Len(messages)].role = "assistant"
  /\ messages' = SubSeq(messages, 1, Len(messages) - 1)
  /\ shown' = SubSeq(shown, 1, Len(shown) - 1)
  /\ wire' = {} /\ run' = "started"
  /\ UNCHANGED <<fs, now, ids, pending, landed, checkpoints, undo, calls, ends, spoilt>>

-----------------------------------------------------------------------------
(* Taking back. *)

Exact(S) == \A k \in S : k > spoilt /\ (checkpoints[k].reverted \/ checkpoints[k].revertible)

StartUndo(kind, S, cut) ==
  undo' = [kind |-> kind, left |-> Targets(S), from |-> Targets(S), cut |-> cut,
           exact |-> Exact(S), agreed |-> shown = Stored]

(* The list of changes: from one change on, also while a run goes on. *)
RevertToCheckpoint(k) ==
  /\ undo = NoUndo
  /\ StartUndo("revert", {j \in DOMAIN checkpoints : j >= k}, 0)
  /\ UNCHANGED <<fs, now, transcript, run, pending, landed, checkpoints, calls, ends, spoilt>>

(* Edit and retry of the i-th message on screen: the backend is told how    *)
(* many messages to cut.                                                    *)
LastN(n) == messages[Len(messages) - n + 1]

(* Slip: off by one, the time of the message before. *)
SlipCutTimestamp(n) == IF n \in 1..Len(messages) - 1 THEN {LastN(n + 1).at} ELSE {}

CutTimestamp(n) == IF n \in 1..Len(messages) THEN {LastN(n).at} ELSE {}

RewindToMessage(i) ==
  /\ run = "idle" /\ undo = NoUndo
  /\ shown[i].role = "user"
  /\ LET n == Len(shown) - i + 1
     IN IF CutTimestamp(n) = {}
        THEN shown' = SubSeq(shown, 1, i - 1) /\ undo' = undo
        ELSE /\ \E t \in CutTimestamp(n) :
                  StartUndo("rewind", {k \in DOMAIN checkpoints : checkpoints[k].at >= t}, n)
             /\ shown' = shown
  /\ UNCHANGED <<fs, now, messages, wire, ids, run, pending, landed, checkpoints, calls, ends, spoilt>>

(* Slip: the oldest change first. *)
SlipLatest(S) == CHOOSE k \in S : \A j \in S : k <= j

Latest(S) == CHOOSE k \in S : \A j \in S : j <= k

UndoOne ==
  /\ undo # NoUndo /\ undo.left # {}
  /\ LET k == Latest(undo.left)
         c == checkpoints[k]
     IN /\ undo' = [undo EXCEPT !.left = @ \ {k},
                                !.exact = @ /\ CanRevert(fs, c.call, c.prev)]
        /\ IF CanRevert(fs, c.call, c.prev)
           THEN /\ fs' = Revert(fs, c.call, c.prev)
                /\ checkpoints' = [checkpoints EXCEPT ![k].reverted = TRUE]
           ELSE fs' = fs /\ checkpoints' = checkpoints
        /\ spoilt' = IF CanRevert(fs, c.call, c.prev) /\ landed = Nobody THEN spoilt ELSE Made
  /\ UNCHANGED <<now, transcript, run, pending, landed, calls, ends>>

FinishRevert ==
  /\ undo # NoUndo /\ undo.left = {} /\ undo.kind = "revert" /\ undo' = NoUndo
  /\ UNCHANGED <<fs, now, transcript, run, pending, landed, checkpoints, calls, ends, spoilt>>

FinishRewind ==
  /\ undo # NoUndo /\ undo.left = {} /\ undo.kind = "rewind" /\ undo' = NoUndo
  /\ messages' = SubSeq(messages, 1, Len(messages) - undo.cut)
  /\ shown' = SubSeq(shown, 1, Len(shown) - undo.cut)
  /\ wire' = {}
  /\ UNCHANGED <<fs, now, ids, run, pending, landed, checkpoints, calls, ends, spoilt>>

(* The process ends.  A change may be made and not yet stored, or taken    *)
(* back and not yet marked.                                                *)
EndProcess ==
  /\ ends < MaxEnds /\ ends' = ends + 1
  /\ \/ fs' = fs
     \/ /\ undo # NoUndo /\ undo.left # {}
        /\ LET c == checkpoints[Latest(undo.left)]
           IN CanRevert(fs, c.call, c.prev) /\ fs' = Revert(fs, c.call, c.prev)
  /\ run' = "idle" /\ pending' = Nobody /\ landed' = Nobody /\ undo' = NoUndo /\ shown' = Stored
  /\ spoilt' = IF landed # Nobody THEN Len(checkpoints) ELSE spoilt
  /\ UNCHANGED <<now, messages, wire, ids, checkpoints, calls>>

RwNext ==
  \/ Tick \/ Send
  \/ \E call \in Tried : CaptureBefore(call)
  \/ RefuseCall \/ ExecuteCall \/ TearPatch \/ PersistCheckpoint \/ LoseCheckpoint
  \/ Finish \/ FailSilently \/ Reload \/ Regenerate
  \/ \E k \in DOMAIN checkpoints : RevertToCheckpoint(k)
  \/ \E i \in DOMAIN shown : RewindToMessage(i)
  \/ UndoOne \/ FinishRevert \/ FinishRewind \/ EndProcess

RwSpec == RwInit /\ [][RwNext]_rwvars

-----------------------------------------------------------------------------
RwTypeOK ==
  /\ fs \in FileSystems /\ Sound(fs)
  /\ now \in 0..MaxSecond /\ ids \in Nat /\ wire \subseteq 1..ids
  /\ \A i \in DOMAIN messages :
       /\ messages[i].id \in 1..ids /\ messages[i].at \in 0..now
       /\ messages[i].role \in {"user", "assistant"}
  /\ \A i \in DOMAIN shown : shown[i].id \in 0..ids
  /\ run \in {"idle", "started", "acted"}
  /\ \A k \in DOMAIN checkpoints :
       checkpoints[k].call \in Tried /\ checkpoints[k].at \in 0..now
  /\ spoilt \in 0..Made

(* Undoing changes in the reverse order of their seq, whatever the tools    *)
(* were, through deletes, moves and patches of several files, and again     *)
(* after an undo the process did not survive, leaves every file as it was   *)
(* before the first of them: if all of them could be taken back, and since  *)
(* that first one nothing happened to the files that no checkpoint tells.   *)
(* What no checkpoint tells: a change whose row was not written, because    *)
(* storing it failed or the process ended before; a patch torn half way; a  *)
(* call that ran on other files than were captured; a change taken back     *)
(* while a call made another; and one that could not be taken back.         *)
UndoRestores ==
  [][(undo # NoUndo /\ undo' = NoUndo /\ undo.left = {} /\ undo.from # {}
        /\ undo.exact /\ \A k \in undo.from : k > spoilt) =>
       \A first \in undo.from :
         (\A k \in undo.from : first <= k) => fs'.file = checkpoints[first].before]_rwvars

(* Edit and retry cuts the same messages in the database as on screen, and  *)
(* undoes no change of a turn that stays, unless it was made in the second  *)
(* the message was sent: if both lists agreed when it began.                *)
RewindCutsWhatIsShown ==
  [][(undo # NoUndo /\ undo.kind = "rewind" /\ undo' = NoUndo /\ undo.agreed /\ ends' = ends) =>
       /\ shown' = Stored'
       /\ \A k \in undo.from :
            \/ checkpoints[k].turn >= LastN(undo.cut).id
            \/ checkpoints[k].at = LastN(undo.cut).at]_rwvars

(* No turn that was cut is replayed to the model.                           *)
WireWithinTranscript ==
  \A t \in wire : \E i \in DOMAIN messages : messages[i].id = t
=============================================================================
