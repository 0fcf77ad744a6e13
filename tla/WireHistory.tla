---------------------------- MODULE WireHistory ----------------------------
(***************************************************************************)
(* The "wire": the list of chat messages the agent loop sends to the       *)
(* model, and the operations on it (apps/desktop/src-tauri/src:            *)
(* agent_loop.rs finalize_wire and assemble_resume_wire, compaction.rs     *)
(* summary_split_points and summarize_wire_history, chat.rs                *)
(* assistant_message_for_tool_calls).                                      *)
(*                                                                         *)
(* A wire is kept as a record.                                             *)
(*   hist  the messages that are not system messages, in order; a message  *)
(*         carries in notes the system messages placed right before it     *)
(*         (the plan-execution instruction, the vision first look);        *)
(*   tail  the system messages after the last of hist;                     *)
(*   memo  what the auto-compact summaries cover: the tool calls whose     *)
(*         results are now only in a summary, which is a system message of *)
(*         the leading block.  The fixed system prompt of that block is    *)
(*         the same in every request and left out.                         *)
(* The message sequence of the code is the leading block, then each        *)
(* message of hist after its notes, then tail.                             *)
(***************************************************************************)
EXTENDS Integers, Sequences, FiniteSets, SequencesExt

CONSTANTS
  CallIds,    \* tool_call ids
  Texts,      \* what a user can send
  Steers,     \* what a user can queue while a run is in progress
  Answers,    \* final replies of the model
  Notes,      \* system messages that are not in the leading block
  KeepRecent  \* KEEP_RECENT_WIRE_MESSAGES

ASSUME WireAssumption ==
  /\ IsFiniteSet(CallIds)
  /\ IsFiniteSet(Notes)
  /\ KeepRecent \in Nat
  /\ KeepRecent > Cardinality(Notes)

(* Bodies the code writes itself; the rest come from the user or the model. *)
OwnBodies == {"none", "feedback", "result", "denied", "interrupted", "partial", "digest"}

Bodies == Texts \cup Steers \cup Answers \cup OwnBodies

Msg == [role  : {"user", "assistant", "tool"},
        body  : Bodies,
        ids   : SUBSET CallIds,   \* calls declared (assistant) or answered (tool)
        notes : SUBSET Notes]

Wire == [memo : SUBSET CallIds, hist : Seq(Msg), tail : SUBSET Notes]

(* No snapshot row and an empty snapshot are treated alike by the code. *)
EmptyWire == [memo |-> {}, hist |-> <<>>, tail |-> {}]

UserMsg(b, ns)    == [role |-> "user", body |-> b, ids |-> {}, notes |-> ns]
CallMsg(S)        == [role |-> "assistant", body |-> "none", ids |-> S, notes |-> {}]
ToolMsg(c, b)     == [role |-> "tool", body |-> b, ids |-> {c}, notes |-> {}]

(* Tool messages with body b for the calls of S, one each. *)
ToolMsgs(S, b) == [i \in 1..Cardinality(S) |-> ToolMsg(SetToSeq(S)[i], b)]

(* wire_messages.push: a pending tail note now precedes the new message. *)
Push(w, m) == [w EXCEPT !.hist = Append(@, [m EXCEPT !.notes = @ \cup w.tail]),
                        !.tail = {}]

-----------------------------------------------------------------------------
(* Declared and answered calls. *)

OfRole(h, r)  == {h[i] : i \in {j \in DOMAIN h : h[j].role = r}}
Declared(h)   == UNION {m.ids : m \in OfRole(h, "assistant")}
Answered(h)   == UNION {m.ids : m \in OfRole(h, "tool")}
(* Slip: only calls with a real result count as answered. *)
OrphansOfResults(h) ==
  Declared(h) \ UNION {m.ids : m \in {x \in OfRole(h, "tool") : x.body = "result"}}
Orphans(h)    == Declared(h) \ Answered(h)

(* The calls whose own result text is in the history. *)
Resolved(h)   == UNION {m.ids : m \in {x \in OfRole(h, "tool") : x.body = "result"}}

BodiesOf(h, r) == {m.body : m \in OfRole(h, r)}

(* Slip: nothing is added. *)
FinalizeNothing(h) == h

(* Slip: a declaration left open is dropped instead of answered. *)
FinalizeByDropping(h) ==
  IF h # <<>> /\ Last(h).role = "assistant" THEN Front(h)
  ELSE h \o ToolMsgs(Orphans(h), "interrupted")

(* finalize_wire: a placeholder result, at the end, for every call declared *)
(* somewhere and answered nowhere.                                          *)
FinalizeWire(h) == h \o ToolMsgs(Orphans(h), "interrupted")

(* Slip: the history is taken as it is. *)
WithSystem(h) == h

(* The resume filter: every system message of the snapshot is dropped. *)
WithoutSystem(h) == [i \in DOMAIN h |-> [h[i] EXCEPT !.notes = {}]]

(* Slip: the placeholders are added after the new user message. *)
AssembleFinalizedLast(snapshot, fresh) ==
  IF snapshot.hist = <<>> THEN fresh
  ELSE [memo |-> {}, tail |-> {},
        hist |-> FinalizeWire(Append(WithoutSystem(snapshot.hist), fresh.hist[Len(fresh.hist)]))]

(* assemble_resume_wire(snapshot, fresh): the snapshot's history without its *)
(* system messages, finalized, then the new turn's notes and user message,   *)
(* unless the history already ends with that same user message.              *)
AssembleResume(snapshot, fresh) ==
  LET new  == fresh.hist[Len(fresh.hist)]
      old  == WithoutSystem(snapshot.hist)
      last == old[Len(old)]
      done == FinalizeWire(old)
  IN  IF \/ snapshot.hist = <<>>
         \/ fresh.hist = <<>>
         \/ new.role # "user"
      THEN fresh
      ELSE IF last.role = "user" /\ last.body = new.body
           THEN [memo |-> {}, hist |-> done, tail |-> new.notes]
           ELSE [memo |-> {}, hist |-> Append(done, new), tail |-> {}]

(* Messages of the code from message i of h on, notes and tail included. *)
Weight(h, i, tail) ==
  Cardinality(UNION {{j} \X ({"message"} \cup h[j].notes) : j \in i..Len(h)})
    + Cardinality(tail)

(* Where the history can be cut: KeepRecent messages, or more, are kept, and  *)
(* the first of them is no tool result.                                       *)
Cuts(w) ==
  {c \in DOMAIN w.hist : /\ Weight(w.hist, c, w.tail) >= KeepRecent
                         /\ c = 1 \/ w.hist[c].role # "tool"}

(* summary_split_points: the first message of hist that is kept.  The code    *)
(* counts back KeepRecent messages and, from a tool result, further to the    *)
(* message that is not one; 0 when that leaves nothing to summarize.          *)
SplitPoint(w) ==
  IF Cuts(w) = {} \/ Max(Cuts(w)) = 1 THEN 0 ELSE Max(Cuts(w))

(* Slip: the message before the cut is neither summarized nor kept. *)
SummarizeShort(w) ==
  LET cut == SplitPoint(w)
  IN  IF cut = 0 THEN w
      ELSE [w EXCEPT !.memo = @ \cup Resolved(SubSeq(w.hist, 1, cut - 2)),
                     !.hist = SubSeq(@, cut, Len(@))]

(* summarize_wire_history: the messages before the split point become a       *)
(* summary, which joins the leading block.  Notes of the first message are    *)
(* part of that block; those of the message at the cut survive only when the  *)
(* cut falls before them.  A short history comes back unchanged.              *)
Summarize(w) ==
  LET cut   == SplitPoint(w)
      first == w.hist[cut]
      notes == w.hist[1].notes \cup
               (IF Weight(w.hist, cut, w.tail) = KeepRecent THEN first.notes ELSE {})
  IN  IF cut = 0 THEN w
      ELSE [w EXCEPT !.memo = @ \cup Resolved(SubSeq(w.hist, 1, cut - 1)),
                     !.hist = <<[first EXCEPT !.notes = notes]>>
                                \o SubSeq(@, cut + 1, Len(@))]

-----------------------------------------------------------------------------
(* What the model's endpoint requires of a request (the comment of           *)
(* finalize_wire: every tool_use is followed by its tool_result).            *)

(* Position j is in the run of tool results right after position i. *)
Follows(h, i, j) == i < j /\ \A k \in (i+1)..j : h[k].role = "tool"

ResultAfter(h, i, c) == \E j \in 1..Len(h) : Follows(h, i, j) /\ h[j].ids = {c}

AnsweredAt(h, i) == \A c \in h[i].ids : ResultAfter(h, i, c)

DeclaredBefore(h, j) ==
  \E i \in 1..Len(h) : /\ h[i].role = "assistant"
                       /\ Follows(h, i, j)
                       /\ h[j].ids \subseteq h[i].ids

WellPaired(h) ==
  /\ \A i \in 1..Len(h) : h[i].role = "assistant" => AnsweredAt(h, i)
  /\ \A j \in 1..Len(h) : h[j].role = "tool" => DeclaredBefore(h, j)
=============================================================================
