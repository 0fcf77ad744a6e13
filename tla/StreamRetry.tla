----------------------------- MODULE StreamRetry -----------------------------
(***************************************************************************)
(* One request to a model: retries with backoff, the model's sibling when  *)
(* it stays down, Stop, and the guard that keeps tool-call markup off the  *)
(* screen while the answer streams in                                      *)
(* (apps/desktop/src-tauri/src/chat.rs, crates/deepseek-client).           *)
(*                                                                         *)
(* An answer is a sequence of units of three bytes: "t" is text, and "<",  *)
(* "To", "ol" in a row begin a marker.  Notices about retries are left out.*)
(***************************************************************************)
EXTENDS Naturals, Sequences

CONSTANTS
  Answered,      \* the answers a model may give
  Guard,         \* GUARD, in units
  MaxAttempts,   \* MAX_ATTEMPTS
  ModelNames, Sibling,   \* [ModelNames -> ModelNames \cup {"none"}]: fallback_model_for
  MaxRounds      \* bound: requests

Units == {"t", "<", "To", "ol"}

ASSUME StreamAssumption ==
  /\ Guard \in Nat /\ Guard >= 2   \* the longest marker, less one unit
  /\ \A answer \in Answered : answer \in Seq(Units)
  /\ Sibling \in [ModelNames -> ModelNames \cup {"none"}] /\ MaxAttempts \in Nat \ {0}
  /\ MaxRounds \in Nat

VARIABLES
  round,     \* the request: where it is, and what its loop keeps
  server,    \* the answer the server is sending, and how much of it is out
  displayed,    \* what the screen shows of this answer
  stop,      \* the cancel token
  rounds

strvars == <<round, server, displayed, stop, rounds>>

Marker == <<"<", "To", "ol">>

(* tool_markup_index: where the first marker begins; 0 for none. *)
MarkupIndex(text) ==
  LET at == {i \in 1..Len(text) - 2 : SubSeq(text, i, i + 2) = Marker}
  IN IF at = {} THEN 0 ELSE CHOOSE i \in at : \A j \in at : i <= j

NoRound == [pc |-> "idle", streams |-> TRUE, model |-> "none", attempt |-> 0, fallback_used |-> FALSE,
            content |-> <<>>, emitted |-> 0, leaked |-> FALSE, began |-> FALSE]

StrInit ==
  /\ round = NoRound /\ server = <<>> /\ displayed = <<>> /\ stop = FALSE /\ rounds = 0

(* stream_round_with_retry for a round of the loop, chat_completion_with_- *)
(* retry for a summary, a review or a subagent, which no one can stop.     *)
BeginRound(model, streams) ==
  /\ round.pc \notin {"ask", "stream", "backoff"} /\ rounds < MaxRounds /\ rounds' = rounds + 1
  /\ round' = [NoRound EXCEPT !.pc = "ask", !.streams = streams, !.model = model, !.attempt = 1]
  /\ displayed' = <<>> /\ stop' = FALSE /\ UNCHANGED server

End(how) == round' = [round EXCEPT !.pc = how]

(* The top of the loop: a stop is seen before the request goes out. *)
SendRequest ==
  /\ round.pc = "ask"
  /\ IF stop /\ round.streams THEN End("cancelled") /\ UNCHANGED server
     ELSE \E answer \in Answered :
            /\ server' = answer
            /\ round' = [round EXCEPT !.pc = "stream", !.content = <<>>, !.emitted = 0, !.leaked = FALSE, !.began = FALSE]
  /\ UNCHANGED <<displayed, stop, rounds>>

(* Slip: nothing is held back, and the start of a marker gets through. *)
SlipShowUpTo(text) == IF MarkupIndex(text) # 0 THEN MarkupIndex(text) - 1 ELSE Len(text)

(* What of the text so far may be shown: up to a marker; without one, all  *)
(* but the last units, which may be the start of one.                      *)
ShowUpTo(text) ==
  IF MarkupIndex(text) # 0 THEN MarkupIndex(text) - 1
  ELSE IF Len(text) > Guard THEN Len(text) - Guard ELSE 0

(* The next n units arrive. *)
Delta(n) ==
  /\ round.pc = "stream" /\ n <= Len(server)
  /\ server' = SubSeq(server, n + 1, Len(server))
  /\ LET text == round.content \o SubSeq(server, 1, n)
         upTo == ShowUpTo(text)
         more == round.streams /\ ~round.leaked /\ upTo > round.emitted
     IN /\ displayed' = IF more THEN displayed \o SubSeq(text, round.emitted + 1, upTo) ELSE displayed
        /\ round' = [round EXCEPT !.content = text, !.began = @ \/ more,
                       !.leaked = @ \/ MarkupIndex(text) # 0,
                       !.emitted = IF MarkupIndex(text) # 0 THEN Len(text) ELSE IF more THEN upTo ELSE @]
  /\ UNCHANGED <<stop, rounds>>

(* Reasoning is shown as it comes, apart from the answer. *)
Reason ==
  /\ round.pc = "stream" /\ round.streams /\ ~round.began
  /\ round' = [round EXCEPT !.began = TRUE] /\ UNCHANGED <<server, displayed, stop, rounds>>

(* The stream ends, by its own sign or because the connection closed: what *)
(* was held back is shown.                                                 *)
StreamEnds ==
  /\ round.pc = "stream"
  /\ displayed' = IF round.streams /\ ~round.leaked
               THEN displayed \o SubSeq(round.content, round.emitted + 1, Len(round.content)) ELSE displayed
  /\ End("ok") /\ server' = <<>>
  /\ UNCHANGED <<stop, rounds>>

(* An error.  Only one that may pass, before anything was shown, is tried  *)
(* again; when the attempts are used up, once more with the sibling.       *)
RequestFails(retryable) ==
  /\ round.pc = "stream"
  /\ LET again == retryable /\ ~round.began
         next  == Sibling[round.model]
     IN round' = IF again /\ round.attempt < MaxAttempts THEN [round EXCEPT !.pc = "backoff"]
                 ELSE IF again /\ round.streams /\ ~round.fallback_used /\ next # "none"
                      THEN [round EXCEPT !.pc = "ask", !.model = next, !.fallback_used = TRUE, !.attempt = 1]
                      ELSE [round EXCEPT !.pc = "error"]
  /\ server' = <<>> /\ UNCHANGED <<displayed, stop, rounds>>

BackoffEnds ==
  /\ round.pc = "backoff" /\ round' = [round EXCEPT !.pc = "ask", !.attempt = @ + 1]
  /\ UNCHANGED <<server, displayed, stop, rounds>>

CancelAgent ==
  /\ round.pc \in {"ask", "stream", "backoff"} /\ ~stop /\ stop' = TRUE
  /\ UNCHANGED <<round, server, displayed, rounds>>

(* wait_for_cancel wins the race: the request is dropped where it is. *)
CancelWins ==
  /\ round.pc = "stream" /\ round.streams /\ stop
  /\ End("cancelled") /\ server' = <<>> /\ UNCHANGED <<displayed, stop, rounds>>

StrNext ==
  \/ \E model \in ModelNames, streams \in BOOLEAN : BeginRound(model, streams)
  \/ SendRequest \/ Reason \/ StreamEnds \/ BackoffEnds \/ CancelAgent \/ CancelWins
  \/ \E n \in 1..3 : Delta(n)
  \/ \E retryable \in BOOLEAN : RequestFails(retryable)

StrSpec == StrInit /\ [][StrNext]_strvars

-----------------------------------------------------------------------------
(* Types: an attempt within its number, the screen and the text are units. *)
StrTypeOK ==
  /\ round.pc \in {"idle", "ask", "stream", "backoff", "ok", "error", "cancelled"}
  /\ round.attempt <= MaxAttempts /\ round.emitted <= Len(round.content)
  /\ stop \in BOOLEAN /\ rounds \in 0..MaxRounds

IsPrefix(s, t) == Len(s) <= Len(t) /\ s = SubSeq(t, 1, Len(s))

(* However the answer is cut into pieces and however often the request is  *)
(* tried: the screen shows the beginning of the one answer being received, *)
(* never two attempts after each other, and no unit of a marker, not even  *)
(* of one whose end is still to come; an answer received whole is shown    *)
(* whole, up to its marker.                                                *)
ScreenShowsOneAnswer ==
  LET answer == round.content \o server
      clean  == IF MarkupIndex(answer) = 0 THEN answer ELSE SubSeq(answer, 1, MarkupIndex(answer) - 1)
  IN /\ round.pc = "stream" => IsPrefix(displayed, clean)
     /\ round.pc \in {"ask", "backoff"} => displayed = <<>>
     /\ round.pc = "ok" /\ round.streams => displayed = IF MarkupIndex(round.content) = 0 THEN round.content ELSE clean

(* What the loop books is the price of the model it asked for; the sibling *)
(* answered it here, and nothing tells the loop.                           *)
BookedAsAnswered == round.pc = "ok" => ~round.fallback_used
=============================================================================
