----------------------------- MODULE FinishGate -----------------------------
(***************************************************************************)
(* What stands between the last answer of a run and its end                *)
(* (apps/desktop/src-tauri/src/agent_loop.rs chat_with_builtin_tools):     *)
(* an answer without tool calls is verified by the build and test gates of *)
(* the workspace, then reviewed, and what they find is fed back to the     *)
(* model.  AgentLoop reduces all this to its action Feedback; here the     *)
(* rest of a run is reduced to what it does to the workspace.              *)
(*                                                                         *)
(* A test run reports the tests that fail; the next verification first     *)
(* runs only those, and the whole suite when they pass.                    *)
(***************************************************************************)
EXTENDS Integers, Sequences, FiniteSets

CONSTANTS
  Tests,                 \* tests of the workspace
  SafeTests,             \* those focused_command can name in a command
  MaxFocused,            \* MAX_FOCUSED, names in a focused run
  Outputs,               \* what tells apart red runs that name no failing test: their
                         \* errors, or the fingerprint of their output
  VERIFY_MAX_ROUNDS, VERIFY_STALL_THRESHOLD, REVIEW_MAX_ROUNDS,
  MaxEdits, MaxCommands  \* bounds: captured writes, changes by commands

ASSUME GateAssumption ==
  /\ SafeTests \subseteq Tests /\ IsFiniteSet(Tests)
  /\ MaxFocused \in Nat \ {0}
  /\ VERIFY_MAX_ROUNDS \in Nat /\ VERIFY_STALL_THRESHOLD \in Nat \ {0}
  /\ REVIEW_MAX_ROUNDS \in Nat \ {0}
  /\ MaxEdits \in Nat /\ MaxCommands \in Nat

VARIABLES
  code,             \* the workspace: its gates, whether it builds, which tests fail
  phase,            \* where the run is
  edits_made, verify_rounds, verify_prev_sig, verify_stall, verify_failing,
  turn_diffs,       \* whether there is a diff to review
  review_rounds,
  known,            \* history: what the verification said of the code as it is
  reds,             \* history: the gate and signature of each red verification
  feedbacks,        \* history: messages fed back to the model
  edits, commands,  \* history: changes, for the bounds
  written           \* history: some write had a diff

gate == <<edits_made, verify_rounds, verify_prev_sig, verify_stall, verify_failing,
          turn_diffs, review_rounds>>
vars == <<code, phase, gate, known, reds, feedbacks, edits, commands, written>>

Gates  == {"build", "test"}
Codes  == [plan : SUBSET Gates, builds : BOOLEAN, red : SUBSET Tests]
Phases == {"round", "build", "test", "confirm", "review", "done", "stalled", "stopped"}
Sigs   == {"none", "names", "output", "timeout"} \X SUBSET (Tests \cup Outputs)
NoSig  == <<"none", {}>>

Init ==
  /\ code \in Codes
  /\ phase = "round"
  /\ edits_made = FALSE /\ turn_diffs = FALSE /\ written = FALSE
  /\ verify_rounds = 0 /\ verify_prev_sig = NoSig /\ verify_stall = 0 /\ verify_failing = {}
  /\ review_rounds = 0
  /\ known = "none" /\ reds = <<>> /\ feedbacks = 0 /\ edits = 0 /\ commands = 0

-----------------------------------------------------------------------------
(* The rounds of the run. *)

(* A captured write succeeds.  A write that leaves the text alone, or is of  *)
(* no text, has no diff.                                                     *)
Edit(c) ==
  /\ phase = "round" /\ edits < MaxEdits
  /\ code' = c
  /\ edits_made' = TRUE
  /\ turn_diffs' \in {turn_diffs, TRUE} /\ written' = (written \/ turn_diffs')
  /\ known' = "none" /\ edits' = edits + 1
  /\ UNCHANGED <<phase, verify_rounds, verify_prev_sig, verify_stall, verify_failing,
                 review_rounds, reds, feedbacks, commands>>

(* A command, or a subtask that writes, changes the workspace: no capture of *)
(* this run sees it.                                                         *)
RunCommand(c) ==
  /\ phase = "round" /\ commands < MaxCommands
  /\ code' = c
  /\ known' = "none" /\ commands' = commands + 1
  /\ UNCHANGED <<phase, gate, reds, feedbacks, edits, written>>

(* A stop, an error, or the guards against loops end the run. *)
RunEnds ==
  /\ phase = "round"
  /\ phase' = "stopped"
  /\ UNCHANGED <<code, gate, known, reds, feedbacks, edits, commands, written>>

(* Slip: the rounds of the verification are not bounded. *)
AnswerUnbounded ==
  /\ phase = "round"
  /\ IF edits_made /\ code.plan # {}
     THEN /\ phase' = IF "build" \in code.plan THEN "build" ELSE "test"
          /\ verify_rounds' = verify_rounds + 1
          /\ edits_made' = FALSE
          /\ known' = "green"
     ELSE /\ phase' = "review"
          /\ UNCHANGED <<verify_rounds, edits_made, known>>
  /\ UNCHANGED <<code, verify_prev_sig, verify_stall, verify_failing, turn_diffs,
                 review_rounds, reds, feedbacks, edits, commands, written>>

(* Slip: the mark of an edit outlives its verification. *)
AnswerKeepsMark ==
  /\ phase = "round"
  /\ IF edits_made /\ verify_rounds < VERIFY_MAX_ROUNDS /\ code.plan # {}
     THEN /\ phase' = IF "build" \in code.plan THEN "build" ELSE "test"
          /\ verify_rounds' = verify_rounds + 1
          /\ known' = "green"
     ELSE /\ phase' = "review"
          /\ UNCHANGED <<verify_rounds, known>>
  /\ UNCHANGED <<code, edits_made, verify_prev_sig, verify_stall, verify_failing, turn_diffs,
                 review_rounds, reds, feedbacks, edits, commands, written>>

(* An answer without tool calls.  "green" stands until a gate says otherwise. *)
Answer ==
  /\ phase = "round"
  /\ IF edits_made /\ verify_rounds < VERIFY_MAX_ROUNDS /\ code.plan # {}
     THEN /\ phase' = IF "build" \in code.plan THEN "build" ELSE "test"
          /\ verify_rounds' = verify_rounds + 1
          /\ edits_made' = FALSE
          /\ known' = "green"
     ELSE /\ phase' = "review"
          /\ UNCHANGED <<verify_rounds, edits_made, known>>
  /\ UNCHANGED <<code, verify_prev_sig, verify_stall, verify_failing, turn_diffs,
                 review_rounds, reds, feedbacks, edits, commands, written>>

-----------------------------------------------------------------------------
(* The gates. *)

Workspace == UNCHANGED <<code, edits, commands, written>>

Smaller(m, n) == IF m < n THEN m ELSE n

(* What a test run is restricted to: up to MAX_FOCUSED of the safe names     *)
(* that failed last, or everything.                                          *)
Scopes ==
  LET names == verify_failing \cap SafeTests
  IN  IF names = {} THEN {Tests}
      ELSE {f \in SUBSET names : Cardinality(f) = Smaller(MaxFocused, Cardinality(names))}

Focused == verify_failing \cap SafeTests # {}

(* Whether a gate fails on the code, run on a set of tests. *)
GateFails(g, scope) == ~code.builds \/ (g = "test" /\ code.red \cap scope # {})

AfterGate(g) == IF g = "build" /\ "test" \in code.plan THEN "test" ELSE "review"

(* parse_report and report_signature of a failing run: the names may not be  *)
(* found in the output, and a timeout cuts it short.                         *)
Reports(g, scope) ==
  LET names == IF g = "test" /\ code.builds THEN {{}, code.red \cap scope} ELSE {{}}
  IN  {[names |-> n, sig |-> <<"timeout", {}>>] : n \in names}
      \cup (IF GateFails(g, scope)
            THEN {[names |-> n, sig |-> <<"names", n>>] : n \in names \ {{}}}
                 \cup {[names |-> {}, sig |-> <<"output", {o}>>] : o \in Outputs}
            ELSE {})

(* Slip: any red verification counts towards the stall. *)
StallAfterAny(sig) == verify_stall + 1

(* verify_stall_hit: how often in a row the signature was the same. *)
StallAfter(sig) == IF verify_prev_sig = sig THEN verify_stall + 1 ELSE 0

(* Slip: the names of the tests outlive a build that fails. *)
RedKeepsNames(g, r) ==
  /\ verify_failing' = IF g = "test" THEN r.names ELSE verify_failing
  /\ verify_prev_sig' = r.sig /\ verify_stall' = StallAfter(r.sig)
  /\ IF StallAfter(r.sig) >= VERIFY_STALL_THRESHOLD
     THEN phase' = "stalled" /\ UNCHANGED feedbacks
     ELSE phase' = "round" /\ feedbacks' = feedbacks + 1
  /\ known' = "red" /\ reds' = Append(reds, [gate |-> g, sig |-> r.sig])
  /\ Workspace
  /\ UNCHANGED <<edits_made, verify_rounds, turn_diffs, review_rounds>>

(* A gate is red: the run is given up as stalled, or the report fed back.    *)
(* Only tests leave names for the next focused run.                          *)
Red(g, r) ==
  /\ verify_failing' = IF g = "test" THEN r.names ELSE {}
  /\ verify_prev_sig' = r.sig /\ verify_stall' = StallAfter(r.sig)
  /\ IF StallAfter(r.sig) >= VERIFY_STALL_THRESHOLD
     THEN phase' = "stalled" /\ UNCHANGED feedbacks
     ELSE phase' = "round" /\ feedbacks' = feedbacks + 1
  /\ known' = "red" /\ reds' = Append(reds, [gate |-> g, sig |-> r.sig])
  /\ Workspace
  /\ UNCHANGED <<edits_made, verify_rounds, turn_diffs, review_rounds>>

(* A gate fails; of the test gate, on what it was restricted to. *)
GateRed(g) ==
  /\ phase = g
  /\ \E scope \in IF g = "test" THEN Scopes ELSE {Tests} :
       \E r \in Reports(g, scope) : Red(g, r)

(* The command of a gate does not start: the gate is skipped. *)
GateSkipped(g) ==
  /\ phase = g
  /\ phase' = AfterGate(g)
  /\ known' = "none"
  /\ Workspace
  /\ UNCHANGED <<gate, reds, feedbacks>>

(* Slip: the failing tests pass, so the suite does. *)
GatePassesUnconfirmed(g) ==
  /\ phase = g
  /\ \E scope \in IF g = "test" THEN Scopes ELSE {Tests} : ~GateFails(g, scope)
  /\ phase' = AfterGate(g)
  /\ verify_failing' = IF g = "test" THEN {} ELSE verify_failing
  /\ Workspace
  /\ UNCHANGED <<edits_made, verify_rounds, verify_prev_sig, verify_stall, turn_diffs,
                 review_rounds, known, reds, feedbacks>>

(* A gate passes; a focused test run is to be confirmed by the whole suite. *)
GatePasses(g) ==
  /\ phase = g
  /\ \E scope \in IF g = "test" THEN Scopes ELSE {Tests} : ~GateFails(g, scope)
  /\ IF g = "test" /\ Focused
     THEN phase' = "confirm" /\ UNCHANGED verify_failing
     ELSE /\ phase' = AfterGate(g)
          /\ verify_failing' = IF g = "test" THEN {} ELSE verify_failing
  /\ Workspace
  /\ UNCHANGED <<edits_made, verify_rounds, verify_prev_sig, verify_stall, turn_diffs,
                 review_rounds, known, reds, feedbacks>>

ConfirmRed == phase = "confirm" /\ \E r \in Reports("test", Tests) : Red("test", r)

(* The confirming run does not start: unlike a gate, this is no pass. *)
ConfirmSkipped ==
  /\ phase = "confirm"
  /\ phase' = "round" /\ feedbacks' = feedbacks + 1
  /\ known' = "unconfirmed"
  /\ Workspace
  /\ UNCHANGED <<gate, reds>>

ConfirmPasses ==
  /\ phase = "confirm" /\ ~GateFails("test", Tests)
  /\ phase' = AfterGate("test")
  /\ verify_failing' = {}
  /\ Workspace
  /\ UNCHANGED <<edits_made, verify_rounds, verify_prev_sig, verify_stall, turn_diffs,
                 review_rounds, known, reds, feedbacks>>

-----------------------------------------------------------------------------
(* The review. *)

(* Slip: the rounds of the review are not counted. *)
ReviewIssuesUncounted ==
  /\ phase = "review" /\ turn_diffs /\ review_rounds < REVIEW_MAX_ROUNDS
  /\ turn_diffs' = FALSE
  /\ phase' = "round" /\ feedbacks' = feedbacks + 1
  /\ Workspace
  /\ UNCHANGED <<edits_made, verify_rounds, verify_prev_sig, verify_stall, verify_failing,
                 review_rounds, known, reds>>

(* run_finalize_review finds something to feed back. *)
ReviewIssues ==
  /\ phase = "review" /\ turn_diffs /\ review_rounds < REVIEW_MAX_ROUNDS
  /\ review_rounds' = review_rounds + 1
  /\ turn_diffs' = FALSE
  /\ phase' = "round" /\ feedbacks' = feedbacks + 1
  /\ Workspace
  /\ UNCHANGED <<edits_made, verify_rounds, verify_prev_sig, verify_stall, verify_failing,
                 known, reds>>

(* It finds nothing, or fails. *)
ReviewClean ==
  /\ phase = "review" /\ turn_diffs /\ review_rounds < REVIEW_MAX_ROUNDS
  /\ review_rounds' = review_rounds + 1
  /\ phase' = "done"
  /\ Workspace
  /\ UNCHANGED <<edits_made, verify_rounds, verify_prev_sig, verify_stall, verify_failing,
                 turn_diffs, known, reds, feedbacks>>

(* Slip: a run that was verified is not reviewed. *)
FinishVerified ==
  /\ phase = "review"
  /\ ~turn_diffs \/ review_rounds >= REVIEW_MAX_ROUNDS \/ known = "green"
  /\ phase' = "done"
  /\ Workspace
  /\ UNCHANGED <<gate, known, reds, feedbacks>>

(* Nothing to review, or no review left. *)
Finish ==
  /\ phase = "review"
  /\ ~turn_diffs \/ review_rounds >= REVIEW_MAX_ROUNDS
  /\ phase' = "done"
  /\ Workspace
  /\ UNCHANGED <<gate, known, reds, feedbacks>>

-----------------------------------------------------------------------------
Verify ==
  \/ \E g \in Gates : GateRed(g) \/ GateSkipped(g) \/ GatePasses(g)
  \/ ConfirmRed \/ ConfirmSkipped \/ ConfirmPasses

Review == ReviewIssues \/ ReviewClean \/ Finish

Next ==
  \/ \E c \in Codes : Edit(c) \/ RunCommand(c)
  \/ RunEnds \/ Answer \/ Verify \/ Review

Spec == Init /\ [][Next]_vars

-----------------------------------------------------------------------------
(* Every variable holds a value of the program. *)
TypeOK ==
  /\ code \in Codes /\ phase \in Phases
  /\ edits_made \in BOOLEAN /\ turn_diffs \in BOOLEAN /\ written \in BOOLEAN
  /\ verify_rounds \in 0..VERIFY_MAX_ROUNDS /\ review_rounds \in 0..REVIEW_MAX_ROUNDS
  /\ verify_prev_sig \in Sigs /\ verify_stall \in 0..VERIFY_STALL_THRESHOLD
  /\ verify_failing \subseteq Tests
  /\ known \in {"none", "green", "red", "unconfirmed"}
  /\ reds \in Seq([gate : Gates, sig : Sigs])
  /\ feedbacks \in Nat /\ edits \in Nat /\ commands \in Nat

(* When every gate of a verification started and none was red, the whole     *)
(* suite passes on the code the run ends with: a focused run that passes is  *)
(* confirmed by the full one, whatever else the fix has broken, and nothing  *)
(* the run does between the gates and its end changes the workspace.         *)
GreenIsFull ==
  known = "green" /\ phase \in {"review", "round", "done"} =>
    \A g \in code.plan : ~GateFails(g, Tests)

(* Names are left for a focused run only by the last red gate, when that was *)
(* the test gate: after a build that fails, everything runs again.           *)
FocusFollowsTests == verify_failing # {} => reds # <<>> /\ reds[Len(reds)].gate = "test"

(* A run is given up as stalled only after as many red verifications with    *)
(* one and the same signature, the last ones of the run, as                  *)
(* VERIFY_STALL_THRESHOLD repetitions need.                                  *)
StallIsRepetition ==
  phase = "stalled" =>
    /\ Len(reds) > VERIFY_STALL_THRESHOLD
    /\ \A i \in (Len(reds) - VERIFY_STALL_THRESHOLD)..Len(reds) : reds[i].sig = reds[Len(reds)].sig

(* The gates never run twice on the edits of one round: each verification    *)
(* has a captured write of its own behind it.                                *)
EditPerVerification == verify_rounds + (IF edits_made THEN 1 ELSE 0) <= edits

(* Verification and review together send the model back a bounded number of  *)
(* times, however they alternate and whatever it answers.                    *)
FeedbackBound == feedbacks <= VERIFY_MAX_ROUNDS + REVIEW_MAX_ROUNDS

(* A run that ends by itself after a write with a diff was reviewed, before  *)
(* or after the write, also when the gates are green or out of rounds.       *)
ReviewedBeforeDone == phase = "done" /\ written => review_rounds > 0

-----------------------------------------------------------------------------
(* What a comment says, and the code does not do. *)

(* The review is only reached when the verification, if any, has passed      *)
(* (comment above run_finalize_review's call).                               *)
ReviewAfterGreen == phase = "review" => known # "red"
=============================================================================
