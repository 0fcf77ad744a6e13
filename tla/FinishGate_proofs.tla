------------------------- MODULE FinishGate_proofs -------------------------
(***************************************************************************)
(* Proofs about FinishGate.  GateInv says what the gates passed so far have *)
(* shown of the code, CountInv where the feedback comes from, StallInv what *)
(* the counter of the stall stands for, and DiffInv what waits for a review. *)
(***************************************************************************)
EXTENDS FinishGate, TLAPS

(* The run is in a verification. *)
Verifying == phase \in {"build", "test", "confirm"}

(* A stalled run is the only one whose counter is at its threshold. *)
StallBelow == phase # "stalled" => verify_stall < VERIFY_STALL_THRESHOLD

(* Past a green build gate the code builds; past the last gate, everything passes. *)
GateInv ==
  /\ known = "green" /\ phase \in {"test", "confirm"} /\ "build" \in code.plan => code.builds
  /\ known = "green" /\ phase \in {"review", "round", "done"} =>
       \A g \in code.plan : ~GateFails(g, Tests)

(* Each message fed back has a verification or a review of its own, and a    *)
(* verification under way still has its own.                                 *)
CountInv ==
  /\ feedbacks + (IF Verifying THEN 1 ELSE 0) <= verify_rounds + review_rounds
  /\ verify_rounds + (IF edits_made THEN 1 ELSE 0) <= edits

(* The last red verifications, one more than the counter says, have the      *)
(* signature that is kept.                                                   *)
StallInv ==
  /\ reds = <<>> => verify_prev_sig = NoSig /\ verify_stall = 0
  /\ reds # <<>> => /\ verify_stall < Len(reds)
                    /\ \A i \in (Len(reds) - verify_stall)..Len(reds) :
                         reds[i].sig = verify_prev_sig
  /\ phase = "stalled" => reds # <<>> /\ verify_stall >= VERIFY_STALL_THRESHOLD

(* Names are kept from the last red gate only. *)
FocusInv == FocusFollowsTests

-----------------------------------------------------------------------------
(* The types. *)

(* What a red gate reports has its type. *)
LEMMA ReportTypes ==
  ASSUME code \in Codes, NEW g \in Gates, NEW scope, NEW r \in Reports(g, scope)
  PROVE  /\ r.names \subseteq Tests
         /\ r.sig \in Sigs /\ r.sig # NoSig
<1> DEFINE names == IF g = "test" /\ code.builds THEN {{}, code.red \cap scope} ELSE {{}}
<1>1. \A n \in names : n \subseteq Tests
  BY DEF Codes
<1>2. CASE \E n \in names : r = [names |-> n, sig |-> <<"timeout", {}>>]
  BY <1>1, <1>2 DEF Sigs, NoSig
<1>3. CASE \E n \in names : r = [names |-> n, sig |-> <<"names", n>>]
  BY <1>1, <1>3 DEF Sigs, NoSig
<1>4. CASE \E o \in Outputs : r = [names |-> {}, sig |-> <<"output", {o}>>]
  BY <1>4 DEF Sigs, NoSig
<1> QED
  BY <1>2, <1>3, <1>4 DEF Reports

(* What a red gate does, once. *)
LEMMA RedStep ==
  ASSUME TypeOK, StallBelow, GateAssumption, Verifying,
         NEW g \in Gates, NEW scope, NEW r \in Reports(g, scope), Red(g, r)
  PROVE  TypeOK' /\ StallBelow'
<1>1. r.names \subseteq Tests /\ r.sig \in Sigs
  BY ReportTypes DEF TypeOK
<1>2. /\ verify_stall < VERIFY_STALL_THRESHOLD /\ verify_stall \in Nat
      /\ VERIFY_STALL_THRESHOLD \in Nat
  BY DEF StallBelow, Verifying, TypeOK, GateAssumption
<1>3. StallAfter(r.sig) \in 0..VERIFY_STALL_THRESHOLD
  BY <1>2 DEF StallAfter
<1>4. reds' \in Seq([gate : Gates, sig : Sigs])
  <2>1. [gate |-> g, sig |-> r.sig] \in [gate : Gates, sig : Sigs]
    BY <1>1
  <2> QED
    BY <2>1 DEF TypeOK, Red
<1>5. /\ phase' \in Phases /\ feedbacks' \in Nat
      /\ phase' # "stalled" => StallAfter(r.sig) < VERIFY_STALL_THRESHOLD
  BY <1>2, <1>3 DEF Red, Phases, TypeOK
<1>6. verify_failing' \subseteq Tests
  BY <1>1 DEF Red
<1>7. TypeOK'
  BY <1>1, <1>3, <1>4, <1>5, <1>6 DEF TypeOK, Red, Workspace
<1> QED
  BY <1>5, <1>7 DEF Red, StallBelow

(* The red steps are Red with a report. *)
LEMMA RedSteps ==
  ASSUME (\E g \in Gates : GateRed(g)) \/ ConfirmRed
  PROVE  Verifying /\ \E g \in Gates : \E scope : \E r \in Reports(g, scope) : Red(g, r)
BY DEF GateRed, ConfirmRed, Verifying, Gates

(* Every step keeps the types. *)
LEMMA TypeStep ==
  ASSUME TypeOK, StallBelow, [Next]_vars
  PROVE  TypeOK' /\ StallBelow'
<1> USE GateAssumption
<1>1. CASE UNCHANGED vars
  BY <1>1 DEF vars, gate, TypeOK, StallBelow
<1>2. ASSUME NEW c \in Codes, Edit(c) PROVE TypeOK' /\ StallBelow'
  <2>1. turn_diffs' \in BOOLEAN
    <3>1. turn_diffs' \in {turn_diffs, TRUE} /\ turn_diffs \in BOOLEAN
      BY <1>2 DEF Edit, TypeOK
    <3> QED
      BY ONLY <3>1, Zenon
  <2>2. written' \in BOOLEAN
    <3>1. written' = (written \/ turn_diffs')
      BY <1>2 DEF Edit
    <3> QED
      BY ONLY <3>1, Zenon
  <2>3. /\ code' \in Codes /\ edits' \in Nat /\ edits_made' \in BOOLEAN
        /\ known' = "none" /\ phase' = "round"
    BY <1>2 DEF Edit, TypeOK
  <2>4. UNCHANGED <<verify_rounds, verify_prev_sig, verify_stall, verify_failing,
                    review_rounds, reds, feedbacks, commands>> /\ phase = "round"
    BY <1>2 DEF Edit
  <2> QED
    BY <2>1, <2>2, <2>3, <2>4 DEF TypeOK, StallBelow, Phases
<1>3. ASSUME NEW c \in Codes, RunCommand(c) PROVE TypeOK' /\ StallBelow'
  BY <1>3 DEF RunCommand, gate, TypeOK, StallBelow
<1>4. CASE RunEnds
  BY <1>4 DEF RunEnds, gate, TypeOK, StallBelow, Phases
<1>5. CASE Answer
  <2>1. verify_rounds' \in 0..VERIFY_MAX_ROUNDS
    BY <1>5 DEF Answer, TypeOK
  <2>2. phase' \in Phases /\ phase # "stalled" /\ phase' # "stalled"
    BY <1>5 DEF Answer, Phases
  <2> QED
    BY <1>5, <2>1, <2>2 DEF Answer, TypeOK, StallBelow
<1>6. CASE Verify
  <2>1. CASE (\E g \in Gates : GateRed(g)) \/ ConfirmRed
    <3>1. Verifying /\ \E g \in Gates : \E scope : \E r \in Reports(g, scope) : Red(g, r)
      BY <2>1, RedSteps
    <3>2. PICK g \in Gates : \E scope : \E r \in Reports(g, scope) : Red(g, r)
      BY <3>1
    <3>3. PICK scope : \E r \in Reports(g, scope) : Red(g, r)
      BY <3>2
    <3>4. PICK r \in Reports(g, scope) : Red(g, r)
      BY <3>3
    <3> QED
      BY <3>1, <3>4, RedStep
  <2>2. ASSUME NEW g \in Gates, GateSkipped(g) PROVE TypeOK' /\ StallBelow'
    BY <2>2 DEF GateSkipped, Workspace, AfterGate, gate, Phases, TypeOK, StallBelow, Gates
  <2>3. ASSUME NEW g \in Gates, GatePasses(g) PROVE TypeOK' /\ StallBelow'
    <3>1. phase' \in Phases /\ phase # "stalled"
      BY <2>3 DEF GatePasses, AfterGate, Phases, Gates
    <3>2. verify_failing' \subseteq Tests
      BY <2>3 DEF GatePasses, TypeOK
    <3> QED
      BY <2>3, <3>1, <3>2 DEF GatePasses, Workspace, TypeOK, StallBelow
  <2>4. CASE ConfirmSkipped
    BY <2>4 DEF ConfirmSkipped, Workspace, gate, Phases, TypeOK, StallBelow
  <2>5. CASE ConfirmPasses
    BY <2>5 DEF ConfirmPasses, Workspace, AfterGate, Phases, TypeOK, StallBelow
  <2> QED
    BY <1>6, <2>1, <2>2, <2>3, <2>4, <2>5 DEF Verify
<1>7. CASE Review
  <2>1. review_rounds' \in 0..REVIEW_MAX_ROUNDS
    <3>1. /\ review_rounds' = review_rounds \/ (review_rounds' = review_rounds + 1
                                               /\ review_rounds < REVIEW_MAX_ROUNDS)
          /\ review_rounds \in 0..REVIEW_MAX_ROUNDS
      BY <1>7 DEF Review, ReviewIssues, ReviewClean, Finish, gate, TypeOK
    <3> QED
      BY ONLY <3>1, GateAssumption
  <2>4. feedbacks' \in Nat
    BY <1>7 DEF Review, ReviewIssues, ReviewClean, Finish, TypeOK
  <2>5. turn_diffs' \in BOOLEAN
    <3>1. turn_diffs' = turn_diffs \/ turn_diffs' = FALSE
      BY <1>7 DEF Review, ReviewIssues, ReviewClean, Finish, gate
    <3>2. turn_diffs \in BOOLEAN
      BY DEF TypeOK
    <3> QED
      BY ONLY <3>1, <3>2, Zenon
  <2>2. phase' \in Phases /\ phase # "stalled"
    BY <1>7 DEF Review, ReviewIssues, ReviewClean, Finish, Phases
  <2>3. UNCHANGED <<code, edits_made, verify_rounds, verify_prev_sig, verify_stall, verify_failing,
                    known, reds, edits, commands, written>>
    BY <1>7 DEF Review, ReviewIssues, ReviewClean, Finish, Workspace, gate
  <2> QED
    BY <2>1, <2>2, <2>3, <2>4, <2>5 DEF TypeOK, StallBelow
<1> QED
  BY <1>1, <1>2, <1>3, <1>4, <1>5, <1>6, <1>7 DEF Next

(* Initially everything has its type. *)
LEMMA InitType == Init => TypeOK /\ StallBelow
<1> SUFFICES ASSUME Init PROVE TypeOK /\ StallBelow
  OBVIOUS
<1>1. NoSig \in Sigs /\ "round" \in Phases
  BY DEF NoSig, Sigs, Phases
<1>2. 0 \in 0..VERIFY_MAX_ROUNDS /\ 0 \in 0..REVIEW_MAX_ROUNDS /\ 0 \in 0..VERIFY_STALL_THRESHOLD
      /\ 0 < VERIFY_STALL_THRESHOLD
  BY GateAssumption
<1>3. reds \in Seq([gate : Gates, sig : Sigs])
  BY DEF Init
<1> QED
  BY <1>1, <1>2, <1>3 DEF Init, TypeOK, StallBelow

(* Every variable keeps its type: the counters of the gates stay within      *)
(* VERIFY_MAX_ROUNDS, VERIFY_STALL_THRESHOLD and REVIEW_MAX_ROUNDS.          *)
THEOREM TypeCorrect == Spec => []TypeOK
BY InitType, TypeStep, PTL DEF Spec

-----------------------------------------------------------------------------
(* What green means. *)

(* Every step keeps what the gates have shown. *)
LEMMA GateStep ==
  ASSUME TypeOK, GateInv, [Next]_vars
  PROVE  GateInv'
<1> USE DEF GateInv, GateFails, Gates
<1>1. CASE UNCHANGED vars
  BY <1>1 DEF vars, gate
<1>2. CASE \E c \in Codes : Edit(c) \/ RunCommand(c)
  BY <1>2 DEF Edit, RunCommand
<1>3. CASE RunEnds
  BY <1>3 DEF RunEnds
<1>4. CASE Answer
  BY <1>4 DEF Answer, TypeOK, Codes
<1>5. CASE Verify
  <2>1. CASE (\E g \in Gates : GateRed(g)) \/ ConfirmRed
    BY <2>1, RedSteps DEF Red
  <2>2. ASSUME NEW g \in Gates, GateSkipped(g) PROVE GateInv'
    BY <2>2 DEF GateSkipped
  <2>3. ASSUME NEW g \in Gates, GatePasses(g) PROVE GateInv'
    <3>1. /\ phase = g /\ UNCHANGED <<code, known>> /\ code.plan \subseteq Gates
          /\ code.red \subseteq Tests
      BY <2>3 DEF GatePasses, Workspace, TypeOK, Codes
    <3>2. code.builds
      BY <2>3 DEF GatePasses
    <3>3. CASE g = "build"
      BY <2>3, <3>1, <3>2, <3>3 DEF GatePasses, AfterGate
    <3>4. CASE g = "test" /\ Focused
      BY <2>3, <3>1, <3>2, <3>4 DEF GatePasses
    <3>5. CASE g = "test" /\ ~Focused
      <4>1. Scopes = {Tests}
        BY <3>5 DEF Scopes, Focused
      <4>2. ~GateFails("test", Tests)
        BY <2>3, <3>5, <4>1 DEF GatePasses
      <4> QED
        BY <3>1, <3>2, <4>2
    <3> QED
      BY <3>3, <3>4, <3>5
  <2>4. CASE ConfirmSkipped
    BY <2>4 DEF ConfirmSkipped
  <2>5. CASE ConfirmPasses
    BY <2>5 DEF ConfirmPasses, Workspace, TypeOK, Codes
  <2> QED
    BY <1>5, <2>1, <2>2, <2>3, <2>4, <2>5 DEF Verify
<1>6. CASE Review
  BY <1>6 DEF Review, ReviewIssues, ReviewClean, Finish, Workspace
<1> QED
  BY <1>1, <1>2, <1>3, <1>4, <1>5, <1>6 DEF Next

(* A verification that is green, no gate skipped, means that the whole suite *)
(* passes on the code the run ends with, whatever focused runs it made.      *)
THEOREM GreenCorrect == Spec => []GreenIsFull
<1>1. Init => GateInv
  BY DEF Init, GateInv
<1>2. GateInv => GreenIsFull
  BY DEF GateInv, GreenIsFull
<1> QED
  BY <1>1, <1>2, InitType, TypeStep, GateStep, PTL DEF Spec

-----------------------------------------------------------------------------
(* How often the model is sent back. *)

(* Every step keeps the accounts. *)
LEMMA CountStep ==
  ASSUME TypeOK, CountInv, [Next]_vars
  PROVE  CountInv'
<1>1. /\ feedbacks \in Nat /\ verify_rounds \in Nat /\ review_rounds \in Nat /\ edits \in Nat
      /\ edits_made \in BOOLEAN
  BY GateAssumption DEF TypeOK
<1> USE <1>1 DEF CountInv, Verifying
<1>2. CASE UNCHANGED vars
  BY <1>2 DEF vars, gate
<1>3. CASE \E c \in Codes : Edit(c) \/ RunCommand(c)
  <2>1. /\ phase = "round" /\ phase' = "round"
        /\ \/ edits_made' = TRUE /\ edits' = edits + 1
           \/ edits_made' = edits_made /\ edits' = edits
        /\ UNCHANGED <<feedbacks, verify_rounds, review_rounds>>
    BY <1>3 DEF Edit, RunCommand, gate
  <2> QED
    BY <2>1
<1>4. CASE RunEnds
  BY <1>4 DEF RunEnds, gate
<1>5. CASE Answer
  BY <1>5 DEF Answer
<1>6. CASE Verify
  <2>1. CASE (\E g \in Gates : GateRed(g)) \/ ConfirmRed
    <3>1. Verifying /\ \E g \in Gates : \E scope : \E r \in Reports(g, scope) : Red(g, r)
      BY <2>1, RedSteps
    <3>2. PICK g \in Gates : \E scope : \E r \in Reports(g, scope) : Red(g, r)
      BY <3>1
    <3>3. PICK scope : \E r \in Reports(g, scope) : Red(g, r)
      BY <3>2
    <3>4. PICK r \in Reports(g, scope) : Red(g, r)
      BY <3>3
    <3>5. /\ (phase' = "stalled" /\ feedbacks' = feedbacks)
             \/ (phase' = "round" /\ feedbacks' = feedbacks + 1)
          /\ UNCHANGED <<verify_rounds, review_rounds, edits, edits_made>>
      BY <3>4 DEF Red, Workspace
    <3> QED
      BY <3>1, <3>5
  <2>2. ASSUME NEW g \in Gates, GateSkipped(g) PROVE CountInv'
    BY <2>2 DEF GateSkipped, AfterGate, Workspace, gate, Gates
  <2>3. ASSUME NEW g \in Gates, GatePasses(g) PROVE CountInv'
    <3>1. Verifying /\ UNCHANGED <<feedbacks, verify_rounds, review_rounds, edits, edits_made>>
      BY <2>3 DEF GatePasses, Workspace, Gates
    <3> QED
      BY <3>1
  <2>4. CASE ConfirmSkipped
    BY <2>4 DEF ConfirmSkipped, Workspace, gate
  <2>5. CASE ConfirmPasses
    BY <2>5 DEF ConfirmPasses, Workspace, AfterGate
  <2> QED
    BY <1>6, <2>1, <2>2, <2>3, <2>4, <2>5 DEF Verify
<1>7. CASE Review
  <2>1. /\ phase = "review" /\ phase' \in {"round", "done"}
        /\ \/ feedbacks' = feedbacks /\ review_rounds' \in {review_rounds, review_rounds + 1}
           \/ feedbacks' = feedbacks + 1 /\ review_rounds' = review_rounds + 1
        /\ UNCHANGED <<edits_made, verify_rounds, edits>>
    BY <1>7 DEF Review, ReviewIssues, ReviewClean, Finish, Workspace, gate
  <2> QED
    BY <2>1
<1> QED
  BY <1>2, <1>3, <1>4, <1>5, <1>6, <1>7 DEF Next

(* The model is sent back at most VERIFY_MAX_ROUNDS + REVIEW_MAX_ROUNDS      *)
(* times, and each verification has a captured write of its own.             *)
THEOREM FeedbackBounded == Spec => [](FeedbackBound /\ EditPerVerification)
<1>1. Init => CountInv
  BY DEF Init, CountInv, Verifying
<1>2. TypeOK /\ CountInv => FeedbackBound /\ EditPerVerification
  BY GateAssumption DEF TypeOK, CountInv, FeedbackBound, EditPerVerification
<1> QED
  BY <1>1, <1>2, InitType, TypeStep, CountStep, PTL DEF Spec

-----------------------------------------------------------------------------
(* When a run is given up. *)

(* A red gate keeps what the counter stands for. *)
LEMMA StallRed ==
  ASSUME TypeOK, StallInv, NEW g \in Gates, NEW scope, NEW r \in Reports(g, scope), Red(g, r)
  PROVE  StallInv'
<1> DEFINE n == Len(reds)
<1>1. /\ reds \in Seq([gate : Gates, sig : Sigs]) /\ n \in Nat
      /\ verify_stall \in Nat /\ VERIFY_STALL_THRESHOLD \in Nat \ {0}
  BY GateAssumption DEF TypeOK
<1>2. /\ reds' = Append(reds, [gate |-> g, sig |-> r.sig])
      /\ verify_prev_sig' = r.sig /\ verify_stall' = StallAfter(r.sig)
      /\ phase' = "stalled" => StallAfter(r.sig) >= VERIFY_STALL_THRESHOLD
  BY DEF Red
<1>3. /\ Len(reds') = n + 1 /\ reds' # <<>>
      /\ reds'[n + 1].sig = r.sig
      /\ \A i \in 1..n : reds'[i] = reds[i]
  BY <1>1, <1>2
<1>4. r.sig # NoSig
  BY ReportTypes DEF TypeOK
<1>5. CASE verify_prev_sig # r.sig
  <2>1. verify_stall' = 0
    BY <1>2, <1>5 DEF StallAfter
  <2>2. \A i \in (Len(reds') - 0)..Len(reds') : i = n + 1
    BY <1>1, <1>3
  <2>3. VERIFY_STALL_THRESHOLD # 0 /\ (phase' = "stalled" => 0 >= VERIFY_STALL_THRESHOLD)
    BY <1>1, <1>2, <2>1
  <2>4. phase' # "stalled"
    BY ONLY <1>1, <2>3
  <2> QED
    BY <1>1, <1>2, <1>3, <2>1, <2>2, <2>4 DEF StallInv
<1>6. CASE verify_prev_sig = r.sig
  <2>1. verify_stall' = verify_stall + 1
    BY <1>2, <1>6 DEF StallAfter
  <2>2. reds # <<>> /\ verify_stall < n
        /\ \A i \in (n - verify_stall)..n : reds[i].sig = r.sig
    BY <1>4, <1>6 DEF StallInv
  <2>3. ASSUME NEW i \in (Len(reds') - verify_stall')..Len(reds') PROVE reds'[i].sig = r.sig
    <3>1. i = n + 1 \/ (i \in (n - verify_stall)..n /\ i \in 1..n)
      BY <1>1, <1>3, <2>1, <2>2
    <3> QED
      BY <1>3, <2>2, <3>1
  <2>4. verify_stall' < Len(reds')
    BY <1>1, <1>3, <2>1, <2>2
  <2> QED
    BY <1>2, <1>3, <2>1, <2>3, <2>4 DEF StallInv
<1> QED
  BY <1>5, <1>6

(* Every step does. *)
LEMMA StallStep ==
  ASSUME TypeOK, StallInv, FocusInv, [Next]_vars
  PROVE  StallInv' /\ FocusInv'
<1>1. CASE (\E g \in Gates : GateRed(g)) \/ ConfirmRed
  <2>1. PICK g \in Gates : \E scope : \E r \in Reports(g, scope) : Red(g, r)
    BY <1>1, RedSteps
  <2>2. PICK scope : \E r \in Reports(g, scope) : Red(g, r)
    BY <2>1
  <2>3. PICK r \in Reports(g, scope) : Red(g, r)
    BY <2>2
  <2>4. StallInv'
    BY <2>3, StallRed
  <2>5. /\ reds' = Append(reds, [gate |-> g, sig |-> r.sig])
        /\ verify_failing' # {} => g = "test"
    BY <2>3 DEF Red
  <2>6. reds' # <<>> /\ reds'[Len(reds')].gate = g
    BY <2>5 DEF TypeOK
  <2> QED
    BY <2>4, <2>5, <2>6 DEF FocusInv, FocusFollowsTests
<1>2. CASE ~((\E g \in Gates : GateRed(g)) \/ ConfirmRed)
  <2>1. /\ UNCHANGED <<reds, verify_prev_sig, verify_stall>>
        /\ verify_failing' \in {{}, verify_failing}
        /\ phase' = "stalled" => phase = "stalled"
    <3>1. CASE UNCHANGED vars
      BY <3>1 DEF vars, gate
    <3>2. CASE \E c \in Codes : Edit(c) \/ RunCommand(c)
      BY <3>2 DEF Edit, RunCommand, gate
    <3>3. CASE RunEnds \/ Answer
      BY <3>3 DEF RunEnds, Answer, gate
    <3>4. CASE Verify
      BY <1>2, <3>4 DEF Verify, GateSkipped, GatePasses, ConfirmSkipped, ConfirmPasses, AfterGate, gate
    <3>5. CASE Review
      BY <3>5 DEF Review, ReviewIssues, ReviewClean, Finish, gate
    <3> QED
      BY <3>1, <3>2, <3>3, <3>4, <3>5 DEF Next
  <2> QED
    BY <2>1 DEF StallInv, FocusInv, FocusFollowsTests
<1> QED
  BY <1>1, <1>2

(* A run is given up only after VERIFY_STALL_THRESHOLD + 1 red verifications *)
(* in a row with one signature, and only a red test gate leaves names for a  *)
(* focused run.                                                              *)
THEOREM StallCorrect == Spec => [](StallIsRepetition /\ FocusFollowsTests)
<1>1. Init => StallInv /\ FocusInv
  BY GateAssumption DEF Init, StallInv, FocusInv, FocusFollowsTests
<1>2. TypeOK /\ StallInv => StallIsRepetition
  <2>1. SUFFICES ASSUME TypeOK, StallInv, phase = "stalled" PROVE StallIsRepetition
    BY DEF StallIsRepetition
  <2> DEFINE n == Len(reds)
  <2>2. /\ n \in Nat /\ verify_stall \in Nat /\ VERIFY_STALL_THRESHOLD \in Nat
        /\ verify_stall >= VERIFY_STALL_THRESHOLD /\ verify_stall < n
        /\ \A i \in (n - verify_stall)..n : reds[i].sig = verify_prev_sig
    BY <2>1, GateAssumption DEF TypeOK, StallInv
  <2>3. \A i \in (n - VERIFY_STALL_THRESHOLD)..n : i \in (n - verify_stall)..n
    BY <2>2
  <2>4. n \in (n - verify_stall)..n /\ n > VERIFY_STALL_THRESHOLD
    BY <2>2
  <2> QED
    BY <2>1, <2>2, <2>3, <2>4 DEF StallIsRepetition
<1> QED
  BY <1>1, <1>2, InitType, TypeStep, StallStep, PTL DEF Spec, FocusInv

-----------------------------------------------------------------------------
(* What is reviewed. *)

(* A write with a diff waits for the review, or one was made. *)
DiffInv == (written => turn_diffs \/ review_rounds > 0) /\ ReviewedBeforeDone

(* Only the review takes the mark of a diff away, and it counts itself. *)
LEMMA DiffStep ==
  ASSUME TypeOK, DiffInv, [Next]_vars
  PROVE  DiffInv'
<1> USE DEF DiffInv, ReviewedBeforeDone
<1>1. ASSUME NEW c \in Codes, Edit(c) PROVE DiffInv'
  <2>1. phase' = "round" /\ review_rounds' = review_rounds
    BY <1>1 DEF Edit
  <2>2. turn_diffs' \in {turn_diffs, TRUE} /\ written' = (written \/ turn_diffs')
    BY <1>1 DEF Edit
  <2>3. (written' => written \/ turn_diffs') /\ (turn_diffs => turn_diffs')
    BY <2>2, Zenon DEF TypeOK
  <2> QED
    BY <2>1, <2>3
<1>2. CASE UNCHANGED vars \/ (\E c \in Codes : RunCommand(c)) \/ RunEnds \/ Answer
  <2>1. UNCHANGED <<written, turn_diffs, review_rounds>> /\ (phase' = "done" => phase = "done")
    BY <1>2 DEF vars, gate, RunCommand, RunEnds, Answer
  <2> QED
    BY <2>1
<1>3. CASE Verify
  <2>1. UNCHANGED <<written, turn_diffs, review_rounds>>
    BY <1>3 DEF Verify, GateRed, GateSkipped, GatePasses, ConfirmRed, ConfirmSkipped, ConfirmPasses,
                Red, Workspace, gate
  <2>2. phase' # "done"
    BY <1>3 DEF Verify, GateRed, GateSkipped, GatePasses, ConfirmRed, ConfirmSkipped, ConfirmPasses,
                Red, AfterGate
  <2> QED
    BY <2>1, <2>2
<1>4. CASE ReviewIssues \/ ReviewClean
  <2>1. review_rounds' > 0
    BY <1>4 DEF ReviewIssues, ReviewClean, TypeOK
  <2> QED
    BY <2>1
<1>5. CASE Finish
  <2>1. review_rounds >= REVIEW_MAX_ROUNDS => review_rounds > 0
    BY GateAssumption DEF TypeOK
  <2>2. UNCHANGED <<written, turn_diffs, review_rounds>> /\ (~turn_diffs \/ review_rounds >= REVIEW_MAX_ROUNDS)
    BY <1>5 DEF Finish, Workspace, gate
  <2> QED
    BY <2>1, <2>2
<1> QED
  BY <1>1, <1>2, <1>3, <1>4, <1>5 DEF Next, Review

(* A run that ends by itself after a write with a diff was reviewed, however *)
(* the verification went and however often the model was sent back.         *)
THEOREM ReviewCorrect == Spec => []ReviewedBeforeDone
<1>1. Init => DiffInv
  BY DEF Init, DiffInv, ReviewedBeforeDone
<1>2. TypeOK /\ DiffInv /\ [Next]_vars => DiffInv'
  BY DiffStep
<1> QED
  BY <1>1, <1>2, TypeCorrect, PTL DEF Spec, DiffInv
=============================================================================
