-------------------------- MODULE BgTasks_proofs --------------------------
(***************************************************************************)
(* What holds of background tasks for any number of conversations, tasks,  *)
(* rounds and runs.  The invariant has a part for the task's own loop and  *)
(* its entry (EntryInv), one for a poll in progress (PollInv), one for the *)
(* settlement (BillInv) and one for a kill (KillInv).                      *)
(***************************************************************************)
EXTENDS BgTasks, TLAPS

(* A poll has a task; a request is made in a round that is left. *)
Polled == \A c \in Convs :
  run[c] \in {"polling", "status", "report", "settling"} => poll[c].task \in Tasks
Asking == \A t \in Tasks : step[t] = "asking" => rounds[t] < MaxRounds

TypeInv == TypeOK /\ Polled /\ Asking

Ended      == {"decide", "report", "usage", "status", "over"}
Decided    == {"report", "usage", "status", "over"}
HasReport  == {"usage", "status", "over"}
HasUsage   == {"status", "over"}

(* How far the loop's end has filled the entry in. *)
EntryInv == \A t \in Tasks :
  /\ owner[t] = Nobody <=> step[t] = "unborn"
  /\ step[t] = "unborn" => spent[t] = 0
  /\ step[t] \in Ended => text[t] # ""
  /\ step[t] \in Decided => final[t] # "running"
  /\ step[t] \in HasReport => report[t] = text[t]
  /\ usage[t] = IF step[t] \in HasUsage THEN spent[t] ELSE 0
  /\ status[t] = IF step[t] = "over" THEN final[t] ELSE "running"

(* What a poll has read of a finished task is final. *)
PollInv ==
  /\ \A c \in Convs :
       /\ run[c] = "polling" => poll[c].status = "running"
       /\ run[c] = "settling" => poll[c].status # "running"
       /\ run[c] \in {"status", "report", "settling"} /\ poll[c].status # "running" =>
            step[poll[c].task] = "over" /\ poll[c].status = final[poll[c].task]
       /\ run[c] \in {"report", "settling"} /\ poll[c].status # "running" =>
            poll[c].report = text[poll[c].task]
  /\ \A a \in answers :
       /\ a.task \in Tasks /\ step[a.task] = "over"
       /\ a.status = final[a.task] /\ a.report = text[a.task]

(* A task is paid after it is settled, by the one run that settled it. *)
BillInv ==
  /\ \A t \in Tasks :
       /\ settled[t] => step[t] = "over"
       /\ paid[t] # 0 => settled[t] /\ paid[t] = spent[t]
  /\ \A c \in Convs : run[c] = "settling" =>
       /\ settled[poll[c].task] /\ paid[poll[c].task] = 0
       /\ \A d \in Convs : run[d] = "settling" /\ poll[d].task = poll[c].task => d = c

(* After the request under way a killed task asks no more. *)
KillInv == \A t \in Tasks :
  late[t] = 0 \/ (late[t] = 1 /\ cancel[t] /\ step[t] # "asking")

-----------------------------------------------------------------------------
(* Types. *)

(* Initially everything has its type. *)
LEMMA InitType == Init => TypeInv
<1> SUFFICES ASSUME Init PROVE TypeInv
  OBVIOUS
<1>1. TypeOK
  <2>1. NoPoll \in [task : Tasks \cup {NoTask}, status : Statuses, report : Texts]
    BY DEF NoPoll, Statuses, Texts
  <2>2. poll \in [Convs -> [task : Tasks \cup {NoTask}, status : Statuses, report : Texts]]
    BY <2>1 DEF Init
  <2>3. /\ owner \in [Tasks -> Convs \cup {Nobody}]
        /\ status \in [Tasks -> Statuses] /\ final \in [Tasks -> Statuses]
        /\ report \in [Tasks -> Texts] /\ text \in [Tasks -> Texts]
        /\ step \in [Tasks -> Steps]
    BY DEF Init, Statuses, Texts, Steps
  <2>4. /\ usage \in [Tasks -> Nat] /\ spent \in [Tasks -> Nat]
        /\ rounds \in [Tasks -> 0..MaxRounds] /\ late \in [Tasks -> Nat]
        /\ paid \in [Tasks -> Nat]
    <3>1. 0 \in 0..MaxRounds
      BY TasksAssumption
    <3> QED
      BY <3>1 DEF Init
  <2>5. settled \in [Tasks -> BOOLEAN] /\ cancel \in [Tasks -> BOOLEAN]
    BY DEF Init
  <2>6. /\ run \in [Convs -> Calls] /\ runs \in [Convs -> Nat]
        /\ token \in [Convs -> {"none", "live", "cancelled"}]
        /\ stopping \in [Convs -> BOOLEAN]
        /\ answers = {}
    BY DEF Init, Calls
  <2> QED
    BY <2>2, <2>3, <2>4, <2>5, <2>6 DEF TypeOK
<1>2. Polled
  BY DEF Init, Polled
<1>3. Asking
  BY DEF Init, Asking
<1> QED
  BY <1>1, <1>2, <1>3 DEF TypeInv

(* The check ends the loop or lets it ask. *)
LEMMA CheckCases ==
  ASSUME NEW t \in Tasks, CheckCancel(t)
  PROVE  /\ step[t] = "top"
         /\ UNCHANGED <<owner, status, report, usage, settled, cancel, rounds, final, spent,
                        late, run, token, stopping, poll, runs, paid, answers>>
         /\ \/ step' = [step EXCEPT ![t] = "decide"] /\ text' = [text EXCEPT ![t] = "none given"]
            \/ /\ step' = [step EXCEPT ![t] = "asking"] /\ text' = text
               /\ rounds[t] # MaxRounds /\ ~cancel[t]
<1> USE DEF CheckCancel, Go, LoopFrame, convs
<1>1. CASE cancel[t] \/ rounds[t] = MaxRounds
  BY <1>1
<1>2. CASE ~(cancel[t] \/ rounds[t] = MaxRounds)
  BY <1>2
<1> QED
  BY <1>1, <1>2

(* A step of a task's loop keeps the types. *)
LEMMA LoopType ==
  ASSUME TypeInv, NEW t \in Tasks, Loop(t)
  PROVE  TypeInv'
<1> USE TasksAssumption DEF LoopFrame, Go, After, convs, TypeInv, Statuses, Texts, Steps
<1>1. (TypeOK /\ Asking)'
  <2>1. CASE SetupFails(t)
    BY <2>1 DEF SetupFails, TypeOK, Asking
  <2>2. CASE CheckCancel(t)
    <3>1. /\ step[t] = "top"
          /\ UNCHANGED <<owner, status, report, usage, settled, cancel, rounds, final, spent,
                         late, run, token, stopping, poll, runs, paid, answers>>
          /\ \/ step' = [step EXCEPT ![t] = "decide"] /\ text' = [text EXCEPT ![t] = "none given"]
             \/ /\ step' = [step EXCEPT ![t] = "asking"] /\ text' = text
                /\ rounds[t] # MaxRounds
      BY <2>2, CheckCases
    <3>2. step' \in [Tasks -> Steps] /\ text' \in [Tasks -> Texts]
      <4>1. step \in [Tasks -> Steps] /\ text \in [Tasks -> Texts]
        BY DEF TypeOK
      <4> QED
        BY ONLY <3>1, <4>1 DEF Steps, Texts
    <3>3. TypeOK'
      <4>1. TypeOK
        OBVIOUS
      <4> QED
        BY ONLY <3>1, <3>2, <4>1 DEF TypeOK
    <3>4. Asking'
      <4>1. Asking /\ rounds \in [Tasks -> 0..MaxRounds] /\ step \in [Tasks -> Steps]
        BY DEF TypeOK
      <4>2. \A s \in Tasks : rounds'[s] = rounds[s]
        BY ONLY <3>1
      <4>3. \A s \in Tasks : step'[s] = "asking" => rounds[s] < MaxRounds
        <5>1. SUFFICES ASSUME NEW s \in Tasks, step'[s] = "asking" PROVE rounds[s] < MaxRounds
          OBVIOUS
        <5>2. CASE s = t
          <6>1. rounds[t] # MaxRounds
            BY ONLY <3>1, <4>1, <5>1, <5>2
          <6>2. rounds[t] \in 0..MaxRounds /\ MaxRounds \in Nat
            BY ONLY <4>1, TasksAssumption
          <6> QED
            BY ONLY <5>2, <6>1, <6>2
        <5>3. CASE s # t
          BY ONLY <3>1, <4>1, <5>1, <5>3 DEF Asking
        <5> QED
          BY <5>2, <5>3
      <4> QED
        BY ONLY <4>2, <4>3 DEF Asking
    <3> QED
      BY <3>3, <3>4
  <2>3. CASE Completion(t)
    <3>1. /\ step[t] = "asking" /\ rounds[t] \in 0..MaxRounds /\ rounds[t] < MaxRounds
          /\ spent[t] \in Nat /\ late[t] \in Nat
      BY <2>3 DEF Completion, TypeOK, Asking
    <3>2. rounds[t] + 1 \in 0..MaxRounds /\ late[t] + 1 \in Nat
      BY <3>1
    <3>3. rounds' \in [Tasks -> 0..MaxRounds] /\ late' \in [Tasks -> Nat]
      BY <2>3, <3>2 DEF Completion, TypeOK
    <3>4. spent' \in [Tasks -> Nat]
      <4>1. PICK u \in {0, 1} : spent' = [spent EXCEPT ![t] = @ + u]
        BY <2>3 DEF Completion
      <4>2. spent \in [Tasks -> Nat]
        BY DEF TypeOK
      <4>3. spent[t] + u \in Nat
        BY <3>1
      <4> QED
        BY ONLY <4>1, <4>2, <4>3
    <3>5. step' \in [Tasks -> Steps] /\ text' \in [Tasks -> Texts]
      <4>1. CASE Go(t, "asking", "top") /\ UNCHANGED text
        BY <4>1 DEF TypeOK
      <4>2. CASE /\ Go(t, "asking", "decide")
                 /\ \E r \in {"report", "none given"} : text' = [text EXCEPT ![t] = r]
        <5>1. PICK r \in {"report", "none given"} : text' = [text EXCEPT ![t] = r]
          BY <4>2
        <5> QED
          BY <4>2, <5>1 DEF TypeOK
      <4> QED
        BY <2>3, <4>1, <4>2 DEF Completion
    <3>6. TypeOK'
      BY <2>3, <3>3, <3>4, <3>5 DEF Completion, TypeOK
    <3>7. /\ step'[t] # "asking"
          /\ \A s \in Tasks \ {t} : step'[s] = step[s] /\ rounds'[s] = rounds[s]
      <4>1. step' = [step EXCEPT ![t] = "top"] \/ step' = [step EXCEPT ![t] = "decide"]
        BY <2>3 DEF Completion
      <4>2. rounds' = [rounds EXCEPT ![t] = @ + 1]
        BY <2>3 DEF Completion
      <4>3. DOMAIN step = Tasks /\ DOMAIN rounds = Tasks
        BY DEF TypeOK
      <4> QED
        BY ONLY <4>1, <4>2, <4>3
    <3>8. Asking'
      BY <3>7 DEF Asking
    <3> QED
      BY <3>6, <3>8
  <2>4. CASE CompletionFails(t)
    BY <2>4 DEF CompletionFails, TypeOK, Asking
  <2>5. CASE Decide(t)
    BY <2>5 DEF Decide, TypeOK, Asking
  <2>6. CASE PublishReport(t)
    BY <2>6 DEF PublishReport, TypeOK, Asking
  <2>7. CASE PublishUsage(t)
    BY <2>7 DEF PublishUsage, TypeOK, Asking
  <2>8. CASE PublishStatus(t)
    BY <2>8 DEF PublishStatus, TypeOK, Asking
  <2> QED
    BY <2>1, <2>2, <2>3, <2>4, <2>5, <2>6, <2>7, <2>8 DEF Loop
<1>2. UNCHANGED <<run, poll>>
  BY DEF Loop, SetupFails, CheckCancel, Completion, CompletionFails, Decide,
         PublishReport, PublishUsage, PublishStatus
<1>3. Polled'
  BY <1>2 DEF Polled
<1> QED
  BY <1>1, <1>3

(* A poll, and what it adds to the answers, have their types. *)
LEMMA PollTypes ==
  ASSUME TypeOK, NEW c \in Convs
  PROVE  /\ poll[c] \in [task : Tasks \cup {NoTask}, status : Statuses, report : Texts]
         /\ NoPoll \in [task : Tasks \cup {NoTask}, status : Statuses, report : Texts]
         /\ Returned(c) =>
              answers' \subseteq [task : Tasks \cup {NoTask}, status : Statuses, report : Texts]
<1>1. NoPoll \in [task : Tasks \cup {NoTask}, status : Statuses, report : Texts]
  BY DEF NoPoll, Statuses, Texts
<1>2. /\ poll[c] \in [task : Tasks \cup {NoTask}, status : Statuses, report : Texts]
      /\ answers \subseteq [task : Tasks \cup {NoTask}, status : Statuses, report : Texts]
  BY DEF TypeOK
<1> QED
  BY <1>1, <1>2 DEF Returned

(* The polls of the runs. *)
PollRecords == [task : Tasks \cup {NoTask}, status : Statuses, report : Texts]

(* Beginning a poll, reading the report and returning keep their types. *)
LEMMA PollSteps ==
  ASSUME TypeOK, NEW c \in Convs
  PROVE  /\ \A t \in Tasks : poll' = [poll EXCEPT ![c] = [NoPoll EXCEPT !.task = t]]
              => poll' \in [Convs -> PollRecords]
         /\ poll[c].task \in Tasks /\ poll' = [poll EXCEPT ![c].report = report[poll[c].task]]
              => poll' \in [Convs -> PollRecords]
         /\ UNCHANGED <<answers, poll>> \/ (Returned(c) /\ poll' = [poll EXCEPT ![c] = NoPoll])
              => poll' \in [Convs -> PollRecords] /\ answers' \subseteq PollRecords
<1>1. poll \in [Convs -> PollRecords] /\ answers \subseteq PollRecords
  BY DEF TypeOK, PollRecords
<1>2. NoPoll \in PollRecords /\ (Returned(c) => answers' \subseteq PollRecords)
  BY PollTypes DEF PollRecords
<1>3. \A t \in Tasks : [NoPoll EXCEPT !.task = t] \in PollRecords
  BY DEF NoPoll, PollRecords, Statuses, Texts
<1>4. poll[c].task \in Tasks => [poll[c] EXCEPT !.report = report[poll[c].task]] \in PollRecords
  <2>1. poll[c].task \in Tasks => report[poll[c].task] \in Texts
    BY DEF TypeOK
  <2>2. poll[c] \in PollRecords
    BY <1>1
  <2> QED
    BY <2>1, <2>2 DEF PollRecords
<1>5. poll' = [poll EXCEPT ![c].report = report[poll[c].task]]
        => poll' = [poll EXCEPT ![c] = [poll[c] EXCEPT !.report = report[poll[c].task]]]
  BY <1>1
<1> QED
  BY <1>1, <1>2, <1>3, <1>4, <1>5

(* A step of a run keeps the types. *)
LEMMA RunType ==
  ASSUME TypeInv, NEW c \in Convs, Run(c)
  PROVE  TypeInv'
<1> USE TasksAssumption DEF TypeInv, TypeOK, Polled, Asking, Call, ConvFrame, Calls, Statuses
<1>1. CASE StartRun(c)
  BY <1>1 DEF StartRun
<1>2. CASE EndRun(c)
  BY <1>2 DEF EndRun
<1>3. CASE BeginLaunch(c)
  BY <1>3 DEF BeginLaunch
<1>4. ASSUME NEW t \in Tasks, Launch(c, t) PROVE TypeInv'
  BY <1>4 DEF Launch, Steps
<1>5. ASSUME NEW t \in Tasks, BeginPoll(c, t) PROVE TypeInv'
  <2>1. poll' \in [Convs -> PollRecords]
    BY <1>5, PollSteps DEF BeginPoll
  <2> QED
    BY <1>5, <2>1 DEF BeginPoll, NoPoll, PollRecords
<1>6. CASE ReadStatus(c)
  BY <1>6 DEF ReadStatus, PollFrame
<1>7. CASE ReadReport(c)
  <2>1. /\ poll' = [poll EXCEPT ![c].report = report[poll[c].task]]
        /\ run[c] = "status" /\ run' = [run EXCEPT ![c] = "report"]
        /\ UNCHANGED <<status, report, usage, step, rounds, text, final, spent, late, owner,
                       cancel, token, stopping, runs, settled, paid, answers>>
    BY <1>7 DEF ReadReport, PollFrame
  <2>2. poll[c].task \in Tasks
    BY <2>1
  <2>3. run' \in [Convs -> Calls]
    BY <2>1
  <2>4. poll' \in [Convs -> [task : Tasks \cup {NoTask}, status : Statuses, report : Texts]]
    BY <2>1, <2>2, PollSteps DEF PollRecords
  <2>5. TypeOK'
    BY <2>1, <2>3, <2>4
  <2>6. Polled'
    BY <2>1, <2>2
  <2>7. Asking'
    BY <2>1
  <2> QED
    BY <2>5, <2>6, <2>7
<1>8. CASE Settle(c)
  <2>1. poll[c].task \in Tasks /\ UNCHANGED <<paid, owner, cancel, token, stopping, runs>>
    BY <1>8 DEF Settle, PollFrame
  <2>2. \/ /\ Call(c, "report", "settling") /\ UNCHANGED <<answers, poll>>
           /\ settled' = [settled EXCEPT ![poll[c].task] = TRUE]
        \/ /\ Call(c, "report", "loop") /\ Returned(c) /\ UNCHANGED settled
           /\ poll' = [poll EXCEPT ![c] = NoPoll]
    BY <1>8 DEF Settle
  <2>3. TypeOK'
    <3>1. settled' \in [Tasks -> BOOLEAN]
      BY <2>1, <2>2
    <3>2. run' \in [Convs -> Calls]
      BY <2>2
    <3>3. /\ poll' \in [Convs -> [task : Tasks \cup {NoTask}, status : Statuses, report : Texts]]
          /\ answers' \subseteq [task : Tasks \cup {NoTask}, status : Statuses, report : Texts]
      BY <2>2, PollSteps DEF PollRecords
    <3> QED
      BY <1>8, <2>1, <3>1, <3>2, <3>3 DEF Settle, PollFrame
  <2>4. Polled'
    BY <2>1, <2>2
  <2>5. Asking'
    BY <1>8 DEF Settle, PollFrame
  <2> QED
    BY <2>3, <2>4, <2>5
<1>9. CASE Bill(c)
  <2>1. poll[c].task \in Tasks
    BY <1>9 DEF Bill
  <2>2. paid' \in [Tasks -> Nat]
    <3>1. paid[poll[c].task] + usage[poll[c].task] \in Nat
      BY <2>1
    <3> QED
      BY <1>9, <3>1 DEF Bill
  <2> QED
    BY <1>9, <2>2, PollTypes DEF Bill, PollFrame
<1> QED
  BY <1>1, <1>2, <1>3, <1>4, <1>5, <1>6, <1>7, <1>8, <1>9 DEF Run, Polling

(* A stop keeps the types. *)
LEMMA StopType ==
  ASSUME TypeInv, Stop
  PROVE  TypeInv'
<1> USE DEF TypeInv, TypeOK, Polled, Asking, StopFrame, ConvFrame
<1>1. ASSUME NEW t \in Tasks, Kill(t) PROVE TypeInv'
  BY <1>1 DEF Kill
<1>2. ASSUME NEW c \in Convs, CancelAgent(c) PROVE TypeInv'
  BY <1>2 DEF CancelAgent
<1>3. ASSUME NEW c \in Convs, Cascade(c) PROVE TypeInv'
  BY <1>3 DEF Cascade
<1> QED
  BY <1>1, <1>2, <1>3 DEF Stop

(* Every step keeps the types. *)
LEMMA TypeStep ==
  ASSUME TypeInv, [Next]_vars
  PROVE  TypeInv'
<1>1. CASE UNCHANGED vars
  BY <1>1 DEF vars, entry, loop, convs, TypeInv, TypeOK, Polled, Asking
<1>2. CASE Next
  BY <1>2, LoopType, RunType, StopType DEF Next
<1> QED
  BY <1>1, <1>2

(* Every variable keeps its type, and no task asks for more than MaxRounds   *)
(* completions (SUBTASK_MAX_ROUNDS of run_subtask_loop).                     *)
THEOREM TypeCorrect == Spec => []TypeOK
<1>1. TypeInv => TypeOK
  BY DEF TypeInv
<1> QED
  BY <1>1, InitType, TypeStep, PTL DEF Spec

-----------------------------------------------------------------------------
(* The loop and the entry. *)

(* Only a task's loop, or its launch, touches what the loop and the entry    *)
(* hold, and a task that was told to stop stays told.                        *)
LEMMA Frames ==
  ASSUME TypeOK, Next
  PROVE  /\ \/ \E t \in Tasks : Loop(t)
            \/ \E c \in Convs, t \in Tasks : Launch(c, t)
            \/ ConvFrame /\ UNCHANGED owner
         /\ \A t \in Tasks : cancel[t] => cancel'[t]
<1>1. ASSUME NEW t \in Tasks, Loop(t) PROVE UNCHANGED cancel
  BY <1>1 DEF Loop, SetupFails, CheckCancel, Completion, CompletionFails, Decide,
              PublishReport, PublishUsage, PublishStatus, LoopFrame
<1>2. ASSUME NEW c \in Convs, NEW t \in Tasks, Launch(c, t) PROVE UNCHANGED cancel
  BY <1>2 DEF Launch
<1>3. ASSUME NEW c \in Convs, StartRun(c) \/ EndRun(c) \/ BeginLaunch(c) \/ Polling(c)
      PROVE  ConvFrame /\ UNCHANGED <<owner, cancel>>
  BY <1>3 DEF StartRun, EndRun, BeginLaunch, Polling, ReadStatus, ReadReport, Settle, Bill, PollFrame
<1>4. ASSUME NEW c \in Convs, NEW t \in Tasks, BeginPoll(c, t)
      PROVE  ConvFrame /\ UNCHANGED <<owner, cancel>>
  BY <1>4 DEF BeginPoll
<1>5. ASSUME Stop
      PROVE  ConvFrame /\ UNCHANGED owner /\ \A t \in Tasks : cancel[t] => cancel'[t]
  <2>1. ASSUME NEW t \in Tasks, Kill(t)
        PROVE  ConvFrame /\ UNCHANGED owner /\ \A s \in Tasks : cancel[s] => cancel'[s]
    BY <2>1 DEF Kill, StopFrame, TypeOK
  <2>2. ASSUME NEW c \in Convs, CancelAgent(c) \/ Cascade(c)
        PROVE  ConvFrame /\ UNCHANGED owner /\ \A s \in Tasks : cancel[s] => cancel'[s]
    BY <2>2 DEF CancelAgent, Cascade, StopFrame
  <2> QED
    BY <1>5, <2>1, <2>2 DEF Stop
<1> QED
  BY <1>1, <1>2, <1>3, <1>4, <1>5 DEF Next, Run

(* A step of a task's loop keeps its entry in step with it. *)
LEMMA LoopEntry ==
  ASSUME TypeOK, EntryInv, NEW t \in Tasks, Loop(t)
  PROVE  EntryInv'
<1> USE DEF EntryInv, TypeOK, LoopFrame, Go, After, Ended, Decided, HasReport, HasUsage
<1>1. CASE SetupFails(t)
  BY <1>1 DEF SetupFails
<1>2. CASE CheckCancel(t)
  <2>1. /\ step[t] = "top"
        /\ UNCHANGED <<owner, status, report, usage, final, spent>>
        /\ \/ step' = [step EXCEPT ![t] = "decide"] /\ text' = [text EXCEPT ![t] = "none given"]
           \/ step' = [step EXCEPT ![t] = "asking"] /\ text' = text
    BY <1>2, CheckCases
  <2>2. CASE step' = [step EXCEPT ![t] = "decide"] /\ text' = [text EXCEPT ![t] = "none given"]
    BY <2>1, <2>2
  <2>3. CASE step' = [step EXCEPT ![t] = "asking"] /\ text' = text
    BY <2>1, <2>3
  <2> QED
    BY <2>1, <2>2, <2>3
<1>3. CASE Completion(t)
  <2>1. UNCHANGED <<owner, status, report, usage, final>>
    BY <1>3 DEF Completion
  <2>2. PICK u \in {0, 1} : spent' = [spent EXCEPT ![t] = @ + u]
    BY <1>3 DEF Completion
  <2>3. CASE Go(t, "asking", "top") /\ UNCHANGED text
    BY <2>1, <2>2, <2>3
  <2>4. CASE /\ Go(t, "asking", "decide")
             /\ \E r \in {"report", "none given"} : text' = [text EXCEPT ![t] = r]
    <3>1. PICK r \in {"report", "none given"} : text' = [text EXCEPT ![t] = r]
      BY <2>4
    <3> QED
      BY <2>1, <2>2, <2>4, <3>1
  <2> QED
    BY <1>3, <2>3, <2>4 DEF Completion
<1>4. CASE CompletionFails(t)
  BY <1>4 DEF CompletionFails
<1>5. CASE Decide(t)
  BY <1>5 DEF Decide
<1>6. CASE PublishReport(t)
  BY <1>6 DEF PublishReport
<1>7. CASE PublishUsage(t)
  BY <1>7 DEF PublishUsage
<1>8. CASE PublishStatus(t)
  BY <1>8 DEF PublishStatus
<1> QED
  BY <1>1, <1>2, <1>3, <1>4, <1>5, <1>6, <1>7, <1>8 DEF Loop

(* Every step does. *)
LEMMA EntryStep ==
  ASSUME TypeOK, EntryInv, [Next]_vars
  PROVE  EntryInv'
<1>1. CASE UNCHANGED vars
  BY <1>1 DEF vars, entry, loop, EntryInv
<1>2. ASSUME NEW c \in Convs, NEW t \in Tasks, Launch(c, t) PROVE EntryInv'
  BY <1>2, TasksAssumption DEF Launch, EntryInv, TypeOK, Ended, Decided, HasReport, HasUsage
<1>3. CASE ConvFrame /\ UNCHANGED owner
  BY <1>3 DEF ConvFrame, EntryInv
<1> QED
  BY <1>1, <1>2, <1>3, LoopEntry, Frames

(* A finished task is finished for good: what a poll read of it stays so. *)
LEMMA OverStays ==
  ASSUME TypeOK, EntryInv, Next, NEW t \in Tasks, step[t] = "over"
  PROVE  /\ step'[t] = "over"
         /\ final'[t] = final[t] /\ text'[t] = text[t] /\ spent'[t] = spent[t]
<1>1. ASSUME NEW s \in Tasks, Loop(s)
      PROVE  /\ step[s] # "over" /\ step'[t] = step[t]
             /\ final'[t] = final[t] /\ text'[t] = text[t] /\ spent'[t] = spent[t]
  <2>1. step[s] # "over" /\ step'[t] = step[t]
    BY <1>1 DEF Loop, SetupFails, CheckCancel, Completion, CompletionFails, Decide,
                PublishReport, PublishUsage, PublishStatus, Go, After, TypeOK
  <2>2. t # s
    BY <2>1
  <2> QED
    BY <1>1, <2>1, <2>2 DEF Loop, SetupFails, CheckCancel, Completion, CompletionFails, Decide,
                PublishReport, PublishUsage, PublishStatus, Go, TypeOK
<1>2. ASSUME NEW c \in Convs, NEW s \in Tasks, Launch(c, s)
      PROVE  /\ step'[t] = "over"
             /\ final'[t] = final[t] /\ text'[t] = text[t] /\ spent'[t] = spent[t]
  BY <1>2 DEF Launch, EntryInv, TypeOK
<1>3. CASE ConvFrame
  BY <1>3 DEF ConvFrame
<1> QED
  BY <1>1, <1>2, <1>3, Frames

(* Initially no task has an entry. *)
LEMMA InitEntry == Init => EntryInv
<1> SUFFICES ASSUME Init, NEW t \in Tasks
             PROVE  /\ owner[t] = Nobody /\ step[t] = "unborn" /\ spent[t] = 0
                    /\ usage[t] = 0 /\ status[t] = "running"
  BY DEF EntryInv, Ended, Decided, HasReport, HasUsage
<1> QED
  BY DEF Init

-----------------------------------------------------------------------------
(* A kill. *)

(* Every step keeps the bound: only Completion counts, and it leaves the     *)
(* stage in which it can be taken; CheckCancel does not go back there.       *)
LEMMA KillStep ==
  ASSUME TypeOK, KillInv, [Next]_vars
  PROVE  KillInv'
<1> USE DEF KillInv, TypeOK, Go, LoopFrame
<1>1. ASSUME NEW t \in Tasks, Loop(t) PROVE KillInv'
  <2>1. CASE SetupFails(t)
    BY <2>1 DEF SetupFails
  <2>2. CASE CheckCancel(t)
    <3>1. /\ UNCHANGED <<late, cancel>> /\ step[t] = "top"
          /\ \/ step' = [step EXCEPT ![t] = "decide"]
             \/ step' = [step EXCEPT ![t] = "asking"] /\ ~cancel[t]
      BY <2>2, CheckCases
    <3> QED
      BY <3>1
  <2>3. CASE Completion(t)
    <3>1. /\ UNCHANGED cancel /\ step[t] = "asking"
          /\ step' = [step EXCEPT ![t] = "top"] \/ step' = [step EXCEPT ![t] = "decide"]
      BY <2>3 DEF Completion
    <3>2. late' = IF cancel[t] THEN [late EXCEPT ![t] = @ + 1] ELSE late
      BY <2>3 DEF Completion
    <3>3. CASE cancel[t]
      BY <3>1, <3>2, <3>3
    <3>4. CASE ~cancel[t]
      BY <3>1, <3>2, <3>4
    <3> QED
      BY <3>3, <3>4
  <2>4. CASE CompletionFails(t)
    BY <2>4 DEF CompletionFails
  <2>5. CASE Decide(t)
    BY <2>5 DEF Decide, After
  <2>6. CASE PublishReport(t)
    BY <2>6 DEF PublishReport, After
  <2>7. CASE PublishUsage(t)
    BY <2>7 DEF PublishUsage, After
  <2>8. CASE PublishStatus(t)
    BY <2>8 DEF PublishStatus, After
  <2> QED
    BY <1>1, <2>1, <2>2, <2>3, <2>4, <2>5, <2>6, <2>7, <2>8 DEF Loop
<1>2. ASSUME NEW c \in Convs, NEW t \in Tasks, Launch(c, t) PROVE KillInv'
  BY <1>2 DEF Launch
<1>3. CASE Next /\ ConvFrame
  BY <1>3, Frames DEF ConvFrame
<1>4. CASE UNCHANGED vars
  BY <1>4 DEF vars, loop
<1> QED
  BY <1>1, <1>2, <1>3, <1>4, Frames

(* A task that was told to stop asks the model at most once more, whenever   *)
(* the stop arrives (the check at the top of each round of run_subtask_loop).*)
THEOREM KillBounded == Spec => []KillBound
<1>1. Init => KillInv
  BY DEF Init, KillInv
<1>2. TypeOK /\ KillInv /\ [Next]_vars => KillInv'
  BY KillStep
<1>3. KillInv => KillBound
  BY DEF KillInv, KillBound
<1> QED
  BY <1>1, <1>2, <1>3, TypeCorrect, PTL DEF Spec

-----------------------------------------------------------------------------
(* Polls. *)

(* Initially nothing was polled. *)
LEMMA InitPoll == Init => PollInv
BY DEF Init, PollInv, NoPoll

(* A step that is not one of a poll leaves it, and what it read, alone. *)
LEMMA PollFrameStep ==
  ASSUME TypeInv, EntryInv, PollInv, Next, UNCHANGED <<poll, answers>>,
         \A c \in Convs : run'[c] = run[c]
                         \/ run'[c] \notin {"polling", "status", "report", "settling"}
  PROVE  PollInv'
<1>1. \A t \in Tasks : step[t] = "over" =>
        step'[t] = "over" /\ final'[t] = final[t] /\ text'[t] = text[t]
  BY OverStays DEF TypeInv
<1>2. \A c \in Convs : run[c] \in {"polling", "status", "report", "settling"} => poll[c].task \in Tasks
  BY DEF TypeInv, Polled
<1> QED
  BY <1>1, <1>2 DEF PollInv

(* What a poll returns of a finished task is final. *)
LEMMA Answered ==
  ASSUME TypeInv, PollInv, NEW c \in Convs, run[c] \in {"report", "settling"}, Returned(c)
  PROVE  \A a \in answers' :
           /\ a.task \in Tasks /\ step[a.task] = "over"
           /\ a.status = final[a.task] /\ a.report = text[a.task]
<1>1. poll[c].status # "running" =>
        /\ poll[c].task \in Tasks /\ step[poll[c].task] = "over"
        /\ poll[c].status = final[poll[c].task] /\ poll[c].report = text[poll[c].task]
  BY DEF PollInv, TypeInv, Polled
<1> QED
  BY <1>1 DEF Returned, PollInv

(* Every step keeps what polls read final. *)
LEMMA PollStep ==
  ASSUME TypeInv, EntryInv, PollInv, [Next]_vars
  PROVE  PollInv'
<1> USE DEF TypeInv, Call
<1>1. CASE UNCHANGED vars
  BY <1>1 DEF vars, loop, convs, PollInv
<1>2. ASSUME NEW t \in Tasks, Loop(t), Next PROVE PollInv'
  <2>1. UNCHANGED <<run, poll, answers>>
    BY <1>2 DEF Loop, SetupFails, CheckCancel, Completion, CompletionFails, Decide,
                PublishReport, PublishUsage, PublishStatus, LoopFrame, convs
  <2> QED
    BY <1>2, <2>1, PollFrameStep
<1>3. ASSUME Stop, Next PROVE PollInv'
  <2>1. UNCHANGED <<run, poll, answers>>
    BY <1>3 DEF Stop, Kill, CancelAgent, Cascade, StopFrame
  <2> QED
    BY <1>3, <2>1, PollFrameStep
<1>4. ASSUME NEW c \in Convs, StartRun(c) \/ EndRun(c) \/ BeginLaunch(c), Next PROVE PollInv'
  <2>1. /\ UNCHANGED <<poll, answers>>
        /\ \A d \in Convs : run'[d] = run[d]
              \/ run'[d] \notin {"polling", "status", "report", "settling"}
    BY <1>4 DEF StartRun, EndRun, BeginLaunch, TypeOK
  <2> QED
    BY <1>4, <2>1, PollFrameStep
<1>5. ASSUME NEW c \in Convs, NEW t \in Tasks, Launch(c, t), Next PROVE PollInv'
  <2>1. /\ UNCHANGED <<poll, answers>>
        /\ \A d \in Convs : run'[d] = run[d]
              \/ run'[d] \notin {"polling", "status", "report", "settling"}
    BY <1>5 DEF Launch, TypeOK
  <2> QED
    BY <1>5, <2>1, PollFrameStep
<1>6. ASSUME NEW c \in Convs, NEW t \in Tasks, BeginPoll(c, t), Next PROVE PollInv'
  <2>1. /\ run' = [run EXCEPT ![c] = "polling"] /\ poll' = [poll EXCEPT ![c] = [NoPoll EXCEPT !.task = t]]
        /\ ConvFrame /\ UNCHANGED answers
    BY <1>6 DEF BeginPoll
  <2> QED
    BY <2>1 DEF ConvFrame, PollInv, TypeOK, NoPoll
<1>7. ASSUME NEW c \in Convs, Polling(c) PROVE PollInv'
  <2>1. UNCHANGED <<step, final, text>>
    BY <1>7 DEF Polling, ReadStatus, ReadReport, Settle, Bill, PollFrame, ConvFrame
  <2>2. poll \in [Convs -> [task : Tasks \cup {NoTask}, status : Statuses, report : Texts]]
    BY DEF TypeOK
  <2>3. CASE ReadStatus(c)
    <3>1. /\ run[c] = "polling" /\ poll[c].task \in Tasks /\ UNCHANGED answers
          /\ run' = [run EXCEPT ![c] = "status"]
          /\ poll' = [poll EXCEPT ![c].status = status[poll[c].task]]
      BY <2>3 DEF ReadStatus, Polled
    <3>2. status[poll[c].task] # "running" =>
            step[poll[c].task] = "over" /\ status[poll[c].task] = final[poll[c].task]
      BY <3>1 DEF EntryInv
    <3> QED
      BY <2>1, <2>2, <3>1, <3>2 DEF PollInv, TypeOK
  <2>4. CASE ReadReport(c)
    <3>1. /\ run[c] = "status" /\ poll[c].task \in Tasks /\ UNCHANGED answers
          /\ run' = [run EXCEPT ![c] = "report"]
          /\ poll' = [poll EXCEPT ![c].report = report[poll[c].task]]
      BY <2>4 DEF ReadReport, Polled
    <3>2. poll[c].status # "running" => report[poll[c].task] = text[poll[c].task]
      BY <3>1 DEF PollInv, EntryInv, HasReport
    <3>3. /\ poll'[c].task = poll[c].task /\ poll'[c].status = poll[c].status
          /\ poll'[c].report = report[poll[c].task]
          /\ \A d \in Convs \ {c} : poll'[d] = poll[d]
      BY <2>2, <3>1
    <3> QED
      BY <2>1, <3>1, <3>2, <3>3 DEF PollInv, TypeOK
  <2>5. CASE Settle(c)
    <3>1. CASE /\ run[c] = "report" /\ poll[c].status # "running" /\ UNCHANGED <<answers, poll>>
               /\ run' = [run EXCEPT ![c] = "settling"]
      BY <2>1, <3>1 DEF PollInv, TypeOK
    <3>2. CASE /\ run[c] = "report" /\ run' = [run EXCEPT ![c] = "loop"]
               /\ poll' = [poll EXCEPT ![c] = NoPoll] /\ Returned(c)
      BY <2>1, <2>2, <3>2, Answered DEF PollInv, TypeOK
    <3> QED
      BY <2>5, <3>1, <3>2 DEF Settle
  <2>6. CASE Bill(c)
    <3>1. /\ run[c] = "settling" /\ run' = [run EXCEPT ![c] = "loop"]
          /\ poll' = [poll EXCEPT ![c] = NoPoll] /\ Returned(c)
      BY <2>6 DEF Bill
    <3> QED
      BY <2>1, <2>2, <3>1, Answered DEF PollInv, TypeOK
  <2> QED
    BY <1>7, <2>3, <2>4, <2>5, <2>6 DEF Polling
<1> QED
  BY <1>1, <1>2, <1>3, <1>4, <1>5, <1>6, <1>7 DEF Next, Run

(* The parts that lean on each other, as one. *)
IInv == TypeInv /\ EntryInv /\ PollInv

(* The parts hold together. *)
LEMMA Inductive == Spec => []IInv
<1>1. Init => IInv
  BY InitType, InitEntry, InitPoll DEF IInv
<1>2. IInv /\ [Next]_vars => IInv'
  BY TypeStep, EntryStep, PollStep DEF IInv, TypeInv
<1> QED
  BY <1>1, <1>2, PTL DEF Spec

(* All answers get_task_output ever gives about a finished task, to whatever *)
(* run, are its final status and its whole report.                           *)
THEOREM AnswersAgree == Spec => []FinalAnswersAgree
<1>1. IInv => FinalAnswersAgree
  <2> SUFFICES ASSUME IInv, NEW a \in answers
               PROVE  a.status = final[a.task] /\ a.report = text[a.task] /\ a.report # ""
    BY DEF FinalAnswersAgree
  <2>1. /\ a.task \in Tasks /\ step[a.task] = "over"
        /\ a.status = final[a.task] /\ a.report = text[a.task]
    BY DEF IInv, PollInv
  <2>2. text[a.task] # ""
    BY <2>1 DEF IInv, EntryInv, Ended
  <2> QED
    BY <2>1, <2>2
<1> QED
  BY <1>1, Inductive, PTL

-----------------------------------------------------------------------------
(* Settlement. *)

(* A step that settles, pays and spends nothing keeps what is settled.       *)
LEMMA BillFrameStep ==
  ASSUME IInv, BillInv, Next, UNCHANGED <<settled, paid>>,
         \A c \in Convs : run'[c] = "settling" => run[c] = "settling" /\ poll'[c].task = poll[c].task
  PROVE  BillInv'
<1>1. \A t \in Tasks : step[t] = "over" => step'[t] = "over" /\ spent'[t] = spent[t]
  BY OverStays DEF IInv, TypeInv
<1> QED
  BY <1>1 DEF BillInv

(* The poll that finds the flag unset sets it and is alone in settling.      *)
LEMMA SettleStep ==
  ASSUME IInv, BillInv, Next, NEW c \in Convs, Settle(c)
  PROVE  BillInv'
<1> DEFINE t == poll[c].task
<1>1. run[c] = "report" /\ t \in Tasks
  BY DEF Settle, Call, IInv, TypeInv, Polled
<1>2. CASE poll[c].status # "running" /\ ~settled[t]
  <2>1. /\ run' = [run EXCEPT ![c] = "settling"] /\ settled' = [settled EXCEPT ![t] = TRUE]
        /\ UNCHANGED <<poll, paid, step, spent>>
    BY <1>2 DEF Settle, Call, PollFrame, ConvFrame
  <2>2. step[t] = "over" /\ paid[t] = 0
    BY <1>1, <1>2 DEF IInv, PollInv, BillInv
  <2>3. \A d \in Convs : run[d] = "settling" => poll[d].task # t
    BY <1>2 DEF BillInv
  <2>4. settled \in [Tasks -> BOOLEAN] /\ run \in [Convs -> Calls]
    BY DEF IInv, TypeInv, TypeOK
  <2> HIDE DEF t
  <2>5. \A s \in Tasks : settled'[s] = (settled[s] \/ s = t)
    BY <1>1, <2>1, <2>4
  <2>6. \A d \in Convs : run'[d] = "settling" <=> run[d] = "settling" \/ d = c
    BY <2>1, <2>4
  <2>7. \A d \in Convs : run[d] = "settling" => poll[d].task \in Tasks
    BY DEF IInv, TypeInv, Polled
  <2>8. \A s \in Tasks : /\ settled'[s] => step'[s] = "over"
                         /\ paid'[s] # 0 => settled'[s] /\ paid'[s] = spent'[s]
    BY <1>1, <2>1, <2>2, <2>5 DEF BillInv
  <2>9. poll[c].task = t
    BY DEF t
  <2>10. ASSUME NEW d \in Convs, run'[d] = "settling"
         PROVE  /\ settled'[poll'[d].task] /\ paid'[poll'[d].task] = 0
                /\ \A e \in Convs : run'[e] = "settling" /\ poll'[e].task = poll'[d].task => e = d
    <3>1. CASE d = c
      BY <1>1, <2>1, <2>2, <2>3, <2>5, <2>6, <2>9, <2>10, <3>1
    <3>2. CASE d # c
      BY <1>1, <2>1, <2>3, <2>5, <2>6, <2>7, <2>9, <2>10, <3>2 DEF BillInv
    <3> QED
      BY <3>1, <3>2
  <2> QED
    BY <2>8, <2>10 DEF BillInv
<1>3. CASE ~(poll[c].status # "running" /\ ~settled[t])
  <2>1. /\ run' = [run EXCEPT ![c] = "loop"] /\ poll' = [poll EXCEPT ![c] = NoPoll]
        /\ UNCHANGED <<settled, paid>>
    BY <1>3 DEF Settle, Call, PollFrame
  <2>2. \A d \in Convs : run'[d] = "settling" => run[d] = "settling" /\ poll'[d].task = poll[d].task
    BY <2>1 DEF IInv, TypeInv, TypeOK
  <2> QED
    BY <2>1, <2>2, BillFrameStep
<1> QED
  BY <1>2, <1>3

(* What is recorded is what the task spent, and nothing was recorded before. *)
LEMMA BillEffect ==
  ASSUME IInv, BillInv, NEW c \in Convs, Bill(c)
  PROVE  /\ poll[c].task \in Tasks /\ settled[poll[c].task] /\ paid[poll[c].task] = 0
         /\ paid' = [paid EXCEPT ![poll[c].task] = spent[poll[c].task]]
<1>1. run[c] = "settling" /\ poll[c].task \in Tasks
  BY DEF Bill, Call, IInv, TypeInv, Polled
<1>2. settled[poll[c].task] /\ paid[poll[c].task] = 0 /\ step[poll[c].task] = "over"
  BY <1>1 DEF BillInv
<1>3. usage[poll[c].task] = spent[poll[c].task] /\ spent[poll[c].task] \in Nat
  BY <1>1, <1>2 DEF IInv, EntryInv, HasUsage, TypeInv, TypeOK
<1>4. paid' = [paid EXCEPT ![poll[c].task] = @ + usage[poll[c].task]]
  BY DEF Bill
<1>5. paid[poll[c].task] + usage[poll[c].task] = spent[poll[c].task]
  BY <1>2, <1>3
<1> QED
  BY <1>1, <1>2, <1>4, <1>5

(* Recording ends the settlement. *)
LEMMA BillStep ==
  ASSUME IInv, BillInv, NEW c \in Convs, Bill(c)
  PROVE  BillInv'
<1> DEFINE t == poll[c].task
<1>1. t \in Tasks /\ settled[t] /\ paid[t] = 0 /\ paid' = [paid EXCEPT ![t] = spent[t]]
  BY BillEffect
<1>2. /\ run' = [run EXCEPT ![c] = "loop"] /\ poll' = [poll EXCEPT ![c] = NoPoll]
      /\ run[c] = "settling" /\ UNCHANGED <<settled, step, spent>>
  BY DEF Bill, Call, PollFrame, ConvFrame
<1>3. paid \in [Tasks -> Nat] /\ run \in [Convs -> Calls] /\ DOMAIN poll = Convs
  BY DEF IInv, TypeInv, TypeOK
<1>4. \A d \in Convs : run'[d] = "settling" => d # c /\ run[d] = "settling" /\ poll'[d] = poll[d]
  BY <1>2, <1>3
<1>5. \A d \in Convs : run[d] = "settling" /\ d # c => poll[d].task # t /\ poll[d].task \in Tasks
  BY <1>2 DEF BillInv, IInv, TypeInv, Polled
<1> HIDE DEF t
<1>6. \A s \in Tasks : paid'[s] = IF s = t THEN spent[s] ELSE paid[s]
  BY <1>1, <1>3
<1> QED
  BY <1>1, <1>2, <1>4, <1>5, <1>6 DEF BillInv

(* Every step keeps the settlement in order. *)
LEMMA BillInvStep ==
  ASSUME IInv, BillInv, [Next]_vars
  PROVE  BillInv'
<1> USE DEF Call
<1>1. CASE UNCHANGED vars
  BY <1>1 DEF vars, entry, loop, convs, BillInv
<1>2. ASSUME NEW t \in Tasks, Loop(t), Next PROVE BillInv'
  <2>1. UNCHANGED <<run, poll, settled, paid>>
    BY <1>2 DEF Loop, SetupFails, CheckCancel, Completion, CompletionFails, Decide,
                PublishReport, PublishUsage, PublishStatus, LoopFrame, convs
  <2> QED
    BY <1>2, <2>1, BillFrameStep
<1>3. ASSUME Stop, Next PROVE BillInv'
  <2>1. UNCHANGED <<run, poll, settled, paid>>
    BY <1>3 DEF Stop, Kill, CancelAgent, Cascade, StopFrame
  <2> QED
    BY <1>3, <2>1, BillFrameStep
<1>4. ASSUME NEW c \in Convs, Run(c), ~Settle(c), ~Bill(c), Next PROVE BillInv'
  <2>1. UNCHANGED <<settled, paid>>
    BY <1>4 DEF Run, Polling, StartRun, EndRun, BeginLaunch, Launch, BeginPoll, ReadStatus, ReadReport
  <2>2. run' # [run EXCEPT ![c] = "settling"] /\ \E s \in Calls \ {"settling"} : run' = [run EXCEPT ![c] = s]
    BY <1>4 DEF Run, Polling, StartRun, EndRun, BeginLaunch, Launch, BeginPoll, ReadStatus,
                ReadReport, Calls, IInv, TypeInv, TypeOK
  <2>3. \A d \in Convs \ {c} : poll'[d] = poll[d]
    BY <1>4 DEF Run, Polling, StartRun, EndRun, BeginLaunch, Launch, BeginPoll, ReadStatus,
                ReadReport, IInv, TypeInv, TypeOK
  <2>4. \A d \in Convs : run'[d] = "settling" => run[d] = "settling" /\ poll'[d].task = poll[d].task
    BY <2>2, <2>3 DEF IInv, TypeInv, TypeOK
  <2> QED
    BY <1>4, <2>1, <2>4, BillFrameStep
<1>5. ASSUME NEW c \in Convs, Settle(c) \/ Bill(c), Next PROVE BillInv'
  BY <1>5, SettleStep, BillStep
<1> QED
  BY <1>1, <1>2, <1>3, <1>4, <1>5 DEF Next

-----------------------------------------------------------------------------
(* The refinement. *)

(* A step of the code spends, pays, or leaves the ledger alone. *)
LEMMA LedgerStep ==
  ASSUME IInv, BillInv, [Next]_vars
  PROVE  [Ledger!Next]_<<spent, paid>>
<1>1. ASSUME NEW t \in Tasks, Completion(t) PROVE Ledger!Spend(t) \/ UNCHANGED <<spent, paid>>
  <2>1. step[t] = "asking" /\ UNCHANGED paid
    BY <1>1 DEF Completion, Go, LoopFrame
  <2>2. paid[t] = 0
    BY <2>1 DEF BillInv
  <2>3. PICK u \in {0, 1} : spent' = [spent EXCEPT ![t] = @ + u]
    BY <1>1 DEF Completion
  <2>4. spent \in [Tasks -> Nat]
    BY DEF IInv, TypeInv, TypeOK
  <2>5. CASE u = 0
    <3>1. spent[t] \in Nat
      BY <2>4
    <3>2. spent[t] + u = spent[t]
      BY <2>5, <3>1
    <3>3. spent' = spent
      BY <2>3, <2>4, <3>2
    <3> QED
      BY <2>1, <3>3
  <2>6. CASE u = 1
    BY <2>1, <2>2, <2>3, <2>6 DEF Ledger!Spend
  <2> QED
    BY <2>5, <2>6
<1>2. ASSUME NEW c \in Convs, Bill(c) PROVE Ledger!Pay(poll[c].task) /\ poll[c].task \in Tasks
  BY <1>2, BillEffect DEF Ledger!Pay, Bill, PollFrame, ConvFrame
<1>3. ASSUME NEW t \in Tasks, Loop(t), ~Completion(t) PROVE UNCHANGED <<spent, paid>>
  BY <1>3 DEF Loop, SetupFails, CheckCancel, CompletionFails, Decide,
              PublishReport, PublishUsage, PublishStatus, LoopFrame
<1>4. ASSUME NEW c \in Convs, Run(c), ~Bill(c) PROVE UNCHANGED <<spent, paid>>
  BY <1>4 DEF Run, Polling, StartRun, EndRun, BeginLaunch, Launch, BeginPoll, ReadStatus,
              ReadReport, Settle, PollFrame, ConvFrame
<1>5. CASE Stop
  BY <1>5 DEF Stop, Kill, CancelAgent, Cascade, StopFrame, ConvFrame
<1>6. CASE UNCHANGED vars
  BY <1>6 DEF vars, loop
<1> QED
  BY <1>1, <1>2, <1>3, <1>4, <1>5, <1>6 DEF Next, Ledger!Next

(* Background tasks implement the ledger: what a task spends is recorded at  *)
(* most once, in full, and it spends nothing after that (settled.swap of     *)
(* get_task_output, the order of the publication at the end of the task).    *)
THEOREM BillingRefines == Spec => BilledOnce
<1>1. Init => BillInv
  BY DEF Init, BillInv
<1>2. IInv /\ BillInv /\ [Next]_vars => BillInv'
  BY BillInvStep
<1>3. Spec => []BillInv
  BY <1>1, <1>2, Inductive, PTL DEF Spec
<1>4. Init => Ledger!Init
  BY DEF Init, Ledger!Init
<1>5. IInv /\ BillInv /\ [Next]_vars => [Ledger!Next]_<<spent, paid>>
  BY LedgerStep
<1> QED
  BY <1>3, <1>4, <1>5, Inductive, PTL DEF Spec, BilledOnce, Ledger!Spec

=============================================================================
