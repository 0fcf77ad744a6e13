------------------------- MODULE Interaction_proofs -------------------------
(***************************************************************************)
(* Theorems about Approvals and StreamRetry: what the user is asked, and   *)
(* what the user sees of an answer.                                        *)
(***************************************************************************)
EXTENDS Approvals, StreamRetry, SequenceTheorems, WellFoundedInduction, TLAPS

-----------------------------------------------------------------------------
(***************************************************************************)
(* Theorems about Approvals, for any number of runs, subtasks, requests,   *)
(* stops and reloads: a request that nothing disturbed (see                *)
(* WaitingIsVisible) is in sight of the user as long as someone waits for  *)
(* it, and those who wait are exactly those the backend's map has a        *)
(* request of.                                                             *)
(*                                                                         *)
(* WaitingIsVisible is not inductive: events that arrive take the place of *)
(* what is shown or close the dialog.  SightInv says why that hides        *)
(* nothing: the last thing the screen was told, or will be, is the request *)
(* that nothing disturbed.  A stop closes what it did not refuse only      *)
(* while every request that waits was asked since it began, and counts as  *)
(* disturbed.                                                              *)
(***************************************************************************)
(* Where ids are: below the next one, each at most once on its way, and the *)
(* one on the screen no longer on its way.                                 *)
SightType ==
  /\ seq \in Nat \ {0}
  /\ DOMAIN requests \subseteq 1..seq-1
  /\ emitted \in Seq(0..seq-1)
  /\ screen \in 0..seq-1
  /\ sending \in Runs \cup {Nobody} /\ stops \in [Runs -> {"no", "refused", "cleared"}]

EachOnce ==
  /\ \A j, k \in DOMAIN emitted : emitted[j] = emitted[k] /\ emitted[j] # ChatDone => j = k
  /\ \A k \in DOMAIN emitted : emitted[k] = screen => screen = ChatDone

(* An event is of a request that waits, or of the end of a run; who met no  *)
(* other waits alone.                                                      *)
OfWaiting == \A k \in DOMAIN emitted : emitted[k] \in DOMAIN requests \cup {ChatDone}
Alone     == \A i \in DOMAIN requests \ disturbed : DOMAIN requests = {i}

(* What the screen shows when all events have arrived. *)
LastTold     == IF emitted = <<>> THEN screen ELSE emitted[Len(emitted)]
LastWord == \A i \in DOMAIN requests \ disturbed : LastTold = i

(* A request that is shown and does not wait is one a stop just refused;    *)
(* until that stop has cleared the screen all that wait were asked since.   *)
StopBegun == screen # 0 /\ screen \notin DOMAIN requests => Refusing
Since   == Refusing => DOMAIN requests \subseteq disturbed

SightInv == SightType /\ EachOnce /\ OfWaiting /\ Alone /\ LastWord /\ StopBegun /\ Since

-----------------------------------------------------------------------------
LEMMA SightInit == ApInit => SightInv
<1> SUFFICES ASSUME ApInit PROVE SightInv
  OBVIOUS
<1>1. DOMAIN requests = {} /\ emitted = <<>> /\ seq = 1 /\ screen = 0 /\ sending = Nobody
      /\ stops = [a \in Runs |-> "no"]
  BY DEF ApInit
<1>2. DOMAIN emitted = {} /\ emitted \in Seq(0..seq-1)
  BY <1>1
<1>3. ~Refusing
  BY <1>1 DEF Refusing
<1> QED
  BY <1>1, <1>2, <1>3 DEF SightInv, SightType, EachOnce, OfWaiting, Alone, LastWord, StopBegun, Since

(* An event is sent. *)
LEMMA Sent ==
  ASSUME SightType, NEW e \in 0..seq, emitted' = Append(emitted, e)
  PROVE  /\ Len(emitted) \in Nat /\ Len(emitted') = Len(emitted) + 1 /\ emitted' # <<>>
         /\ DOMAIN emitted' = 1..Len(emitted) + 1 /\ DOMAIN emitted = 1..Len(emitted)
         /\ \A k \in 1..Len(emitted) : emitted'[k] = emitted[k] /\ emitted[k] \in 0..seq-1
         /\ emitted'[Len(emitted) + 1] = e
         /\ LastTold' = e
         /\ emitted' \in Seq(0..seq)
<1>1. emitted \in Seq(0..seq) /\ emitted \in Seq(0..seq-1) /\ seq \in Nat
  BY SeqMonotonic, 0..seq-1 \subseteq 0..seq DEF SightType
<1>2. /\ Len(emitted) \in Nat /\ Len(emitted') = Len(emitted) + 1
      /\ DOMAIN emitted' = 1..Len(emitted) + 1 /\ DOMAIN emitted = 1..Len(emitted)
      /\ \A k \in 1..Len(emitted) : emitted'[k] = emitted[k] /\ emitted[k] \in 0..seq-1
      /\ emitted'[Len(emitted) + 1] = e /\ emitted' \in Seq(0..seq)
  BY <1>1
<1>3. emitted' # <<>>
  BY <1>2
<1> QED
  BY <1>2, <1>3 DEF LastTold

(* A request is registered and its event sent. *)
LEMMA SightRequest ==
  ASSUME SightInv, NEW a, NEW call, RequestToolApproval(a, call), UNCHANGED <<screen, sending, stops>>
  PROVE  SightInv'
<1> USE DEF SightInv
<1>1. /\ seq' = seq + 1 /\ seq' \in Nat \ {0} /\ seq \in Nat \ {0} /\ seq \in 0..seq
      /\ DOMAIN requests' = DOMAIN requests \cup {seq}
      /\ emitted' = Append(emitted, seq) /\ (Refusing' <=> Refusing)
      /\ disturbed' = IF DOMAIN requests = {} /\ ~Refusing THEN disturbed ELSE disturbed \cup DOMAIN requests \cup {seq}
  BY DEF RequestToolApproval, SightType, Refusing
<1>2. /\ DOMAIN emitted' = 1..Len(emitted) + 1 /\ DOMAIN emitted = 1..Len(emitted)
      /\ \A k \in 1..Len(emitted) : emitted'[k] = emitted[k] /\ emitted[k] \in 0..seq-1
      /\ emitted'[Len(emitted) + 1] = seq /\ LastTold' = seq
      /\ Len(emitted) \in Nat /\ emitted' \in Seq(0..seq)
  BY <1>1, Sent
<1>3. SightType'
  <2>1. 1..seq-1 \subseteq 1..seq'-1 /\ seq \in 1..seq'-1 /\ seq'-1 = seq
    BY <1>1
  <2>2. screen \in 0..seq
    BY <1>1 DEF SightType
  <2> QED
    BY <1>1, <1>2, <2>1, <2>2 DEF SightType
<1>4. EachOnce'
  <2>1. \A k \in 1..Len(emitted) : emitted[k] # seq
    BY <1>1, <1>2
  <2>2. screen' # seq
    BY <1>1 DEF SightType
  <2> QED
    BY <1>2, <2>1, <2>2 DEF EachOnce
<1>5. OfWaiting' /\ StopBegun'
  BY <1>1, <1>2 DEF OfWaiting, StopBegun
<1>6. CASE DOMAIN requests = {} /\ ~Refusing
  <2>1. \A i \in DOMAIN requests' : i = seq
    BY <1>1, <1>6
  <2>2. Alone'
    BY <1>1, <1>6, <2>1 DEF Alone
  <2>3. LastWord'
    BY <1>2, <2>1 DEF LastWord
  <2>4. Since'
    BY <1>1, <1>6 DEF Since
  <2> QED
    BY <1>3, <1>4, <1>5, <2>2, <2>3, <2>4
<1>7. CASE ~(DOMAIN requests = {} /\ ~Refusing)
  <2>1. DOMAIN requests' \subseteq disturbed'
    BY <1>1, <1>7
  <2> QED
    BY <1>3, <1>4, <1>5, <2>1 DEF Alone, LastWord, Since
<1> QED
  BY <1>6, <1>7

(* A run ends: what waits is disturbed, as chat-done comes after it.        *)
LEMMA SightEnd ==
  ASSUME SightInv, emitted' = Append(emitted, ChatDone), disturbed' = disturbed \cup DOMAIN requests,
         UNCHANGED <<requests, screen, sending, stops, seq>>
  PROVE  SightInv'
<1> USE DEF SightInv
<1>1. seq \in Nat \ {0} /\ ChatDone \in 0..seq /\ (Refusing' <=> Refusing)
  BY DEF SightType, ChatDone, Refusing
<1>2. /\ DOMAIN emitted' = 1..Len(emitted) + 1 /\ DOMAIN emitted = 1..Len(emitted)
      /\ \A k \in 1..Len(emitted) : emitted'[k] = emitted[k] /\ emitted[k] \in 0..seq-1
      /\ emitted'[Len(emitted) + 1] = ChatDone
      /\ Len(emitted) \in Nat
  BY <1>1, Sent
<1>3. emitted' \in Seq(0..seq-1)
  <2>1. ChatDone \in 0..seq-1 /\ emitted \in Seq(0..seq-1)
    BY <1>1 DEF SightType, ChatDone
  <2> QED
    BY <2>1
<1>4. SightType'
  BY <1>3 DEF SightType
<1>5. EachOnce' /\ OfWaiting'
  BY <1>2 DEF EachOnce, OfWaiting
<1>6. DOMAIN requests' \subseteq disturbed'
  OBVIOUS
<1>7. StopBegun'
  BY <1>1 DEF StopBegun
<1> QED
  BY <1>4, <1>5, <1>6, <1>7 DEF Alone, LastWord, Since

(* An event arrives: what it would hide or close met it. *)
LEMMA SightShow ==
  ASSUME SightInv, ShowEvent
  PROVE  SightInv'
<1> USE DEF SightInv
<1>1. /\ emitted # <<>> /\ emitted' = Tail(emitted)
      /\ requests' = requests /\ seq' = seq /\ disturbed' = disturbed /\ stops' = stops
      /\ screen' \in {screen, 0, Head(emitted)}
      /\ Head(emitted) # ChatDone => screen' = Head(emitted)
      /\ Head(emitted) = ChatDone => screen' \in {screen, 0}
      /\ sending' \in {sending, Nobody}
  BY DEF ShowEvent
<1>2. /\ Len(emitted) \in Nat \ {0} /\ DOMAIN emitted = 1..Len(emitted)
      /\ Head(emitted) = emitted[1] /\ emitted[1] \in 0..seq-1
      /\ Len(emitted') = Len(emitted) - 1 /\ DOMAIN emitted' = 1..Len(emitted) - 1
      /\ \A k \in 1..Len(emitted) - 1 : emitted'[k] = emitted[k + 1]
      /\ emitted' \in Seq(0..seq-1)
  BY <1>1, emitted \in Seq(0..seq-1) DEF SightType
<1>3. \A k \in DOMAIN emitted' : k + 1 \in DOMAIN emitted /\ k + 1 # 1
  BY <1>2
<1>4. 1 \in DOMAIN emitted /\ emitted[1] \in DOMAIN requests \cup {ChatDone} /\ seq \in Nat \ {0}
  BY <1>2 DEF OfWaiting, SightType
<1>5. SightType'
  BY <1>1, <1>2, <1>4 DEF SightType
<1>6. EachOnce'
  <2>1. ASSUME NEW k \in DOMAIN emitted', emitted'[k] = screen' PROVE screen' = ChatDone
    <3>1. emitted'[k] = emitted[k + 1]
      BY <1>2
    <3>2. CASE screen' = screen
      BY <1>3, <2>1, <3>1, <3>2 DEF EachOnce
    <3>3. CASE screen' = emitted[1] /\ emitted[1] # ChatDone
      BY <1>3, <1>4, <2>1, <3>1, <3>3 DEF EachOnce
    <3>4. CASE screen' = 0
      BY <3>4 DEF ChatDone
    <3> QED
      BY <1>1, <1>2, <3>2, <3>3, <3>4
  <2>2. ASSUME NEW j \in DOMAIN emitted', NEW k \in DOMAIN emitted', emitted'[j] = emitted'[k], emitted'[j] # ChatDone
        PROVE  j = k
    <3>1. j + 1 = k + 1
      BY <1>2, <1>3, <2>2 DEF EachOnce
    <3> QED
      BY <1>2, <3>1
  <2> QED
    BY <2>1, <2>2 DEF EachOnce
<1>7. OfWaiting'
  BY <1>1, <1>2, <1>3 DEF OfWaiting
<1>8. Alone'
  BY <1>1 DEF Alone
<1>9. Refusing' <=> Refusing
  BY <1>1 DEF Refusing
<1>10. StopBegun' /\ Since'
  BY <1>1, <1>2, <1>4, <1>9 DEF StopBegun, Since, ChatDone
<1>11. ASSUME NEW i \in DOMAIN requests' \ disturbed' PROVE LastTold' = i
  <2>1. emitted[Len(emitted)] = i /\ i # ChatDone
    BY <1>1, <1>11 DEF LastWord, LastTold, SightType, ChatDone
  <2>2. CASE emitted' = <<>>
    <3>1. Len(emitted') = 0
      BY <2>2
    <3>2. Len(emitted) = 1
      <4>1. Len(emitted') = Len(emitted) - 1 /\ Len(emitted) \in Nat
        BY <1>2
      <4>2. \A n \in Nat : n - 1 = 0 => n = 1
        OBVIOUS
      <4> QED
        BY <3>1, <4>1, <4>2
    <3>3. screen' = i
      BY <1>1, <1>2, <2>1, <3>2
    <3> QED
      BY <2>2, <3>3 DEF LastTold
  <2>3. CASE emitted' # <<>>
    <3>1. Len(emitted') \in 1..Len(emitted) - 1
      BY <1>2, <2>3
    <3>2. emitted'[Len(emitted')] = emitted[Len(emitted)]
      BY <1>2, <3>1
    <3> QED
      BY <2>1, <2>3, <3>2 DEF LastTold
  <2> QED
    BY <2>2, <2>3
<1> QED
  BY <1>5, <1>6, <1>7, <1>8, <1>10, <1>11 DEF LastWord

(* A request leaves the map only from the screen; then the dialog is closed *)
(* or a stop is under way.                                                 *)
LEMMA SightAnswered ==
  ASSUME SightInv, screen # 0, DOMAIN requests' = DOMAIN requests \ {screen},
         UNCHANGED <<emitted, seq, disturbed, sending>>,
         stops' \in [Runs -> {"no", "refused", "cleared"}],
         \/ screen' = 0 /\ stops' = stops
         \/ screen' = screen /\ Refusing'
  PROVE  SightInv'
<1> USE DEF SightInv
<1>1. SightType' /\ EachOnce'
  BY DEF SightType, EachOnce, ChatDone
<1>2. OfWaiting'
  BY DEF OfWaiting, EachOnce, ChatDone
<1>3. Alone'
  BY DEF Alone
<1>4. ASSUME NEW i \in DOMAIN requests' \ disturbed' PROVE emitted # <<>> /\ LastTold = i /\ DOMAIN requests = {i}
  <2>1. i \in DOMAIN requests \ disturbed /\ i # screen
    BY <1>4
  <2> QED
    BY <2>1 DEF LastWord, LastTold, Alone
<1>5. LastWord'
  BY <1>4 DEF LastWord, LastTold
<1>6. StopBegun'
  <2>1. (stops' = stops) => (Refusing' <=> Refusing)
    BY DEF Refusing
  <2> QED
    BY <2>1 DEF StopBegun
<1>7. Since'
  <2>1. CASE screen' = 0 /\ stops' = stops
    <3>1. Refusing' <=> Refusing
      BY <2>1 DEF Refusing
    <3> QED
      BY <3>1 DEF Since
  <2>2. CASE screen' = screen /\ Refusing'
    <3>1. ASSUME NEW i \in DOMAIN requests' \ disturbed' PROVE FALSE
      <4>1. DOMAIN requests = {i} /\ i # screen /\ i \notin disturbed
        BY <1>4, <3>1
      <4>2. Refusing
        BY <4>1 DEF StopBegun
      <4> QED
        BY <4>1, <4>2 DEF Since
    <3> QED
      BY <3>1 DEF Since
  <2> QED
    BY <2>1, <2>2
<1> QED
  BY <1>1, <1>2, <1>3, <1>5, <1>6, <1>7

(* A stop moves on: when it closes the dialog, nothing undisturbed waits.   *)
LEMMA SightStop ==
  ASSUME SightInv, NEW conv \in Runs, StopClears(conv) \/ StopCancels(conv)
  PROVE  SightInv'
<1> USE DEF SightInv
<1>1. UNCHANGED <<requests, emitted, sending, seq, disturbed>>
  BY DEF StopClears, StopCancels
<1>2. CASE StopClears(conv)
  <2>1. stops[conv] = "refused" /\ stops' = [stops EXCEPT ![conv] = "cleared"] /\ screen' = 0 /\ Refusing
    BY <1>2 DEF StopClears, Refusing
  <2>2. DOMAIN requests' \subseteq disturbed'
    BY <1>1, <2>1 DEF Since
  <2>3. SightType'
    BY <1>1, <2>1 DEF SightType
  <2>4. EachOnce' /\ OfWaiting'
    BY <1>1, <2>1 DEF EachOnce, OfWaiting, ChatDone
  <2> QED
    BY <2>1, <2>2, <2>3, <2>4 DEF Alone, LastWord, StopBegun, Since
<1>3. CASE StopCancels(conv)
  <2>1. stops[conv] # "refused" /\ stops' = [stops EXCEPT ![conv] = "no"] /\ screen' = screen
    BY <1>3 DEF StopCancels
  <2>2. Refusing' <=> Refusing
    BY <2>1 DEF Refusing, SightType
  <2>3. SightType'
    BY <1>1, <2>1 DEF SightType
  <2> QED
    BY <1>1, <2>1, <2>2, <2>3 DEF EachOnce, OfWaiting, Alone, LastWord, LastTold, StopBegun, Since
<1> QED
  BY <1>2, <1>3

LEMMA SightReload ==
  ASSUME SightInv, ReloadScreen
  PROVE  SightInv'
<1> USE DEF SightInv
<1>1. /\ screen' = 0 /\ emitted' = <<>> /\ disturbed' = disturbed \cup DOMAIN requests
      /\ requests' = requests /\ seq' = seq /\ sending' = Nobody /\ stops' = [a \in Runs |-> "no"]
  BY DEF ReloadScreen
<1>2. DOMAIN emitted' = {} /\ emitted' \in Seq(0..seq'-1)
  BY <1>1
<1>3. SightType'
  BY <1>1, <1>2 DEF SightType
<1>4. EachOnce' /\ OfWaiting'
  BY <1>2 DEF EachOnce, OfWaiting
<1>5. DOMAIN requests' \subseteq disturbed'
  BY <1>1
<1> QED
  BY <1>1, <1>3, <1>4, <1>5 DEF Alone, LastWord, StopBegun, Since

LEMMA SightStep == SightInv /\ [ApNext]_apvars => SightInv'
<1> SUFFICES ASSUME SightInv, [ApNext]_apvars PROVE SightInv'
  OBVIOUS
<1>1. ASSUME UNCHANGED <<requests, emitted, screen, stops, seq, disturbed>>, sending' \in Runs \cup {Nobody} PROVE SightInv'
  BY <1>1 DEF SightInv, SightType, EachOnce, OfWaiting, Alone, LastWord, LastTold, StopBegun, Since, Refusing
<1>a. sending \in Runs \cup {Nobody} /\ stops \in [Runs -> {"no", "refused", "cleared"}]
  BY DEF SightInv, SightType
<1>2. ASSUME NEW a \in Askers, NEW mode \in Modes, BeginRun(a, mode) PROVE SightInv'
  BY <1>1, <1>2 DEF BeginRun
<1>3. ASSUME NEW a \in Askers, BeginSubtask(a) \/ EndSubtask(a) \/ FailRun(a) PROVE SightInv'
  BY <1>1, <1>3, <1>a DEF BeginSubtask, EndSubtask, FailRun
<1>11. ASSUME NEW a \in Askers, EndRun(a) PROVE SightInv'
  BY <1>11, SightEnd DEF EndRun
<1>4. ASSUME NEW a \in Askers, NEW call \in Call, ToolCall(a, call) PROVE SightInv'
  <2>1. UNCHANGED <<screen, sending, stops>>
    BY <1>4 DEF ToolCall
  <2>2. RequestToolApproval(a, call) \/ UNCHANGED <<requests, emitted, seq, disturbed>>
    BY <1>4 DEF ToolCall
  <2> QED
    BY <2>1, <2>2, <1>1, <1>a, SightRequest
<1>5. ASSUME ShowEvent PROVE SightInv'
  BY <1>5, SightShow
<1>6. ASSUME NEW approved, NEW remember, UserAnswers(approved, remember) PROVE SightInv'
  <2>1. screen # 0 /\ screen' = 0 /\ UNCHANGED <<emitted, seq, disturbed, sending, stops>>
    BY <1>6 DEF UserAnswers
  <2>2. DOMAIN requests' = DOMAIN requests \ {screen}
    BY <1>6 DEF UserAnswers, RespondApproval
  <2> QED
    BY <1>a, <2>1, <2>2, SightAnswered
<1>7. ASSUME NEW conv \in Runs, StopRefuses(conv) PROVE SightInv'
  <2>1. screen # 0 /\ screen' = screen /\ UNCHANGED <<emitted, seq, disturbed, sending>>
        /\ stops' = [stops EXCEPT ![conv] = "refused"]
    BY <1>7 DEF StopRefuses
  <2>2. DOMAIN requests' = DOMAIN requests \ {screen}
    BY <1>7 DEF StopRefuses, RespondApproval
  <2>3. Refusing' /\ stops' \in [Runs -> {"no", "refused", "cleared"}]
    BY <1>a, <2>1 DEF Refusing
  <2> QED
    BY <2>1, <2>2, <2>3, SightAnswered
<1>12. ASSUME NEW conv \in Runs, StopClears(conv) \/ StopCancels(conv) PROVE SightInv'
  BY <1>12, SightStop
<1>8. ASSUME ReloadScreen PROVE SightInv'
  BY <1>8, SightReload
<1>9. ASSUME NEW rule, CreatePermissionRule(rule) \/ DeletePermissionRule(rule) PROVE SightInv'
  BY <1>1, <1>9, <1>a DEF CreatePermissionRule, DeletePermissionRule
<1>10. ASSUME UNCHANGED apvars PROVE SightInv'
  BY <1>1, <1>10, <1>a DEF apvars
<1> QED
  BY <1>2, <1>3, <1>4, <1>5, <1>6, <1>7, <1>8, <1>9, <1>10, <1>11, <1>12 DEF ApNext

(* The last word is on the screen or on its way there. *)
LEMMA SightMeans == SightInv => WaitingIsVisible
<1> SUFFICES ASSUME SightInv, NEW i \in DOMAIN requests \ disturbed, screen # i
             PROVE  \E k \in DOMAIN emitted : emitted[k] = i
  BY DEF WaitingIsVisible
<1>1. emitted # <<>> /\ emitted[Len(emitted)] = i
  BY DEF SightInv, LastWord, LastTold
<1>2. Len(emitted) \in DOMAIN emitted
  BY <1>1, emitted \in Seq(0..seq-1) DEF SightInv, SightType
<1> QED
  BY <1>1, <1>2

(* A request that waits is shown or about to be, for any number of askers,  *)
(* as long as no other waits with it, no run ends and the screen is not      *)
(* reloaded while it does, and unless it was asked while a stop refused the *)
(* one before (App.tsx, the one slot of the dialog, chat-done, handleStop;  *)
(* permissions.rs request_tool_approval; commands.rs respond_approval).     *)
THEOREM WaitingSeen == ApSpec => []WaitingIsVisible
BY SightInit, SightStep, SightMeans, PTL DEF ApSpec
-----------------------------------------------------------------------------
(* Who waits and who is waited for. *)

Agent == [phase : {"idle", "run", "asked"}, mode : Modes, rules : SUBSET Rule, id : Nat, stopped : BOOLEAN]

MatchType ==
  /\ rules \in SUBSET Rule /\ agents \in [Askers -> Agent]
  /\ seq \in Nat \ {0} /\ DOMAIN requests \subseteq 1..seq-1
  /\ requests \in [DOMAIN requests -> [who : Askers, rule : Rule]]

MatchInv == MatchType /\ RequestsMatchWaiting

LEMMA RuleTypes ==
  ASSUME NEW call \in Call PROVE PermissionRuleFor(call) \in Rule
BY DEF Call, Rule, PermissionRuleFor, Plain

LEMMA AgentTypes ==
  /\ Resting \in Agent /\ Resting.phase = "idle"
  /\ \A x \in Agent : Awake(x) \in Agent /\ Awake(x).phase # "asked"
BY DEF Resting, Agent, Awake, Modes

LEMMA MatchInit == ApInit => MatchInv
<1> SUFFICES ASSUME ApInit PROVE MatchInv
  OBVIOUS
<1>1. DOMAIN requests = {} /\ requests \in [{} -> [who : Askers, rule : Rule]] /\ seq = 1
  BY DEF ApInit
<1>2. rules \in SUBSET Rule /\ agents \in [Askers -> Agent] /\ \A a \in Askers : agents[a].phase = "idle"
  BY AgentTypes, ApprovalsAssumption DEF ApInit
<1> QED
  BY <1>1, <1>2 DEF MatchInv, MatchType, RequestsMatchWaiting

(* One asker that does not wait changes, and does not begin to. *)
LEMMA MatchOther ==
  ASSUME MatchInv, NEW a \in Askers, agents[a].phase # "asked",
         NEW x \in Agent, x.phase # "asked", agents' = [agents EXCEPT ![a] = x],
         UNCHANGED <<rules, requests, seq>>
  PROVE  MatchInv'
<1>1. MatchType'
  BY DEF MatchInv, MatchType
<1>2. agents'[a] = x /\ \A b \in Askers \ {a} : agents'[b] = agents[b]
  BY DEF MatchInv, MatchType
<1> QED
  BY <1>1, <1>2 DEF MatchInv, MatchType, RequestsMatchWaiting

LEMMA MatchRequest ==
  ASSUME MatchInv, NEW a \in Askers, NEW call \in Call, agents[a].phase = "run",
         RequestToolApproval(a, call), rules' = rules
  PROVE  MatchInv'
<1>1. /\ seq' = seq + 1 /\ seq \in Nat \ {0} /\ seq \notin DOMAIN requests
      /\ DOMAIN requests' = DOMAIN requests \cup {seq}
      /\ requests'[seq] = [who |-> a, rule |-> PermissionRuleFor(call)]
      /\ \A i \in DOMAIN requests : requests'[i] = requests[i]
  BY DEF RequestToolApproval, MatchInv, MatchType
<1>2. agents' = [agents EXCEPT ![a].phase = "asked", ![a].id = seq]
  BY DEF RequestToolApproval
<1>3. /\ agents' \in [Askers -> Agent]
      /\ agents'[a].phase = "asked" /\ agents'[a].id = seq
      /\ \A b \in Askers \ {a} : agents'[b] = agents[b]
  <2>1. agents \in [Askers -> Agent] /\ seq \in Nat
    BY <1>1 DEF MatchInv, MatchType
  <2>2. [agents[a] EXCEPT !.phase = "asked", !.id = seq] \in Agent
    BY <2>1 DEF Agent
  <2>3. agents' = [agents EXCEPT ![a] = [agents[a] EXCEPT !.phase = "asked", !.id = seq]]
    BY <1>2, <2>1 DEF Agent
  <2> QED
    BY <2>1, <2>2, <2>3 DEF Agent
<1>4. MatchType'
  <2>1. \A i \in DOMAIN requests' : requests'[i] \in [who : Askers, rule : Rule]
    BY <1>1, RuleTypes DEF MatchInv, MatchType
  <2>2. requests' = [i \in DOMAIN requests' |-> requests'[i]]
    BY DEF RequestToolApproval
  <2>3. DOMAIN requests' \subseteq 1..seq'-1 /\ seq' \in Nat \ {0}
    BY <1>1 DEF MatchInv, MatchType
  <2> QED
    BY <1>3, <2>1, <2>2, <2>3, rules' = rules DEF MatchInv, MatchType
<1>5. RequestsMatchWaiting'
  BY <1>1, <1>3 DEF MatchInv, MatchType, RequestsMatchWaiting
<1> QED
  BY <1>4, <1>5 DEF MatchInv

(* A request is taken out and the one who waits for it goes on; others that *)
(* do not wait may be changed too.                                          *)
LEMMA MatchAnswered ==
  ASSUME MatchInv, NEW id, rules' \in SUBSET Rule, seq' = seq,
         requests' = [i \in DOMAIN requests \ {id} |-> requests[i]],
         agents' \in [Askers -> Agent],
         \A a \in Askers : agents'[a].phase = "asked" =>
           /\ agents[a].phase = "asked" /\ agents'[a].id = agents[a].id
           /\ id \in DOMAIN requests => a # requests[id].who,
         \A a \in Askers :
           agents[a].phase = "asked" /\ ~(id \in DOMAIN requests /\ a = requests[id].who)
             => agents'[a].phase = "asked" /\ agents'[a].id = agents[a].id
  PROVE  MatchInv'
<1>1. /\ DOMAIN requests' = DOMAIN requests \ {id}
      /\ \A i \in DOMAIN requests' : requests'[i] = requests[i]
      /\ requests' = [i \in DOMAIN requests' |-> requests'[i]]
  OBVIOUS
<1>2. MatchType'
  BY <1>1 DEF MatchInv, MatchType
<1>3. ASSUME NEW a \in Askers, agents'[a].phase = "asked"
      PROVE  agents'[a].id \in DOMAIN requests' /\ requests'[agents'[a].id].who = a
  BY <1>1, <1>3 DEF MatchInv, MatchType, RequestsMatchWaiting
<1>4. ASSUME NEW i \in DOMAIN requests'
      PROVE  agents'[requests'[i].who].phase = "asked" /\ agents'[requests'[i].who].id = i
  <2>1. /\ i \in DOMAIN requests /\ i # id /\ requests'[i] = requests[i] /\ requests[i].who \in Askers
        /\ agents[requests[i].who].phase = "asked" /\ agents[requests[i].who].id = i
    BY <1>1, <1>4 DEF MatchInv, MatchType, RequestsMatchWaiting
  <2>2. ~(id \in DOMAIN requests /\ requests[i].who = requests[id].who)
    BY <2>1 DEF MatchInv, RequestsMatchWaiting
  <2> QED
    BY <2>1, <2>2
<1> QED
  BY <1>2, <1>3, <1>4 DEF MatchInv, RequestsMatchWaiting

LEMMA MatchResponse ==
  ASSUME MatchInv, NEW id, NEW approved \in BOOLEAN, NEW remember \in BOOLEAN,
         RespondApproval(id, approved, remember), seq' = seq
  PROVE  MatchInv'
<1>2. CASE id \notin DOMAIN requests
  BY <1>2 DEF RespondApproval, MatchInv, MatchType, RequestsMatchWaiting
<1>3. CASE id \in DOMAIN requests
  <2> DEFINE a == requests[id].who
  <2>1. /\ a \in Askers
        /\ requests' = [i \in DOMAIN requests \ {id} |-> requests[i]]
        /\ agents' = [agents EXCEPT ![a] = Awake(agents[a])]
        /\ rules' = IF approved /\ remember THEN rules \cup {requests[id].rule} ELSE rules
    BY <1>3 DEF RespondApproval, MatchInv, MatchType
  <2>2. Awake(agents[a]) \in Agent /\ Awake(agents[a]).phase # "asked"
    BY <2>1, AgentTypes DEF MatchInv, MatchType
  <2>3. /\ agents' \in [Askers -> Agent] /\ agents'[a].phase # "asked"
        /\ \A b \in Askers \ {a} : agents'[b] = agents[b]
    BY <2>1, <2>2 DEF MatchInv, MatchType
  <2>4. rules' \in SUBSET Rule
    BY <1>3, <2>1 DEF MatchInv, MatchType
  <2>5. \A b \in Askers : agents'[b].phase = "asked" =>
          /\ agents[b].phase = "asked" /\ agents'[b].id = agents[b].id /\ b # a
    BY <2>3
  <2>6. \A b \in Askers : agents[b].phase = "asked" /\ ~(id \in DOMAIN requests /\ b = a)
          => agents'[b].phase = "asked" /\ agents'[b].id = agents[b].id
    BY <1>3, <2>3
  <2> HIDE DEF a
  <2> QED
    BY <2>1, <2>3, <2>4, <2>5, <2>6, MatchAnswered DEF a
<1> QED
  BY <1>2, <1>3

(* The flag of a run is raised: nobody begins or ceases to wait.           *)
LEMMA MatchCancel ==
  ASSUME MatchInv, NEW conv \in Runs, StopCancels(conv)
  PROVE  MatchInv'
<1>1. /\ agents' = [a \in Askers |-> IF Lead[a] = conv /\ agents[a].phase # "idle"
                                     THEN [agents[a] EXCEPT !.stopped = TRUE] ELSE agents[a]]
      /\ requests' = requests /\ rules' = rules /\ seq' = seq
  BY DEF StopCancels
<1>2. ASSUME NEW a \in Askers
      PROVE  agents'[a] \in Agent /\ agents'[a].phase = agents[a].phase /\ agents'[a].id = agents[a].id
  <2>1. agents[a] \in Agent
    BY DEF MatchInv, MatchType
  <2>2. agents'[a] \in {agents[a], [agents[a] EXCEPT !.stopped = TRUE]}
    BY <1>1
  <2> QED
    BY <2>1, <2>2 DEF Agent
<1>3. agents' \in [Askers -> Agent]
  BY <1>1, <1>2
<1> QED
  BY <1>1, <1>2, <1>3 DEF MatchInv, MatchType, RequestsMatchWaiting

LEMMA MatchStep == MatchInv /\ [ApNext]_apvars => MatchInv'
<1> SUFFICES ASSUME MatchInv, [ApNext]_apvars PROVE MatchInv'
  OBVIOUS
<1>1. ASSUME UNCHANGED <<agents, requests, seq>>, rules' \in SUBSET Rule PROVE MatchInv'
  BY <1>1 DEF MatchInv, MatchType, RequestsMatchWaiting
<1>2. ASSUME NEW a \in Askers, NEW mode \in Modes, BeginRun(a, mode) PROVE MatchInv'
  <2> DEFINE x == [Resting EXCEPT !.phase = "run", !.mode = mode, !.rules = rules]
  <2>1. x \in Agent /\ x.phase # "asked"
    BY DEF Resting, Agent, MatchInv, MatchType
  <2>2. agents[a].phase # "asked" /\ agents' = [agents EXCEPT ![a] = x] /\ UNCHANGED <<rules, requests, seq>>
    BY <1>2 DEF BeginRun
  <2> HIDE DEF x
  <2> QED
    BY <2>1, <2>2, MatchOther
<1>3. ASSUME NEW a \in Askers, EndSubtask(a) \/ EndRun(a) \/ FailRun(a) PROVE MatchInv'
  BY <1>3, AgentTypes, MatchOther DEF EndSubtask, EndRun, FailRun, Free
<1>10. ASSUME NEW a \in Askers, BeginSubtask(a) PROVE MatchInv'
  <2>1. agents[Lead[a]] \in Agent /\ agents[Lead[a]].phase # "asked"
    BY <1>10, ApprovalsAssumption DEF BeginSubtask, MatchInv, MatchType
  <2>2. agents[a].phase # "asked" /\ agents' = [agents EXCEPT ![a] = agents[Lead[a]]] /\ UNCHANGED <<rules, requests, seq>>
    BY <1>10 DEF BeginSubtask
  <2> QED
    BY <2>1, <2>2, MatchOther
<1>4. ASSUME NEW a \in Askers, NEW call \in Call, ToolCall(a, call) PROVE MatchInv'
  <2>1. agents[a].phase = "run" /\ rules' = rules
    BY <1>4 DEF ToolCall, Free
  <2>2. RequestToolApproval(a, call) \/ UNCHANGED <<agents, requests, seq>>
    BY <1>4 DEF ToolCall
  <2> QED
    BY <2>1, <2>2, <1>1, MatchRequest DEF MatchInv, MatchType
<1>5. ASSUME NEW conv \in Runs, StopClears(conv) PROVE MatchInv'
  BY <1>1, <1>5 DEF StopClears, MatchInv, MatchType
<1>6. ASSUME NEW approved \in BOOLEAN, NEW remember \in BOOLEAN, UserAnswers(approved, remember) PROVE MatchInv'
  BY <1>6, MatchResponse DEF UserAnswers
<1>7. ASSUME NEW conv \in Runs, StopRefuses(conv) PROVE MatchInv'
  BY <1>7, MatchResponse DEF StopRefuses
<1>11. ASSUME NEW conv \in Runs, StopCancels(conv) PROVE MatchInv'
  BY <1>11, MatchCancel
<1>12. ASSUME ShowEvent \/ ReloadScreen PROVE MatchInv'
  BY <1>1, <1>12 DEF ShowEvent, ReloadScreen, MatchInv, MatchType
<1>8. ASSUME NEW rule \in UNION RuleSets, CreatePermissionRule(rule) \/ DeletePermissionRule(rule) PROVE MatchInv'
  <2>1. rules' \in SUBSET Rule
    BY <1>8, ApprovalsAssumption DEF CreatePermissionRule, DeletePermissionRule, MatchInv, MatchType
  <2> QED
    BY <2>1, <1>1, <1>8 DEF CreatePermissionRule, DeletePermissionRule
<1>9. ASSUME UNCHANGED apvars PROVE MatchInv'
  BY <1>1, <1>9 DEF apvars, MatchInv, MatchType
<1> QED
  BY <1>2, <1>3, <1>4, <1>5, <1>6, <1>7, <1>8, <1>9, <1>10, <1>11, <1>12 DEF ApNext

(* Whoever waits can be answered: the map holds its request, its own, and   *)
(* no request of someone who no longer waits (commands.rs respond_approval, *)
(* App.tsx handleStop, permissions.rs request_tool_approval).               *)
THEOREM WaitersKnown == ApSpec => []RequestsMatchWaiting
<1>1. MatchInv => RequestsMatchWaiting
  BY DEF MatchInv
<1> QED
  BY MatchInit, MatchStep, <1>1, PTL DEF ApSpec
ApInv == SightInv /\ MatchInv

LEMMA ApInitInv == ApInit => ApInv
BY SightInit, MatchInit DEF ApInv

LEMMA ApStep == ApInv /\ [ApNext]_apvars => ApInv'
BY SightStep, MatchStep DEF ApInv

LEMMA ApMeans == ApInv => ApTypeOK /\ RequestsMatchWaiting /\ WaitingIsVisible
BY SightMeans DEF ApInv, SightInv, SightType, MatchInv, MatchType, Agent, ApTypeOK

-----------------------------------------------------------------------------
(***************************************************************************)
(* Theorem about StreamRetry, for any answers, cut into any pieces, any    *)
(* number of attempts and any guard of two units or more: the screen shows *)
(* the beginning of one answer and nothing of a marker.                    *)
(*                                                                         *)
(* ScreenInv says what the loop's two counters mean: as long as no marker  *)
(* was found, what is shown are the first emitted units of the content,    *)
(* Guard short of its end; a marker not found yet can begin no earlier     *)
(* than one unit before that end (MarkupLater), so it begins after what is *)
(* shown.  And nothing is shown as long as an error is tried again.        *)
(***************************************************************************)
Text == Seq(Units)

(* Where markers begin. *)
Marks(text) == {i \in 1..Len(text) - 2 : SubSeq(text, i, i + 2) = Marker}

-----------------------------------------------------------------------------
LEMMA Least ==
  ASSUME NEW T \in SUBSET Nat, T # {}
  PROVE  \E x \in T : \A y \in T : x <= y
<1> DEFINE R == OpToRel(<, Nat)
<1>1. IsWellFoundedOn(R, Nat)
  BY NatLessThanWellFounded
<1>2. \A x, y \in Nat : y < x => <<y, x>> \in R
  BY DEF OpToRel
<1> HIDE DEF R
<1>3. PICK x \in T : \A y \in T : ~ (<<y, x>> \in R)
  BY <1>1, WFMin
<1>4. \A y \in T : ~(y < x)
  BY <1>2, <1>3
<1> QED
  BY <1>4

(* tool_markup_index finds the first marker. *)
LEMMA MarkupFirst ==
  ASSUME NEW text \in Text
  PROVE  /\ MarkupIndex(text) \in 0..Len(text)
         /\ MarkupIndex(text) = 0 => Marks(text) = {}
         /\ MarkupIndex(text) # 0 =>
              MarkupIndex(text) \in Marks(text) /\ \A j \in Marks(text) : MarkupIndex(text) <= j
<1>1. Len(text) \in Nat /\ Marks(text) \subseteq 1..Len(text) /\ Marks(text) \in SUBSET Nat
  BY DEF Marks, Text
<1>2. MarkupIndex(text) = IF Marks(text) = {} THEN 0 ELSE CHOOSE i \in Marks(text) : \A j \in Marks(text) : i <= j
  BY DEF MarkupIndex, Marks
<1>3. CASE Marks(text) = {}
  BY <1>1, <1>2, <1>3
<1>4. CASE Marks(text) # {}
  <2>1. \E i \in Marks(text) : \A j \in Marks(text) : i <= j
    BY <1>1, <1>4, Least
  <2>2. MarkupIndex(text) \in Marks(text) /\ \A j \in Marks(text) : MarkupIndex(text) <= j
    BY <1>2, <1>4, <2>1
  <2> QED
    BY <1>1, <2>2
<1> QED
  BY <1>3, <1>4

(* A piece of the front of a text is a piece of the text. *)
LEMMA Pieces ==
  ASSUME NEW c \in Text, NEW p \in Text
  PROVE  /\ c \o p \in Text /\ Len(c \o p) = Len(c) + Len(p) /\ Len(c) \in Nat /\ Len(p) \in Nat
         /\ \A i, k \in Nat : 1 <= i /\ k <= Len(c) => SubSeq(c \o p, i, k) = SubSeq(c, i, k)
         /\ \A i \in Nat : 1 <= i /\ i + 2 <= Len(c) => SubSeq(c \o p, i, i + 2) = SubSeq(c, i, i + 2)
<1> USE DEF Text
<1>1. /\ c \o p \in Text /\ Len(c \o p) = Len(c) + Len(p) /\ Len(c) \in Nat /\ Len(p) \in Nat
      /\ \A j \in 1..Len(c) : (c \o p)[j] = c[j] /\ c[j] \in Units
  BY ConcatProperties, ElementOfSeq
<1>2. ASSUME NEW i \in Nat, NEW k \in Nat, 1 <= i, k <= Len(c)
      PROVE  SubSeq(c \o p, i, k) = SubSeq(c, i, k)
  <2>1. \A j \in i..k : j \in 1..Len(c) /\ (c \o p)[j] = c[j] /\ c[j] \in Units
    BY <1>1, <1>2
  <2> DEFINE q == c \o p
             f == SubSeq(q, i, k)
             g == SubSeq(c, i, k)
  <2>a. /\ f \in Seq(Units) /\ Len(f) = IF i <= k THEN k - i + 1 ELSE 0
        /\ \A j \in 1..k - i + 1 : f[j] = q[i + j - 1]
    <3>1. \A j \in i..k : q[j] \in Units
      BY <2>1
    <3> HIDE DEF q
    <3> QED
      BY <3>1, SubSeqProperties
  <2>b. /\ g \in Seq(Units) /\ Len(g) = IF i <= k THEN k - i + 1 ELSE 0
        /\ \A j \in 1..k - i + 1 : g[j] = c[i + j - 1]
    <3>1. \A j \in i..k : c[j] \in Units
      BY <2>1
    <3> QED
      BY <3>1, SubSeqProperties
  <2>3. \A j \in 1..k - i + 1 : i + j - 1 \in i..k
    BY <1>2
  <2> HIDE DEF f, g
  <2>4. Len(f) = Len(g) /\ \A j \in 1..Len(f) : f[j] = g[j]
    BY <1>2, <2>1, <2>a, <2>b, <2>3
  <2>5. f = g
    BY <2>a, <2>b, <2>4, SeqEqual
  <2> QED
    BY <2>5 DEF f, g
<1>3. \A i \in Nat : i + 2 \in Nat
  OBVIOUS
<1> QED
  BY <1>1, <1>2, <1>3

(* What is shown and what is shown next are the front of the text. *)
LEMMA Joined ==
  ASSUME NEW t \in Text, NEW a \in Nat, NEW b \in Nat, a <= b, b <= Len(t)
  PROVE  SubSeq(t, 1, a) \o SubSeq(t, a + 1, b) = SubSeq(t, 1, b)
<1> USE DEF Text
<1> DEFINE f == SubSeq(t, 1, a)
           g == SubSeq(t, a + 1, b)
           h == SubSeq(t, 1, b)
<1>0. Len(t) \in Nat /\ \A j \in 1..Len(t) : t[j] \in Units
  BY ElementOfSeq
<1>1. f \in Seq(Units) /\ Len(f) = a /\ \A j \in 1..a : f[j] = t[j]
  <2>1. \A j \in 1..a : t[j] \in Units
    BY <1>0
  <2>2. f \in Seq(Units) /\ Len(f) = (IF 1 <= a THEN a - 1 + 1 ELSE 0) /\ \A j \in 1..a - 1 + 1 : f[j] = t[1 + j - 1]
    BY <2>1, SubSeqProperties
  <2> QED
    BY <2>2
<1>2. h \in Seq(Units) /\ Len(h) = b /\ \A j \in 1..b : h[j] = t[j]
  <2>1. \A j \in 1..b : t[j] \in Units
    BY <1>0
  <2>2. h \in Seq(Units) /\ Len(h) = (IF 1 <= b THEN b - 1 + 1 ELSE 0) /\ \A j \in 1..b - 1 + 1 : h[j] = t[1 + j - 1]
    BY <2>1, SubSeqProperties
  <2> QED
    BY <2>2
<1>3. g \in Seq(Units) /\ Len(g) = b - a /\ \A j \in 1..b - a : g[j] = t[a + j]
  <2>1. \A j \in a + 1..b : t[j] \in Units
    BY <1>0
  <2>2. /\ g \in Seq(Units) /\ Len(g) = (IF a + 1 <= b THEN b - (a + 1) + 1 ELSE 0)
        /\ \A j \in 1..b - (a + 1) + 1 : g[j] = t[(a + 1) + j - 1]
    BY <2>1, SubSeqProperties
  <2> QED
    BY <2>2
<1> HIDE DEF f, g, h
<1>4. /\ f \o g \in Seq(Units) /\ Len(f \o g) = b
      /\ \A j \in 1..b : (f \o g)[j] = IF j <= a THEN f[j] ELSE g[j - a]
  <2>1. /\ f \o g \in Seq(Units) /\ Len(f \o g) = Len(f) + Len(g)
        /\ \A j \in 1..Len(f) + Len(g) : (f \o g)[j] = IF j <= Len(f) THEN f[j] ELSE g[j - Len(f)]
    <3>1. f \in Seq(Units) /\ g \in Seq(Units)
      BY <1>1, <1>3
    <3> QED
      BY <3>1, ConcatProperties
  <2> QED
    BY <1>1, <1>3, <2>1
<1>5. \A j \in 1..b : (f \o g)[j] = t[j]
  BY <1>1, <1>3, <1>4
<1>6. f \o g = h
  BY <1>2, <1>4, <1>5, SeqEqual
<1> QED
  BY <1>6 DEF f, g, h

(* The front of a text has its length. *)
LEMMA Front ==
  ASSUME NEW t \in Text, NEW a \in Nat, a <= Len(t)
  PROVE  SubSeq(t, 1, a) \in Text /\ Len(SubSeq(t, 1, a)) = a
<1>1. Len(t) \in Nat /\ \A j \in 1..a : t[j] \in Units
  BY ElementOfSeq DEF Text
<1> QED
  BY <1>1, SubSeqProperties DEF Text

-----------------------------------------------------------------------------
(* More text after a marker leaves it the first. *)
LEMMA MarkupStays ==
  ASSUME NEW c \in Text, NEW p \in Text, MarkupIndex(c) # 0
  PROVE  MarkupIndex(c \o p) = MarkupIndex(c)
<1> DEFINE m == MarkupIndex(c)
           w == MarkupIndex(c \o p)
<1>1. /\ c \o p \in Text /\ Len(c \o p) = Len(c) + Len(p) /\ Len(c) \in Nat /\ Len(p) \in Nat
      /\ \A i \in Nat : 1 <= i /\ i + 2 <= Len(c) => SubSeq(c \o p, i, i + 2) = SubSeq(c, i, i + 2)
  BY Pieces
<1>2. m \in Marks(c) /\ \A j \in Marks(c) : m <= j
  BY MarkupFirst
<1>3. m \in Nat /\ 1 <= m /\ m + 2 <= Len(c) /\ SubSeq(c, m, m + 2) = Marker
  BY <1>1, <1>2 DEF Marks
<1>4. m \in Marks(c \o p)
  BY <1>1, <1>3 DEF Marks
<1>5. w \in Marks(c \o p) /\ \A j \in Marks(c \o p) : w <= j
  BY <1>1, <1>4, MarkupFirst
<1>6. w \in Nat /\ 1 <= w /\ w <= m /\ SubSeq(c \o p, w, w + 2) = Marker
  <2>1. w <= m
    BY <1>4, <1>5
  <2>2. w \in 1..Len(c \o p) - 2 /\ SubSeq(c \o p, w, w + 2) = Marker
    BY <1>5 DEF Marks
  <2> QED
    BY <1>1, <2>1, <2>2
<1>7. w \in Marks(c)
  BY <1>1, <1>3, <1>6 DEF Marks
<1> QED
  BY <1>2, <1>3, <1>6, <1>7

(* A marker that was not there before ends in what came after. *)
LEMMA MarkupLater ==
  ASSUME NEW c \in Text, NEW p \in Text, MarkupIndex(c) = 0, MarkupIndex(c \o p) # 0
  PROVE  MarkupIndex(c \o p) + 2 > Len(c)
<1> DEFINE w == MarkupIndex(c \o p)
<1>1. /\ c \o p \in Text /\ Len(c) \in Nat
      /\ \A i \in Nat : 1 <= i /\ i + 2 <= Len(c) => SubSeq(c \o p, i, i + 2) = SubSeq(c, i, i + 2)
  BY Pieces
<1>2. w \in Marks(c \o p) /\ Marks(c) = {}
  BY <1>1, MarkupFirst
<1>3. w \in Nat /\ 1 <= w /\ SubSeq(c \o p, w, w + 2) = Marker
  BY <1>1, <1>2 DEF Marks
<1> QED
  BY <1>1, <1>2, <1>3 DEF Marks

-----------------------------------------------------------------------------
Rounds ==
  [pc : {"idle", "ask", "stream", "backoff", "ok", "error", "cancelled"}, streams : BOOLEAN,
   model : ModelNames \cup {"none"}, attempt : Nat, fallback_used : BOOLEAN,
   content : Text, emitted : Nat, leaked : BOOLEAN, began : BOOLEAN]

Shape ==
  /\ round \in Rounds /\ server \in Text /\ displayed \in Text
  /\ round.pc # "idle" => round.model \in ModelNames

(* Nothing is on the screen as long as the request may be tried again. *)
Blank ==
  /\ round.pc \in {"ask", "backoff"} => displayed = <<>>
  /\ round.pc = "stream" /\ (~round.streams \/ ~round.began) => displayed = <<>>

(* What the counters of a stream mean. *)
Shown ==
  round.pc = "stream" /\ round.streams =>
    IF round.leaked
    THEN MarkupIndex(round.content) # 0 /\ displayed = SubSeq(round.content, 1, MarkupIndex(round.content) - 1)
    ELSE /\ MarkupIndex(round.content) = 0 /\ displayed = SubSeq(round.content, 1, round.emitted)
         /\ round.emitted = 0 \/ round.emitted + Guard <= Len(round.content)

Finished ==
  round.pc = "ok" /\ round.streams =>
    /\ server = <<>>
    /\ displayed = IF MarkupIndex(round.content) = 0 THEN round.content
                   ELSE SubSeq(round.content, 1, MarkupIndex(round.content) - 1)

ScreenInv == Shape /\ Blank /\ Shown /\ Finished

(* A text is its own front, and no text has no marker. *)
LEMMA Fronts ==
  /\ <<>> \in Text /\ Len(<<>>) = 0 /\ MarkupIndex(<<>>) = 0
  /\ \A t \in Text : SubSeq(t, 1, 0) = <<>> /\ SubSeq(t, 1, Len(t)) = t /\ t \o <<>> = t
<1>1. <<>> \in Text /\ Len(<<>>) = 0
  BY DEF Text
<1>2. MarkupIndex(<<>>) = 0
  <2>1. Marks(<<>>) = {}
    BY <1>1 DEF Marks
  <2>2. MarkupIndex(<<>>) # 0 => MarkupIndex(<<>>) \in Marks(<<>>)
    BY <1>1, MarkupFirst
  <2> QED
    BY <2>1, <2>2
<1>3. ASSUME NEW t \in Text
      PROVE  SubSeq(t, 1, 0) = <<>> /\ SubSeq(t, 1, Len(t)) = t /\ t \o <<>> = t
  <2>0. t \in Seq(Units) /\ Len(t) \in Nat /\ \A j \in 1..Len(t) : t[j] \in Units
    BY ElementOfSeq DEF Text
  <2>1. SubSeq(t, 1, 0) \in Seq(Units) /\ Len(SubSeq(t, 1, 0)) = 0
    BY Front, <2>0 DEF Text
  <2>2. SubSeq(t, 1, 0) = <<>>
    BY <2>1, EmptySeq
  <2> DEFINE f == SubSeq(t, 1, Len(t))
  <2>3. /\ f \in Seq(Units) /\ Len(f) = (IF 1 <= Len(t) THEN Len(t) - 1 + 1 ELSE 0)
        /\ \A j \in 1..Len(t) - 1 + 1 : f[j] = t[1 + j - 1]
    BY <2>0, SubSeqProperties
  <2> HIDE DEF f
  <2>4. Len(f) = Len(t) /\ \A j \in 1..Len(f) : f[j] = t[j]
    BY <2>0, <2>3
  <2>5. f = t
    BY <2>0, <2>3, <2>4, SeqEqual
  <2>6. t \o <<>> = t
    BY <2>0, ConcatEmptySeq
  <2> QED
    BY <2>2, <2>5, <2>6 DEF f
<1> QED
  BY <1>1, <1>2, <1>3

(* The front of a front. *)
LEMMA FrontOfFront ==
  ASSUME NEW t \in Text, NEW a \in Nat, NEW b \in Nat, a <= b, b <= Len(t)
  PROVE  SubSeq(SubSeq(t, 1, b), 1, a) = SubSeq(t, 1, a)
<1> DEFINE f == SubSeq(t, 1, b)
           g == SubSeq(t, b + 1, Len(t))
<1>1. Len(t) \in Nat /\ \A j \in 1..Len(t) : t[j] \in Units
  BY ElementOfSeq DEF Text
<1>2. f \in Text /\ Len(f) = b
  BY Front
<1>3. g \in Text
  <2>1. \A j \in b + 1..Len(t) : t[j] \in Units
    BY <1>1
  <2> QED
    BY <1>1, <2>1, SubSeqProperties DEF Text
<1>4. f \o g = t
  <2>0. Len(t) \in Nat /\ Len(t) <= Len(t)
    BY <1>1
  <2>1. f \o g = SubSeq(t, 1, Len(t))
    BY <2>0, Joined, Zenon
  <2> QED
    BY <2>1, Fronts
<1> HIDE DEF f, g
<1>5. \A i, k \in Nat : 1 <= i /\ k <= Len(f) => SubSeq(f \o g, i, k) = SubSeq(f, i, k)
  BY <1>2, <1>3, Pieces
<1>6. SubSeq(t, 1, a) = SubSeq(f, 1, a)
  BY <1>2, <1>4, <1>5
<1> QED
  BY <1>6 DEF f

(* One piece more, with nothing of a marker shown so far. *)
LEMMA NextPiece ==
  ASSUME NEW c \in Text, NEW p \in Text, NEW e \in Nat, MarkupIndex(c) = 0,
         e = 0 \/ e + Guard <= Len(c)
  PROVE  /\ c \o p \in Text /\ ShowUpTo(c \o p) \in Nat /\ ShowUpTo(c \o p) <= Len(c \o p)
         /\ MarkupIndex(c \o p) # 0 => e <= ShowUpTo(c \o p)
         /\ MarkupIndex(c \o p) = 0 =>
               ShowUpTo(c \o p) = 0 \/ ShowUpTo(c \o p) + Guard <= Len(c \o p)
         /\ SubSeq(c \o p, 1, e) = SubSeq(c, 1, e)
         /\ e <= ShowUpTo(c \o p) =>
               SubSeq(c, 1, e) \o SubSeq(c \o p, e + 1, ShowUpTo(c \o p)) = SubSeq(c \o p, 1, ShowUpTo(c \o p))
<1> DEFINE t == c \o p
           m == MarkupIndex(t)
           u == ShowUpTo(t)
<1>1. /\ t \in Text /\ Len(t) = Len(c) + Len(p) /\ Len(c) \in Nat /\ Len(p) \in Nat
      /\ \A i, k \in Nat : 1 <= i /\ k <= Len(c) => SubSeq(t, i, k) = SubSeq(c, i, k)
  BY Pieces
<1>2. m \in 0..Len(t)
  BY <1>1, MarkupFirst
<1>3. m # 0 => m + 2 > Len(c)
  BY MarkupLater
<1>4. u = IF m # 0 THEN m - 1 ELSE IF Len(t) > Guard THEN Len(t) - Guard ELSE 0
  BY DEF ShowUpTo
<1>5. Guard \in Nat /\ Guard >= 2
  BY StreamAssumption
<1> HIDE DEF m, u, t
<1>6. e <= Len(c)
  BY <1>1, <1>5
<1>7. u \in Nat /\ u <= Len(t)
  BY <1>1, <1>2, <1>4, <1>5
<1>8. m # 0 => e <= u
  BY <1>1, <1>2, <1>3, <1>4, <1>5
<1>9. m = 0 => u = 0 \/ u + Guard <= Len(t)
  BY <1>1, <1>4, <1>5
<1>10. SubSeq(t, 1, e) = SubSeq(c, 1, e)
  <2>1. 1 \in Nat /\ 1 <= 1
    OBVIOUS
  <2> QED
    BY <1>1, <1>6, <2>1
<1>11. e <= u => SubSeq(t, 1, e) \o SubSeq(t, e + 1, u) = SubSeq(t, 1, u)
  BY <1>1, <1>7, Joined
<1> QED
  BY <1>1, <1>7, <1>8, <1>9, <1>10, <1>11 DEF m, u, t

-----------------------------------------------------------------------------
LEMMA ScreenInit ==
  ASSUME StrInit
  PROVE  ScreenInv
<1>1. <<>> \in Text
  BY Fronts
<1>2. round = NoRound /\ server = <<>> /\ displayed = <<>>
  BY DEF StrInit
<1>3. NoRound \in Rounds /\ NoRound.pc = "idle"
  BY <1>1 DEF NoRound, Rounds
<1> QED
  BY <1>1, <1>2, <1>3 DEF ScreenInv, Shape, Blank, Shown, Finished

(* Pieces of an answer. *)
LEMMA ScreenDelta ==
  ASSUME ScreenInv, NEW n \in 1..3, Delta(n)
  PROVE  ScreenInv'
<1> DEFINE c == round.content
           p == SubSeq(server, 1, n)
           e == round.emitted
           t == c \o p
           upTo == ShowUpTo(t)
           more == round.streams /\ ~round.leaked /\ upTo > e
<1>1. /\ round \in Rounds /\ server \in Text /\ displayed \in Text /\ round.pc = "stream"
      /\ round.model \in ModelNames /\ c \in Text /\ e \in Nat
  BY DEF ScreenInv, Shape, Rounds, Delta
<1>2. n \in Nat /\ n <= Len(server) /\ Len(server) \in Nat
  BY <1>1 DEF Delta, Text
<1>3. p \in Text
  BY <1>1, <1>2, Front
<1>4. server' \in Text
  <2>1. \A j \in n + 1..Len(server) : server[j] \in Units
    BY <1>1, <1>2, ElementOfSeq DEF Text
  <2>2. SubSeq(server, n + 1, Len(server)) \in Seq(Units)
    BY <1>2, <2>1, SubSeqProperties
  <2> QED
    BY <2>2 DEF Delta, Text
<1>5. t \in Text /\ MarkupIndex(t) \in Nat /\ Len(t) \in Nat
  <2>1. t \in Text
    BY <1>1, <1>3, Pieces
  <2> HIDE DEF t
  <2>2. Len(t) \in Nat
    BY <2>1 DEF Text
  <2> QED
    BY <2>1, <2>2, MarkupFirst
<1>6. /\ displayed' = IF more THEN displayed \o SubSeq(t, e + 1, upTo) ELSE displayed
      /\ round' = [round EXCEPT !.content = t, !.began = @ \/ more,
                     !.leaked = @ \/ MarkupIndex(t) # 0,
                     !.emitted = IF MarkupIndex(t) # 0 THEN Len(t) ELSE IF more THEN upTo ELSE @]
  BY DEF Delta
<1>7. round.streams /\ ~round.leaked =>
        /\ MarkupIndex(c) = 0 /\ displayed = SubSeq(c, 1, e) /\ (e = 0 \/ e + Guard <= Len(c))
  BY <1>1 DEF ScreenInv, Shown
<1>8. round.streams /\ ~round.leaked =>
        /\ upTo \in Nat /\ upTo <= Len(t)
        /\ MarkupIndex(t) # 0 => e <= upTo
        /\ MarkupIndex(t) = 0 => upTo = 0 \/ upTo + Guard <= Len(t)
        /\ SubSeq(t, 1, e) = SubSeq(c, 1, e)
        /\ e <= upTo => SubSeq(c, 1, e) \o SubSeq(t, e + 1, upTo) = SubSeq(t, 1, upTo)
  <2> SUFFICES ASSUME round.streams, ~round.leaked
               PROVE  /\ upTo \in Nat /\ upTo <= Len(t)
                      /\ MarkupIndex(t) # 0 => e <= upTo
                      /\ MarkupIndex(t) = 0 => upTo = 0 \/ upTo + Guard <= Len(t)
                      /\ SubSeq(t, 1, e) = SubSeq(c, 1, e)
                      /\ e <= upTo => SubSeq(c, 1, e) \o SubSeq(t, e + 1, upTo) = SubSeq(t, 1, upTo)
    OBVIOUS
  <2>1. c \in Text /\ p \in Text /\ e \in Nat /\ MarkupIndex(c) = 0 /\ (e = 0 \/ e + Guard <= Len(c))
    BY <1>1, <1>3, <1>7
  <2> HIDE DEF c, p, e
  <2> QED
    BY <2>1, NextPiece
<1>9. MarkupIndex(t) # 0 => upTo = MarkupIndex(t) - 1
  BY DEF ShowUpTo
<1>10. round.streams /\ round.leaked =>
         MarkupIndex(c) # 0 /\ displayed = SubSeq(c, 1, MarkupIndex(c) - 1)
  BY <1>1 DEF ScreenInv, Shown
<1>11. round.streams /\ round.leaked =>
         MarkupIndex(t) = MarkupIndex(c) /\ SubSeq(t, 1, MarkupIndex(t) - 1) = SubSeq(c, 1, MarkupIndex(c) - 1)
  <2> SUFFICES ASSUME round.streams, round.leaked
               PROVE  MarkupIndex(t) = MarkupIndex(c) /\ SubSeq(t, 1, MarkupIndex(t) - 1) = SubSeq(c, 1, MarkupIndex(c) - 1)
    OBVIOUS
  <2>1. MarkupIndex(t) = MarkupIndex(c)
    BY <1>1, <1>3, <1>10, MarkupStays
  <2>2. MarkupIndex(c) \in 0..Len(c)
    BY <1>1, MarkupFirst
  <2>3. \A i, k \in Nat : 1 <= i /\ k <= Len(c) => SubSeq(t, i, k) = SubSeq(c, i, k)
    BY <1>1, <1>3, Pieces
  <2>4. MarkupIndex(c) - 1 \in Nat /\ MarkupIndex(c) - 1 <= Len(c) /\ 1 \in Nat /\ 1 <= 1
    BY <1>1, <1>10, <2>2 DEF Text
  <2>5. SubSeq(t, 1, MarkupIndex(c) - 1) = SubSeq(c, 1, MarkupIndex(c) - 1)
    BY <2>3, <2>4
  <2> QED
    BY <2>1, <2>5
<1> HIDE DEF c, t, p, e, upTo
<1>12. MarkupIndex(t) # 0 => MarkupIndex(t) - 1 \in Nat /\ MarkupIndex(t) - 1 <= Len(t)
  BY <1>5, MarkupFirst
<1>m. more => displayed' = SubSeq(t, 1, upTo)
  <2>1. more => e <= upTo /\ displayed = SubSeq(c, 1, e)
    BY <1>1, <1>7, <1>8
  <2> QED
    BY <1>6, <1>8, <2>1
<1>13. displayed' \in Text
  <2>1. CASE more
    <3>1. SubSeq(t, 1, upTo) \in Text
      BY <1>5, <1>8, <2>1, Front
    <3> QED
      BY <1>m, <2>1, <3>1
  <2>2. CASE ~more
    BY <1>1, <1>6, <2>2
  <2> QED
    BY <2>1, <2>2
<1>14. /\ round'.pc = "stream" /\ round'.streams = round.streams /\ round'.model = round.model
       /\ round'.content = t /\ round'.began = (round.began \/ more)
       /\ round'.leaked = (round.leaked \/ MarkupIndex(t) # 0)
       /\ round'.emitted = IF MarkupIndex(t) # 0 THEN Len(t) ELSE IF more THEN upTo ELSE e
       /\ round'.attempt = round.attempt /\ round'.fallback_used = round.fallback_used
  BY <1>1, <1>6 DEF Rounds, e
<1>15. round' \in Rounds
  <2>1. round.streams \in BOOLEAN /\ round.leaked \in BOOLEAN /\ round.began \in BOOLEAN
    BY <1>1 DEF Rounds
  <2>2. round'.emitted \in Nat
    BY <1>1, <1>5, <1>8, <1>14
  <2>3. round'.leaked \in BOOLEAN /\ round'.began \in BOOLEAN
    BY <2>1, <1>14
  <2> DEFINE em == IF MarkupIndex(t) # 0 THEN Len(t) ELSE IF more THEN upTo ELSE e
             be == round.began \/ more
             le == round.leaked \/ MarkupIndex(t) # 0
  <2>4. em \in Nat /\ be \in BOOLEAN /\ le \in BOOLEAN
    BY <2>1, <2>2, <2>3, <1>14
  <2>5. round' = [round EXCEPT !.content = t, !.began = be, !.leaked = le, !.emitted = em]
    BY <1>1, <1>6 DEF Rounds, e
  <2> HIDE DEF em, be, le
  <2> QED
    BY <1>1, <1>5, <2>4, <2>5 DEF Rounds
<1>16. Shape'
  BY <1>1, <1>4, <1>13, <1>14, <1>15 DEF Shape
<1>17. Blank'
  <2>1. ~round'.streams \/ ~round'.began => ~more /\ (~round.streams \/ ~round.began)
    BY <1>14
  <2>2. ~round.streams \/ ~round.began => displayed = <<>>
    BY <1>1 DEF ScreenInv, Blank
  <2>3. ~more => displayed' = displayed
    BY <1>6
  <2>4. round'.pc = "stream"
    BY <1>14
  <2> QED
    BY <2>1, <2>2, <2>3, <2>4 DEF Blank
<1>18. Shown'
  <2> SUFFICES ASSUME round.streams
               PROVE  IF round'.leaked
                      THEN MarkupIndex(t) # 0 /\ displayed' = SubSeq(t, 1, MarkupIndex(t) - 1)
                      ELSE /\ MarkupIndex(t) = 0 /\ displayed' = SubSeq(t, 1, round'.emitted)
                           /\ round'.emitted = 0 \/ round'.emitted + Guard <= Len(t)
    BY <1>14 DEF Shown
  <2>1. CASE round.leaked
    <3>1. displayed' = displayed /\ round'.leaked
      BY <1>6, <1>14, <2>1 DEF t, c, p
    <3> QED
      BY <1>10, <1>11, <2>1, <3>1 DEF c
  <2>2. CASE ~round.leaked /\ MarkupIndex(t) # 0
    <3>1. round'.leaked
      BY <1>14, <2>2
    <3>2. e <= upTo /\ upTo = MarkupIndex(t) - 1
      BY <1>8, <1>9, <2>2
    <3>3. CASE upTo > e
      BY <1>m, <2>2, <3>1, <3>2, <3>3
    <3>4. CASE ~(upTo > e)
      <4>1. upTo = e
        BY <1>1, <1>8, <2>2, <3>2, <3>4
      <4>2. displayed' = displayed
        BY <1>6, <3>4 DEF more
      <4> QED
        BY <1>7, <1>8, <2>2, <3>1, <3>2, <4>1, <4>2
    <3> QED
      BY <3>3, <3>4
  <2>3. CASE ~round.leaked /\ MarkupIndex(t) = 0
    <3>1. ~round'.leaked
      BY <1>14, <2>3
    <3>2. CASE upTo > e
      <4>1. round'.emitted = upTo
        BY <1>14, <2>3, <3>2
      <4>2. displayed' = SubSeq(t, 1, upTo)
        BY <1>m, <2>3, <3>2
      <4> QED
        BY <1>8, <2>3, <3>1, <4>1, <4>2
    <3>3. CASE ~(upTo > e)
      <4>1. round'.emitted = e
        BY <1>14, <2>3, <3>3
      <4>2. displayed' = SubSeq(t, 1, e)
        BY <1>6, <1>7, <1>8, <2>3, <3>3
      <4>3. e = 0 \/ e + Guard <= Len(t)
        <5>1. Len(t) = Len(c) + Len(p) /\ Len(c) \in Nat /\ Len(p) \in Nat
          BY <1>1, <1>3, Pieces DEF t
        <5>2. e = 0 \/ e + Guard <= Len(c)
          BY <1>7, <2>3
        <5> QED
          BY <1>1, <5>1, <5>2, StreamAssumption
      <4> QED
        BY <2>3, <3>1, <4>1, <4>2, <4>3
    <3> QED
      BY <3>2, <3>3
  <2> QED
    BY <2>1, <2>2, <2>3
<1>19. Finished'
  BY <1>14 DEF Finished
<1> QED
  BY <1>16, <1>17, <1>18, <1>19 DEF ScreenInv

LEMMA ScreenStep ==
  ASSUME ScreenInv, [StrNext]_strvars
  PROVE  ScreenInv'
<1> DEFINE c == round.content
<1>0. /\ round \in Rounds /\ server \in Text /\ displayed \in Text /\ c \in Text
      /\ round.pc # "idle" => round.model \in ModelNames
      /\ round.attempt \in Nat /\ round.emitted \in Nat
  BY DEF ScreenInv, Shape, Rounds
<1>e. <<>> \in Text
  BY Fronts
<1>1. ASSUME NEW model \in ModelNames, NEW streams \in BOOLEAN, BeginRound(model, streams)
      PROVE  ScreenInv'
  <2>1. /\ round' = [NoRound EXCEPT !.pc = "ask", !.streams = streams, !.model = model, !.attempt = 1]
        /\ displayed' = <<>> /\ server' = server
    BY <1>1 DEF BeginRound
  <2>a. NoRound \in Rounds
    BY <1>e DEF NoRound, Rounds
  <2>b. model \in ModelNames \cup {"none"} /\ streams \in {TRUE, FALSE}
    BY <1>1
  <2>2. round' \in Rounds /\ round'.pc = "ask" /\ round'.model = model
    <3>1. CASE streams = TRUE
      BY <2>1, <2>a, <2>b, <3>1 DEF Rounds
    <3>2. CASE streams = FALSE
      BY <2>1, <2>a, <2>b, <3>2 DEF Rounds
    <3> QED
      BY <2>b, <3>1, <3>2
  <2> QED
    BY <1>0, <1>e, <2>1, <2>2 DEF ScreenInv, Shape, Blank, Shown, Finished
<1>2. CASE SendRequest
  <2>1. CASE stop /\ round.streams
    <3>1. round' = [round EXCEPT !.pc = "cancelled"] /\ server' = server /\ displayed' = displayed /\ round.pc = "ask"
      BY <1>2, <2>1 DEF SendRequest, End
    <3>2. round' \in Rounds /\ round'.pc = "cancelled" /\ round'.model = round.model
      BY <1>0, <3>1 DEF Rounds
    <3> QED
      BY <1>0, <3>1, <3>2 DEF ScreenInv, Shape, Blank, Shown, Finished
  <2>2. CASE ~(stop /\ round.streams)
    <3>1. PICK answer \in Answered :
            /\ server' = answer
            /\ round' = [round EXCEPT !.pc = "stream", !.content = <<>>, !.emitted = 0, !.leaked = FALSE, !.began = FALSE]
      BY <1>2, <2>2 DEF SendRequest
    <3>2. round.pc = "ask" /\ displayed' = displayed /\ displayed = <<>>
      BY <1>2 DEF SendRequest, ScreenInv, Blank
    <3>3. answer \in Text
      BY StreamAssumption DEF Text
    <3>4. /\ round' \in Rounds /\ round'.pc = "stream" /\ round'.model = round.model
          /\ round'.content = <<>> /\ round'.emitted = 0 /\ ~round'.leaked
      BY <1>0, <1>e, <3>1 DEF Rounds
    <3>5. MarkupIndex(<<>>) = 0 /\ SubSeq(<<>>, 1, 0) = <<>>
      BY <1>e, Fronts
    <3> QED
      BY <1>0, <3>1, <3>2, <3>3, <3>4, <3>5 DEF ScreenInv, Shape, Blank, Shown, Finished
  <2> QED
    BY <2>1, <2>2
<1>3. CASE Reason
  <2>1. /\ round' = [round EXCEPT !.began = TRUE] /\ server' = server /\ displayed' = displayed
        /\ round.pc = "stream" /\ round.streams /\ ~round.began
    BY <1>3 DEF Reason
  <2>2. /\ round' \in Rounds /\ round'.pc = "stream" /\ round'.model = round.model
        /\ round'.streams = round.streams /\ round'.content = round.content
        /\ round'.emitted = round.emitted /\ round'.leaked = round.leaked
    BY <1>0, <2>1 DEF Rounds
  <2> QED
    BY <1>0, <2>1, <2>2 DEF ScreenInv, Shape, Blank, Shown, Finished
<1>4. CASE StreamEnds
  <2>1. /\ round' = [round EXCEPT !.pc = "ok"] /\ server' = <<>> /\ round.pc = "stream"
        /\ displayed' = IF round.streams /\ ~round.leaked
                        THEN displayed \o SubSeq(c, round.emitted + 1, Len(c)) ELSE displayed
    BY <1>4 DEF StreamEnds, End
  <2>2. /\ round' \in Rounds /\ round'.pc = "ok" /\ round'.model = round.model
        /\ round'.streams = round.streams /\ round'.content = c
    BY <1>0, <2>1 DEF Rounds
  <2>3. CASE round.streams /\ ~round.leaked
    <3>1. /\ MarkupIndex(c) = 0 /\ displayed = SubSeq(c, 1, round.emitted)
          /\ round.emitted = 0 \/ round.emitted + Guard <= Len(c)
      BY <2>1, <2>3 DEF ScreenInv, Shown
    <3>2. round.emitted <= Len(c) /\ Len(c) \in Nat
      <4>1. Len(c) \in Nat
        BY <1>0 DEF Text
      <4> QED
        BY <1>0, <3>1, <4>1, StreamAssumption
    <3>a. Len(c) <= Len(c)
      BY <3>2
    <3>b. SubSeq(c, 1, round.emitted) \o SubSeq(c, round.emitted + 1, Len(c)) = SubSeq(c, 1, Len(c))
      BY <1>0, <3>2, <3>a, Joined, Zenon
    <3>3. displayed' = SubSeq(c, 1, Len(c))
      BY <2>1, <2>3, <3>1, <3>b
    <3>4. displayed' = c
      BY <1>0, <3>3, Fronts
    <3> QED
      BY <1>0, <1>e, <2>1, <2>2, <3>1, <3>4 DEF ScreenInv, Shape, Blank, Shown, Finished
  <2>4. CASE ~(round.streams /\ ~round.leaked)
    <3>1. displayed' = displayed
      BY <2>1, <2>4
    <3>2. round.streams => MarkupIndex(c) # 0 /\ displayed = SubSeq(c, 1, MarkupIndex(c) - 1)
      BY <2>1, <2>4 DEF ScreenInv, Shown
    <3> QED
      BY <1>0, <1>e, <2>1, <2>2, <3>1, <3>2 DEF ScreenInv, Shape, Blank, Shown, Finished
  <2> QED
    BY <2>3, <2>4
<1>5. ASSUME NEW retryable \in BOOLEAN, RequestFails(retryable)
      PROVE  ScreenInv'
  <2> DEFINE again == retryable /\ ~round.began
             next  == Sibling[round.model]
  <2>1. /\ round.pc = "stream" /\ server' = <<>> /\ displayed' = displayed
        /\ round' = IF again /\ round.attempt < MaxAttempts THEN [round EXCEPT !.pc = "backoff"]
                    ELSE IF again /\ round.streams /\ ~round.fallback_used /\ next # "none"
                         THEN [round EXCEPT !.pc = "ask", !.model = next, !.fallback_used = TRUE, !.attempt = 1]
                         ELSE [round EXCEPT !.pc = "error"]
    BY <1>5 DEF RequestFails
  <2>2. again => displayed = <<>>
    BY <2>1 DEF ScreenInv, Blank
  <2>3. CASE again /\ round.attempt < MaxAttempts
    <3>1. round' \in Rounds /\ round'.pc = "backoff" /\ round'.model = round.model
      BY <1>0, <2>1, <2>3 DEF Rounds
    <3> QED
      BY <1>0, <1>e, <2>1, <2>2, <2>3, <3>1 DEF ScreenInv, Shape, Blank, Shown, Finished
  <2>4. CASE ~(again /\ round.attempt < MaxAttempts) /\ again /\ round.streams /\ ~round.fallback_used /\ next # "none"
    <3>1. next \in ModelNames
      BY <1>0, <2>1, <2>4, StreamAssumption
    <3>2. round' = [round EXCEPT !.pc = "ask", !.model = next, !.fallback_used = TRUE, !.attempt = 1]
      BY <2>1, <2>4
    <3> HIDE DEF next
    <3>3. round' \in Rounds /\ round'.pc = "ask" /\ round'.model = next
      BY <1>0, <3>1, <3>2 DEF Rounds
    <3> QED
      BY <1>0, <1>e, <2>1, <2>2, <2>4, <3>1, <3>3 DEF ScreenInv, Shape, Blank, Shown, Finished
  <2>5. CASE /\ ~(again /\ round.attempt < MaxAttempts)
             /\ ~(again /\ round.streams /\ ~round.fallback_used /\ next # "none")
    <3>1. round' = [round EXCEPT !.pc = "error"]
      BY <2>1, <2>5
    <3>2. round' \in Rounds /\ round'.pc = "error" /\ round'.model = round.model
      BY <1>0, <3>1 DEF Rounds
    <3> QED
      BY <1>0, <1>e, <2>1, <3>2 DEF ScreenInv, Shape, Blank, Shown, Finished
  <2> QED
    BY <2>3, <2>4, <2>5
<1>6. CASE BackoffEnds
  <2>1. /\ round' = [round EXCEPT !.pc = "ask", !.attempt = @ + 1] /\ server' = server /\ displayed' = displayed
        /\ round.pc = "backoff"
    BY <1>6 DEF BackoffEnds
  <2> DEFINE once == round.attempt + 1
  <2>a. once \in Nat /\ round' = [round EXCEPT !.pc = "ask", !.attempt = once]
    BY <1>0, <2>1
  <2> HIDE DEF once
  <2>2. round' \in Rounds /\ round'.pc = "ask" /\ round'.model = round.model
    BY <1>0, <2>a DEF Rounds
  <2> QED
    BY <1>0, <2>1, <2>2 DEF ScreenInv, Shape, Blank, Shown, Finished
<1>7. CASE CancelAgent \/ UNCHANGED strvars
  <2>1. UNCHANGED <<round, server, displayed>>
    BY <1>7 DEF CancelAgent, strvars
  <2> QED
    BY <2>1 DEF ScreenInv, Shape, Blank, Shown, Finished
<1>8. CASE CancelWins
  <2>1. /\ round' = [round EXCEPT !.pc = "cancelled"] /\ server' = <<>> /\ displayed' = displayed
        /\ round.pc = "stream"
    BY <1>8 DEF CancelWins, End
  <2>2. round' \in Rounds /\ round'.pc = "cancelled" /\ round'.model = round.model
    BY <1>0, <2>1 DEF Rounds
  <2> QED
    BY <1>0, <1>e, <2>1, <2>2 DEF ScreenInv, Shape, Blank, Shown, Finished
<1>9. ASSUME NEW n \in 1..3, Delta(n)
      PROVE  ScreenInv'
  BY <1>9, ScreenDelta
<1> QED
  BY <1>1, <1>2, <1>3, <1>4, <1>5, <1>6, <1>7, <1>8, <1>9 DEF StrNext

(* What is shown begins the answer as it would be without its marker. *)
LEMMA ScreenMeans ==
  ASSUME ScreenInv
  PROVE  ScreenShowsOneAnswer
<1> DEFINE c == round.content
           answer == c \o server
           m == MarkupIndex(answer)
           clean  == IF m = 0 THEN answer ELSE SubSeq(answer, 1, m - 1)
<1>1. c \in Text /\ server \in Text /\ round.emitted \in Nat /\ round.streams \in BOOLEAN
  BY DEF ScreenInv, Shape, Rounds
<1>2. /\ answer \in Text /\ Len(answer) = Len(c) + Len(server) /\ Len(c) \in Nat /\ Len(server) \in Nat
      /\ \A i, k \in Nat : 1 <= i /\ k <= Len(c) => SubSeq(answer, i, k) = SubSeq(c, i, k)
  BY <1>1, Pieces
<1>3. m \in 0..Len(answer)
  BY <1>2, MarkupFirst
<1>4. Len(clean) = (IF m = 0 THEN Len(answer) ELSE m - 1) /\ clean \in Text
  <2>1. CASE m = 0
    BY <1>2, <2>1
  <2>2. CASE m # 0
    <3>1. m - 1 \in Nat /\ m - 1 <= Len(answer)
      BY <1>2, <1>3, <2>2
    <3> QED
      BY <1>2, <2>2, <3>1, Front
  <2> QED
    BY <2>1, <2>2
(* A front of the content that ends before the marker of the answer. *)
<1>5. ASSUME NEW e \in Nat, e <= Len(c), m # 0 => e <= m - 1
      PROVE  IsPrefix(SubSeq(c, 1, e), clean)
  <2>1. 1 \in Nat /\ 1 <= 1
    OBVIOUS
  <2>2. SubSeq(answer, 1, e) = SubSeq(c, 1, e)
    BY <1>2, <1>5, <2>1
  <2>3. Len(SubSeq(c, 1, e)) = e
    BY <1>1, <1>5, Front
  <2>4. e <= Len(clean)
    BY <1>2, <1>3, <1>4, <1>5
  <2>5. SubSeq(clean, 1, e) = SubSeq(answer, 1, e)
    <3>1. CASE m = 0
      BY <3>1
    <3>2. CASE m # 0
      <4>1. m - 1 \in Nat /\ m - 1 <= Len(answer) /\ e <= m - 1
        BY <1>2, <1>3, <1>5, <3>2
      <4> QED
        BY <1>2, <1>5, <3>2, <4>1, FrontOfFront
    <3> QED
      BY <3>1, <3>2
  <2> HIDE DEF clean
  <2> QED
    BY <2>2, <2>3, <2>4, <2>5 DEF IsPrefix
<1>6. round.pc = "stream" => IsPrefix(displayed, clean)
  <2> SUFFICES ASSUME round.pc = "stream"
               PROVE  IsPrefix(displayed, clean)
    OBVIOUS
  <2>1. CASE ~round.streams
    <3>1. displayed = <<>> /\ SubSeq(c, 1, 0) = <<>>
      BY <1>1, <2>1, Fronts DEF ScreenInv, Blank
    <3>2. 0 \in Nat /\ 0 <= Len(c) /\ (m # 0 => 0 <= m - 1)
      BY <1>2, <1>3
    <3> QED
      BY <1>5, <3>1, <3>2
  <2>2. CASE round.streams /\ ~round.leaked
    <3>1. /\ MarkupIndex(c) = 0 /\ displayed = SubSeq(c, 1, round.emitted)
          /\ round.emitted = 0 \/ round.emitted + Guard <= Len(c)
      BY <2>2 DEF ScreenInv, Shown
    <3>2. m # 0 => m + 2 > Len(c)
      BY <1>1, <3>1, MarkupLater
    <3>3. round.emitted <= Len(c) /\ (m # 0 => round.emitted <= m - 1)
      BY <1>1, <1>2, <1>3, <3>1, <3>2, StreamAssumption
    <3> QED
      BY <1>1, <1>5, <3>1, <3>3
  <2>3. CASE round.streams /\ round.leaked
    <3>1. MarkupIndex(c) # 0 /\ displayed = SubSeq(c, 1, MarkupIndex(c) - 1)
      BY <2>3 DEF ScreenInv, Shown
    <3>2. m = MarkupIndex(c)
      BY <1>1, <3>1, MarkupStays
    <3>3. MarkupIndex(c) \in 0..Len(c)
      BY <1>1, MarkupFirst
    <3>4. MarkupIndex(c) - 1 \in Nat /\ MarkupIndex(c) - 1 <= Len(c)
      BY <1>2, <3>1, <3>3
    <3> QED
      BY <1>5, <3>1, <3>2, <3>4
  <2> QED
    BY <1>1, <2>1, <2>2, <2>3
<1>7. round.pc = "ok" /\ round.streams => displayed = IF MarkupIndex(c) = 0 THEN c ELSE clean
  <2> SUFFICES ASSUME round.pc = "ok", round.streams
               PROVE  displayed = IF MarkupIndex(c) = 0 THEN c ELSE clean
    OBVIOUS
  <2>1. /\ server = <<>>
        /\ displayed = IF MarkupIndex(c) = 0 THEN c ELSE SubSeq(c, 1, MarkupIndex(c) - 1)
    BY DEF ScreenInv, Finished
  <2>2. answer = c
    BY <1>1, <2>1, Fronts
  <2> QED
    BY <2>1, <2>2
<1> HIDE DEF c, clean
<1>8. round.pc \in {"ask", "backoff"} => displayed = <<>>
  BY DEF ScreenInv, Blank
<1> QED
  BY <1>6, <1>7, <1>8 DEF ScreenShowsOneAnswer, c, clean

-----------------------------------------------------------------------------
(* How often it was tried and how far the screen is. *)
Counted ==
  /\ round.attempt <= MaxAttempts /\ (round.pc = "backoff" => round.attempt < MaxAttempts)
  /\ round.emitted <= Len(round.content) /\ stop \in BOOLEAN /\ rounds \in 0..MaxRounds

LEMMA CountedInit == StrInit => Counted
<1> SUFFICES ASSUME StrInit PROVE Counted
  OBVIOUS
<1>1. round.content = <<>> /\ round.attempt = 0 /\ round.pc = "idle" /\ round.emitted = 0 /\ stop = FALSE /\ rounds = 0
  BY DEF StrInit, NoRound
<1>2. Len(round.content) = 0
  BY <1>1, Fronts
<1>3. stop \in BOOLEAN
  BY <1>1, Zenon
<1>4. round.emitted <= Len(round.content) /\ round.attempt <= MaxAttempts /\ rounds \in 0..MaxRounds
  BY <1>1, <1>2, StreamAssumption
<1> QED
  BY <1>1, <1>3, <1>4 DEF Counted

(* A piece more: no more is shown than there is. *)
LEMMA CountedDelta ==
  ASSUME ScreenInv, Counted, NEW n \in 1..3, Delta(n)
  PROVE  Counted'
<1> DEFINE c    == round.content
           text == c \o SubSeq(server, 1, n)
           m    == MarkupIndex(text)
           upTo == ShowUpTo(text)
<1>1. round \in Rounds /\ c \in Text /\ round.emitted \in Nat /\ server \in Text
  BY DEF ScreenInv, Shape, Rounds
<1>2. SubSeq(server, 1, n) \in Text
  BY <1>1, Front DEF Delta
<1>3. Len(text) \in Nat /\ Len(c) \in Nat /\ Len(c) <= Len(text) /\ text \in Text
  <2>1. /\ text \in Text /\ Len(text) = Len(c) + Len(SubSeq(server, 1, n))
        /\ Len(c) \in Nat /\ Len(SubSeq(server, 1, n)) \in Nat
    BY <1>1, <1>2, Pieces
  <2> HIDE DEF text, c
  <2> QED
    BY <2>1
<1>4. /\ round.pc = "stream" /\ UNCHANGED <<stop, rounds>>
      /\ round'.pc = round.pc /\ round'.attempt = round.attempt /\ round'.content = text
      /\ \/ m # 0 /\ round'.emitted = Len(text)
         \/ m = 0 /\ round'.emitted \in {upTo, round.emitted}
  BY <1>1 DEF Delta, Rounds
<1>5. m = 0 => upTo <= Len(text)
  <2> SUFFICES ASSUME m = 0 PROVE upTo <= Len(text)
    OBVIOUS
  <2>1. upTo = IF Len(text) > Guard THEN Len(text) - Guard ELSE 0
    BY DEF ShowUpTo
  <2> HIDE DEF text, upTo
  <2> QED
    BY <1>3, <2>1, StreamAssumption
<1> HIDE DEF text, m, upTo
<1>6. round'.emitted <= Len(round'.content)
  BY <1>1, <1>3, <1>4, <1>5 DEF Counted
<1> QED
  BY <1>4, <1>6 DEF Counted

LEMMA CountedStep ==
  ASSUME ScreenInv, Counted, [StrNext]_strvars
  PROVE  Counted'
<1>1. /\ round \in Rounds /\ round.attempt \in Nat /\ round.emitted \in Nat
      /\ Len(round.content) \in Nat /\ Len(<<>>) = 0
  BY DEF ScreenInv, Shape, Rounds, Text
<1>2. ASSUME NEW model \in ModelNames, NEW streams \in BOOLEAN, BeginRound(model, streams)
      PROVE  Counted'
  <2>1. /\ round' = [NoRound EXCEPT !.pc = "ask", !.streams = streams, !.model = model, !.attempt = 1]
        /\ stop' = FALSE /\ rounds < MaxRounds /\ rounds' = rounds + 1
    BY <1>2 DEF BeginRound
  <2>2. round'.pc = "ask" /\ round'.attempt = 1 /\ round'.emitted = 0 /\ round'.content = <<>>
    BY <2>1 DEF NoRound
  <2>3. Len(round'.content) = 0
    BY <2>2, Fronts
  <2>4. rounds' \in 0..MaxRounds
    BY <2>1, StreamAssumption DEF Counted
  <2>5. stop' \in BOOLEAN
    BY <2>1, Zenon
  <2>6. round'.emitted <= Len(round'.content) /\ round'.attempt <= MaxAttempts
    BY <2>2, <2>3, StreamAssumption
  <2> QED
    BY <2>2, <2>4, <2>5, <2>6 DEF Counted
<1>3. ASSUME SendRequest \/ Reason \/ StreamEnds \/ CancelWins PROVE Counted'
  <2>1. /\ UNCHANGED <<stop, rounds>> /\ round'.attempt = round.attempt /\ round'.pc # "backoff"
        /\ \/ round'.emitted = round.emitted /\ round'.content = round.content
           \/ round'.emitted = 0 /\ round'.content = <<>>
    BY <1>1, <1>3 DEF SendRequest, Reason, StreamEnds, CancelWins, End, Rounds
  <2> QED
    BY <1>1, <2>1 DEF Counted
<1>4. ASSUME NEW retryable \in BOOLEAN, RequestFails(retryable) PROVE Counted'
  <2>1. /\ UNCHANGED <<stop, rounds>> /\ round'.emitted = round.emitted /\ round'.content = round.content
        /\ \/ round.attempt < MaxAttempts /\ round'.pc = "backoff" /\ round'.attempt = round.attempt
           \/ round'.pc = "ask" /\ round'.attempt = 1
           \/ round'.pc = "error" /\ round'.attempt = round.attempt
    BY <1>1, <1>4 DEF RequestFails, Rounds
  <2> QED
    BY <1>1, <2>1, StreamAssumption DEF Counted
<1>5. CASE BackoffEnds
  <2>1. /\ UNCHANGED <<stop, rounds>> /\ round'.emitted = round.emitted /\ round'.content = round.content
        /\ round.pc = "backoff" /\ round'.pc = "ask" /\ round'.attempt = round.attempt + 1
    BY <1>1, <1>5 DEF BackoffEnds, Rounds
  <2> QED
    BY <1>1, <2>1, StreamAssumption DEF Counted
<1>6. CASE CancelAgent \/ UNCHANGED strvars
  BY <1>6 DEF CancelAgent, strvars, Counted
<1>7. ASSUME NEW n \in 1..3, Delta(n) PROVE Counted'
  BY <1>7, CountedDelta
<1> QED
  BY <1>2, <1>3, <1>4, <1>5, <1>6, <1>7 DEF StrNext

StrInv == ScreenInv /\ Counted

LEMMA StrInitInv == StrInit => StrInv
BY ScreenInit, CountedInit DEF StrInv

LEMMA StrStep == StrInv /\ [StrNext]_strvars => StrInv'
BY ScreenStep, CountedStep DEF StrInv

LEMMA StrMeans == StrInv => StrTypeOK /\ ScreenShowsOneAnswer
<1>1. StrInv => StrTypeOK
  BY DEF StrInv, ScreenInv, Shape, Rounds, Counted, StrTypeOK
<1> QED
  BY <1>1, ScreenMeans DEF StrInv

(* Whatever the answers, the pieces they come in, the errors, the attempts *)
(* and the moment of a stop, what is on the screen begins one answer and   *)
(* has nothing of a marker, and of an answer received whole nothing else   *)
(* is missing (stream_round_with_retry, chat_completion_stream).           *)
THEOREM ScreenIsOneAnswer == StrSpec => []ScreenShowsOneAnswer
<1> QED
  BY StrInitInv, StrStep, StrMeans, PTL DEF StrSpec
=============================================================================
