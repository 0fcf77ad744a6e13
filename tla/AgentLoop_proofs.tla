------------------------- MODULE AgentLoop_proofs -------------------------
(***************************************************************************)
(* Theorems about AgentLoop, for every value of its constants.             *)
(* With no assumption: the type invariant, the bound on what happens after a *)
(* stop, the notes of a request, the order of queued messages, the results a *)
(* run keeps.  When no id is declared twice (ReusableIds is empty): every  *)
(* request is well paired, every snapshot can be resumed, every call is    *)
(* written ahead.  When no summary is made: effects stay in the snapshot.  *)
(* With both: the snapshot implements the ledger of calls, and a request says *)
(* of each call what became of it.                                         *)
(*                                                                         *)
(* RequestPaired is not inductive: between the declaration of a round's calls *)
(* and the last of their results, and in the snapshot at almost any time, a *)
(* declaration is open.  PairInv says what holds then: the wire and the    *)
(* snapshot are closable (WireHistory_proofs), they declare used ids only, *)
(* and the calls of the open declaration are exactly those not yet handled *)
(* (todo), the one being handled (cur) and those answered.  The invariants *)
(* after it (AheadInv, ChatInv, EffectInv, NoteInv, LedgerInv, AnswerInv,  *)
(* SteerInv, StopInv) each stand before the theorem they serve.            *)
(***************************************************************************)
EXTENDS AgentLoop, WireHistory_proofs

(* The stages in which the calls of a round are handled. *)
CallStages == {"tools", "batch", "approval", "shown", "asking", "exec", "landed"}

(* Message i of the wire declares the calls of the round being handled. *)
Open(i) ==
  /\ IsCall(wire.hist, i)
  /\ OnlyTools(wire.hist, i)
  /\ todo \subseteq wire.hist[i].ids
  /\ cur # NoCall => cur \in wire.hist[i].ids
  /\ \A c \in wire.hist[i].ids : c \in todo \/ c = cur \/ ResultAfter(wire.hist, i, c)

PairInv ==
  /\ Plain(chat)
  /\ Closable(snap.hist) /\ Closable(wire.hist)
  /\ Declared(snap.hist) \subseteq used /\ Declared(wire.hist) \subseteq used
  /\ pc \in {"top", "summarizing", "stream", "checking"} => WellPaired(wire.hist)
  /\ pc \in CallStages => \E i \in 1..Len(wire.hist) : Open(i)

-----------------------------------------------------------------------------
(* What the operations on the wire return. *)

(* The messages the code writes are messages. *)
LEMMA MessageTypes ==
  /\ \A b \in Bodies, N \in SUBSET Notes : UserMsg(b, N) \in Msg
  /\ \A S \in SUBSET CallIds : CallMsg(S) \in Msg
  /\ \A c \in CallIds, b \in Bodies : ToolMsg(c, b) \in Msg
  /\ \A b \in Bodies : Reply(b) \in Msg
  /\ Texts \subseteq Bodies /\ Steers \subseteq Bodies /\ Answers \subseteq Bodies
  /\ OwnBodies \subseteq Bodies
<1>1. Texts \subseteq Bodies /\ Steers \subseteq Bodies /\ Answers \subseteq Bodies
      /\ OwnBodies \subseteq Bodies /\ "none" \in Bodies
  BY DEF Bodies, OwnBodies
<1> QED
  BY <1>1 DEF UserMsg, CallMsg, ToolMsg, Reply, Msg

(* wire_messages.push adds one message and keeps the others. *)
LEMMA PushProperties ==
  ASSUME NEW w \in Wire, NEW m \in Msg
  PROVE  /\ Push(w, m) \in Wire
         /\ Len(Push(w, m).hist) = Len(w.hist) + 1
         /\ Extends(w.hist, Push(w, m).hist)
         /\ Push(w, m).hist[Len(w.hist) + 1].role = m.role
         /\ Push(w, m).hist[Len(w.hist) + 1].ids = m.ids
<1>1. w.hist \in Seq(Msg) /\ w.tail \in SUBSET Notes /\ w.memo \in SUBSET CallIds
  BY DEF Wire
<1>2. PICK n : n = [m EXCEPT !.notes = @ \cup w.tail]
  OBVIOUS
<1>3. n \in Msg /\ n.role = m.role /\ n.ids = m.ids
  BY <1>1, <1>2 DEF Msg
<1>4. PICK g : g = Append(w.hist, n)
  OBVIOUS
<1>5. /\ g \in Seq(Msg) /\ Len(g) = Len(w.hist) + 1 /\ Extends(w.hist, g)
      /\ g[Len(w.hist) + 1] = n
  BY <1>1, <1>3, <1>4, AppendExtends
<1>6. Push(w, m) = [w EXCEPT !.hist = g, !.tail = {}]
  BY <1>2, <1>4 DEF Push
<1>7. Push(w, m) \in Wire /\ Push(w, m).hist = g
  BY <1>5, <1>6 DEF Wire
<1> QED
  BY <1>3, <1>5, <1>7

(* ... and loses neither a result nor a note. *)
LEMMA PushKeeps ==
  ASSUME NEW w \in Wire, NEW m \in Msg
  PROVE  /\ Begins(w.hist, Push(w, m).hist)
         /\ Push(w, m).hist[Len(w.hist) + 1].body = m.body
         /\ SentNotes(Push(w, m)) = SentNotes(w) \cup m.notes
<1>1. w.hist \in Seq(Msg) /\ w.tail \in SUBSET Notes /\ Len(w.hist) \in Nat
  BY DEF Wire
<1>2. PICK n : n = [m EXCEPT !.notes = @ \cup w.tail]
  OBVIOUS
<1>3. n \in Msg /\ n.body = m.body /\ n.notes = m.notes \cup w.tail
  BY <1>1, <1>2 DEF Msg
<1>4. PICK g : g = Append(w.hist, n)
  OBVIOUS
<1>5. /\ g \in Seq(Msg) /\ Len(g) = Len(w.hist) + 1 /\ g[Len(w.hist) + 1] = n
      /\ \A i \in 1..Len(w.hist) : g[i] = w.hist[i]
  BY <1>1, <1>3, <1>4, AppendProperties
<1>6. Push(w, m) = [w EXCEPT !.hist = g, !.tail = {}]
  BY <1>2, <1>4 DEF Push
<1>7. Push(w, m) \in Wire /\ Push(w, m).hist = g /\ Push(w, m).tail = {}
  <2>1. w = [memo |-> w.memo, hist |-> w.hist, tail |-> w.tail]
    BY DEF Wire
  <2> QED
    BY <1>6, <2>1, PushProperties
<1>8. Begins(w.hist, g)
  BY <1>1, <1>5 DEF Begins
<1>9. \A x : x \in SentNotes(Push(w, m)) <=> x \in SentNotes(w) \cup m.notes
  <2>1. Len(w.hist) + 1 \in 1..Len(g) /\ \A i \in 1..Len(g) : i \in 1..Len(w.hist) \/ i = Len(w.hist) + 1
    BY <1>1, <1>5
  <2>2. \A i \in 1..Len(w.hist) : i \in 1..Len(g)
    BY <1>1, <1>5
  <2>3. \A x : (\E i \in 1..Len(g) : x \in g[i].notes)
               <=> x \in n.notes \/ \E i \in 1..Len(w.hist) : x \in w.hist[i].notes
    BY <1>5, <2>1, <2>2
  <2> QED
    BY <1>3, <1>7, <2>3, NotesAt
<1> QED
  BY <1>3, <1>5, <1>7, <1>8, <1>9

(* The wire before any message: nothing to pair. *)
LEMMA EmptyWireType ==
  /\ EmptyWire \in Wire /\ EmptyWire.hist = <<>>
  /\ Closable(EmptyWire.hist) /\ WellPaired(EmptyWire.hist) /\ Declared(EmptyWire.hist) = {}
<1>1. EmptyWire \in Wire /\ EmptyWire.hist = <<>>
  BY DEF EmptyWire, Wire
<1>2. PICK h \in Seq(Msg) : h = EmptyWire.hist /\ Len(h) = 0
  BY <1>1, EmptySeq
<1>3. Closable(h) /\ WellPaired(h) /\ Declared(h) = {}
  BY <1>2, PlainIsPaired
<1> QED
  BY <1>1, <1>2, <1>3

(* Draining the queue adds user messages only. *)
LEMMA InjectedProperties ==
  ASSUME wire \in Wire, steer \in Seq(Steers)
  PROVE  /\ Injected \in Wire
         /\ Extends(wire.hist, Injected.hist)
         /\ \A j \in 1..Len(Injected.hist) :
              j > Len(wire.hist) => Injected.hist[j].role = "user"
         /\ Begins(wire.hist, Injected.hist) /\ Keeps(wire.hist, Injected.hist)
         /\ SentNotes(Injected) = SentNotes(wire)
         /\ Len(Injected.hist) = Len(wire.hist) + Len(steer)
         /\ \A i \in 1..Len(steer) : Injected.hist[Len(wire.hist) + i].body = steer[i]
<1>1. wire.hist \in Seq(Msg) /\ wire.tail \in SUBSET Notes /\ wire.memo \in SUBSET CallIds
  BY DEF Wire
<1>2. CASE steer = <<>>
  <2>1. Injected = wire
    BY <1>2 DEF Injected
  <2>2. Len(steer) = 0 /\ Len(wire.hist) \in Nat
    BY <1>1, <1>2, EmptySeq
  <2> QED
    BY <1>1, <2>1, <2>2 DEF Extends, Begins, Keeps
<1>3. CASE steer # <<>>
  <2> DEFINE note(i) == IF i = 1 THEN wire.tail ELSE {}
  <2>1. PICK q : q = [i \in DOMAIN steer |-> UserMsg(steer[i], note(i))]
    OBVIOUS
  <2>2. Len(steer) \in Nat /\ DOMAIN steer = 1..Len(steer)
    OBVIOUS
  <2>3. \A i \in 1..Len(steer) : steer[i] \in Bodies
    BY ElementOfSeq, MessageTypes
  <2>4. \A i \in 1..Len(steer) : UserMsg(steer[i], note(i)) \in Msg
    <3>1. \A i \in 1..Len(steer) : note(i) \in SUBSET Notes
      BY <1>1
    <3> HIDE DEF note
    <3> QED
      BY <2>3, <3>1, MessageTypes
  <2>5. /\ q \in [1..Len(steer) -> Msg]
        /\ \A i \in 1..Len(steer) : q[i] = UserMsg(steer[i], note(i))
    <3> HIDE DEF note
    <3> QED
      BY <2>1, <2>2, <2>4
  <2>6. q \in Seq(Msg) /\ Len(q) = Len(steer)
    BY <2>2, <2>5, SeqDef, LenProperties
  <2>7. \A i \in 1..Len(q) : q[i].role = "user"
    BY <2>5, <2>6 DEF UserMsg
  <2>8. PICK g : g = wire.hist \o q
    OBVIOUS
  <2>9. /\ g \in Seq(Msg) /\ Extends(wire.hist, g)
        /\ \A j \in 1..Len(g) : j > Len(wire.hist) =>
              j - Len(wire.hist) \in 1..Len(q) /\ g[j] = q[j - Len(wire.hist)]
    BY <1>1, <2>6, <2>8, ConcatExtends
  <2>10. Injected = [wire EXCEPT !.hist = g, !.tail = {}]
    BY <1>3, <2>1, <2>8 DEF Injected
  <2>11. Injected \in Wire /\ Injected.hist = g /\ Injected.tail = {}
    BY <2>9, <2>10 DEF Wire
  <2>12. /\ \A i \in 1..Len(wire.hist) : i \in 1..Len(g) /\ g[i] = wire.hist[i]
         /\ \A i \in 1..Len(q) : Len(wire.hist) + i \in 1..Len(g) /\ g[Len(wire.hist) + i] = q[i]
    BY <1>1, <2>6, <2>8, ConcatProperties
  <2>13. Begins(wire.hist, Injected.hist) /\ Keeps(wire.hist, Injected.hist)
    BY <2>9, <2>11, <2>12 DEF Begins, Extends, Keeps
  <2>14. 1 \in 1..Len(q) /\ q[1].notes = wire.tail
         /\ \A i \in 1..Len(q) : q[i].notes \subseteq wire.tail
    <3>1. 1 \in 1..Len(q)
      BY <1>3, <2>2, <2>6, EmptySeq
    <3>2. \A i \in 1..Len(q) : q[i].notes = note(i)
      <4> HIDE DEF note
      <4> QED
        BY <2>5, <2>6 DEF UserMsg
    <3> QED
      BY <3>1, <3>2
  <2>15. ASSUME NEW x PROVE x \in SentNotes(Injected) <=> x \in SentNotes(wire)
    <3>1. ASSUME NEW j \in 1..Len(g), x \in g[j].notes PROVE x \in SentNotes(wire)
      <4>1. CASE j \in 1..Len(wire.hist)
        BY <2>12, <3>1, <4>1, NotesAt
      <4>2. CASE j > Len(wire.hist)
        <5>1. x \in wire.tail
          BY <2>9, <2>14, <3>1, <4>2
        <5> QED
          BY <5>1, NotesAt
      <4>3. Len(wire.hist) \in Nat /\ Len(g) \in Nat
        BY <1>1, <2>9
      <4> QED
        BY <4>1, <4>2, <4>3
    <3>2. ASSUME x \in SentNotes(wire) PROVE \E j \in 1..Len(g) : x \in g[j].notes
      <4>1. CASE x \in wire.tail
        BY <2>12, <2>14, <4>1
      <4>2. CASE \E i \in 1..Len(wire.hist) : x \in wire.hist[i].notes
        BY <2>12, <4>2
      <4> QED
        BY <3>2, <4>1, <4>2, NotesAt
    <3> QED
      BY <2>11, <3>1, <3>2, NotesAt
  <2>16. Len(g) = Len(wire.hist) + Len(steer)
    <3>1. PICK h \in Seq(Msg) : h = wire.hist
      BY <1>1
    <3>2. Len(h \o q) = Len(h) + Len(q)
      BY <2>6, ConcatProperties
    <3> QED
      BY <2>6, <2>8, <3>1, <3>2
  <2>17. \A i \in 1..Len(steer) : g[Len(wire.hist) + i].body = steer[i]
    BY <2>5, <2>6, <2>12 DEF UserMsg
  <2> QED
    BY <2>7, <2>9, <2>11, <2>13, <2>15, <2>16, <2>17
<1> QED
  BY <1>2, <1>3

(* The messages a run starts from carry the note of its turn. *)
LEMMA FreshWire ==
  ASSUME chat \in Seq(Msg), turn \in Turns,
         NEW f, f = [EmptyWire EXCEPT !.hist = [chat EXCEPT ![Len(chat)].notes = TurnNotes(turn)]]
  PROVE  /\ f \in Wire /\ (Plain(chat) => Plain(f.hist))
         /\ f.tail = {} /\ Len(f.hist) = Len(chat)
         /\ \A i \in 1..Len(chat) : f.hist[i].role = chat[i].role /\ f.hist[i].body = chat[i].body
         /\ Len(chat) > 0 /\ (\A i \in 1..Len(chat) : chat[i].notes = {}) =>
              f.hist[Len(chat)].notes = TurnNotes(turn) /\ SentNotes(f) = TurnNotes(turn)
<1>1. TurnNotes(turn) \in SUBSET Notes
  BY LoopAssumption DEF TurnNotes
<1>2. PICK N \in SUBSET Notes : N = TurnNotes(turn)
  BY <1>1
<1>3. PICK h : h = [chat EXCEPT ![Len(chat)].notes = N]
  OBVIOUS
<1>4. Len(chat) \in Nat /\ DOMAIN chat = 1..Len(chat) /\ \A i \in 1..Len(chat) : chat[i] \in Msg
  BY ElementOfSeq
<1>5. \A m \in Msg : /\ [m EXCEPT !.notes = N] \in Msg
                     /\ [m EXCEPT !.notes = N].role = m.role
                     /\ [m EXCEPT !.notes = N].ids = m.ids
                     /\ [m EXCEPT !.notes = N].body = m.body
                     /\ [m EXCEPT !.notes = N].notes = N
  BY DEF Msg
<1>6. /\ DOMAIN h = 1..Len(chat)
      /\ \A i \in 1..Len(chat) : h[i] = IF i = Len(chat) THEN [chat[i] EXCEPT !.notes = N] ELSE chat[i]
  BY <1>3, <1>4
<1>7. \A i \in 1..Len(chat) : /\ h[i] \in Msg /\ h[i].role = chat[i].role
                              /\ h[i].ids = chat[i].ids /\ h[i].body = chat[i].body
  <2> SUFFICES ASSUME NEW i \in 1..Len(chat)
               PROVE  /\ h[i] \in Msg /\ h[i].role = chat[i].role
                      /\ h[i].ids = chat[i].ids /\ h[i].body = chat[i].body
    OBVIOUS
  <2>1. PICK m \in Msg : m = chat[i]
    BY <1>4
  <2>2. h[i] = [m EXCEPT !.notes = N] \/ h[i] = m
    BY <1>6, <2>1
  <2> QED
    BY <1>5, <2>1, <2>2
<1>8. h \in [1..Len(chat) -> Msg]
  BY <1>3, <1>4, <1>6, <1>7
<1>9. h \in Seq(Msg) /\ Len(h) = Len(chat)
  BY <1>4, <1>8, SeqDef, LenProperties
<1>10. f = [memo |-> {}, hist |-> h, tail |-> {}]
  BY <1>2, <1>3 DEF EmptyWire
<1>11. f \in Wire /\ f.hist = h
  BY ONLY <1>9, <1>10 DEF Wire
<1>12. Plain(chat) => Plain(h)
  BY <1>7, <1>9 DEF Plain
<1>13. f.tail = {}
  BY ONLY <1>10
<1>14. ASSUME Len(chat) > 0, \A i \in 1..Len(chat) : chat[i].notes = {}
       PROVE  h[Len(chat)].notes = N /\ SentNotes(f) = N
  <2>1. Len(chat) \in 1..Len(chat)
    BY <1>4, <1>14
  <2>2. h[Len(chat)].notes = N
    <3>1. PICK m \in Msg : m = chat[Len(chat)]
      BY <1>4, <2>1
    <3>2. h[Len(chat)] = [m EXCEPT !.notes = N]
      BY <1>6, <2>1, <3>1
    <3> QED
      BY <1>5, <3>2
  <2>3. \A i \in 1..Len(chat) : i # Len(chat) => h[i].notes = {}
    BY <1>6, <1>14
  <2>4. \A x : (\E i \in 1..Len(h) : x \in h[i].notes) <=> x \in N
    BY <1>9, <2>1, <2>2, <2>3
  <2>5. \A x : x \in SentNotes(f) <=> x \in N
    BY <1>11, <1>13, <2>4, NotesAt
  <2> QED
    BY <2>2, <2>5
<1> QED
  BY <1>2, <1>7, <1>9, <1>11, <1>12, <1>13, <1>14

-----------------------------------------------------------------------------
(* Types. *)

Outcomes == {"closing", "failing"}
Replies  == Answers \cup {"none", "partial"}

(* The stages named in the actions are stages. *)
LEMMA StageTypes ==
  /\ Outcomes \subseteq Stages
  /\ CallStages \subseteq Stages
  /\ {"idle", "sending", "plan", "top", "summarizing", "stream", "checking"} \subseteq Stages
BY DEF Outcomes, CallStages, Stages, PlanStages, ToolStages

(* TypeOK needs to know when a call is being handled. *)
Handling == cur # NoCall <=> pc \in CallStages \ {"tools", "batch"}

TypeInv == TypeOK /\ Handling

(* Any way out of a run keeps the types. *)
LEMMA FinishType ==
  ASSUME TypeInv, NEW from, NEW outcome \in Outcomes, NEW text \in Replies,
         Finish(from, outcome, text)
  PROVE  TypeInv'
<1>1. EmptyWire \in Wire /\ outcome \in Stages /\ outcome \notin CallStages
  BY EmptyWireType, StageTypes DEF Outcomes, CallStages
<1> QED
  BY <1>1, EmptySeq DEF TypeInv, TypeOK, Handling, Finish, Step, DropRun, UserFrame, NoPersist, Replies

(* Any way to start a run keeps the types. *)
LEMMA StartRunType ==
  ASSUME TypeInv, NEW t \in Turns, StartRun(t), chat' \in Seq(Msg),
         snap' \in Wire, landed' \subseteq CallIds, torn' \subseteq CallIds
  PROVE  TypeInv'
<1>1. count' \in [sends : Nat, crashes : Nat, feedback : Nat]
  <2>1. count \in [sends : Nat, crashes : Nat, feedback : Nat]
    BY DEF TypeInv, TypeOK
  <2>2. count' = [[count EXCEPT !.sends = @ + 1] EXCEPT !.feedback = 0]
    BY DEF StartRun
  <2>3. PICK c : c = [count EXCEPT !.sends = @ + 1]
    OBVIOUS
  <2>4. c \in [sends : Nat, crashes : Nat, feedback : Nat]
    BY <2>1, <2>3
  <2> QED
    BY <2>2, <2>3, <2>4
<1> QED
  BY <1>1, StageTypes DEF TypeInv, TypeOK, Handling, CallStages, StartRun

(* persist_wire writes a wire or leaves the snapshot. *)
LEMMA PersistType ==
  ASSUME TypeInv, NEW w \in Wire, Persist(w)
  PROVE  snap' \in Wire /\ lost' \in Nat
BY DEF TypeInv, TypeOK, Persist

(* Recording a call's result keeps the types. *)
LEMMA RecordType ==
  ASSUME TypeInv, NEW from \in CallStages \ {"tools", "batch"}, Record(from)
  PROVE  TypeInv'
<1>1. cur \in CallIds
  BY DEF TypeInv, TypeOK, Handling, Record, Step
<1>2. wire' \in Wire
  BY <1>1, MessageTypes, PushProperties DEF TypeInv, TypeOK, Record, OwnBodies
<1>3. snap' \in Wire /\ lost' \in Nat
  BY <1>2, PersistType DEF Record
<1> QED
  BY <1>2, <1>3 DEF TypeInv, TypeOK, Handling, Record, Step, ToolFrame, UserFrame,
                    CallStages, Stages, ToolStages

(* One step per action of the user. *)
LEMMA UserType ==
  ASSUME TypeInv, User
  PROVE  TypeInv'
<1> USE DEF TypeInv, TypeOK, Handling, CallStages
<1>1. ASSUME NEW b \in Texts, NEW t \in Turns, Send(b, t)
      PROVE  TypeInv'
  <2>1. UserMsg(b, {}) \in Msg
    BY MessageTypes
  <2>2. chat' \in Seq(Msg)
    BY <1>1, <2>1, AppendProperties DEF Send
  <2> QED
    BY <1>1, <2>2, StartRunType DEF Send
<1>2. ASSUME Regenerate
      PROVE  TypeInv'
  <2>1. chat' \in Seq(Msg)
    <3>1. Len(chat) \in Nat /\ \A i \in 1..Len(chat) : chat[i] \in Msg
      BY ElementOfSeq
    <3>2. SubSeq(chat, 1, Len(chat) - 1) \in Seq(Msg)
      BY <3>1, SubSeqProperties
    <3> QED
      BY <1>2, <3>2 DEF Regenerate, Front
  <2>2. NormalTurn \in Turns /\ EmptyWire \in Wire
    BY EmptyWireType DEF NormalTurn, Turns
  <2> QED
    BY <1>2, <2>1, <2>2, StartRunType DEF Regenerate, ForgetSnapshot
<1>3. ASSUME NEW i \in DOMAIN chat, Rewind(i)
      PROVE  TypeInv'
  <2>1. chat' \in Seq(Msg)
    <3>1. Len(chat) \in Nat /\ i \in 1..Len(chat) /\ \A k \in 1..Len(chat) : chat[k] \in Msg
      BY ElementOfSeq
    <3>2. SubSeq(chat, 1, i - 1) \in Seq(Msg)
      BY <3>1, SubSeqProperties
    <3> QED
      BY <1>3, <3>2 DEF Rewind
  <2> QED
    BY <1>3, <2>1, EmptyWireType DEF Rewind, ForgetSnapshot, run
<1>4. ASSUME CompactHistory
      PROVE  TypeInv'
  <2>1. Reply("digest") \in Msg
    BY MessageTypes DEF OwnBodies
  <2> QED
    BY <1>4, <2>1, EmptyWireType DEF CompactHistory, ForgetSnapshot, run
<1>5. ASSUME NEW s \in Steers, QueueSteering(s)
      PROVE  TypeInv'
  <2>1. steer' \in Seq(Steers)
    BY <1>5, AppendProperties DEF QueueSteering
  <2>2. queuedLog' \in Seq([body : Steers, run : Nat])
    <3>1. [body |-> s, run |-> count.sends] \in [body : Steers, run : Nat]
      OBVIOUS
    <3> QED
      BY <1>5, <3>1, AppendProperties DEF QueueSteering
  <2> QED
    BY <1>5, <2>1, <2>2 DEF QueueSteering, effects
<1>6. ASSUME CancelAgent
      PROVE  TypeInv'
  BY <1>6 DEF CancelAgent, effects
<1>7. ASSUME Approve
      PROVE  TypeInv'
  BY <1>7, StageTypes DEF Approve, Step, ToolFrame, UserFrame, NoPersist, CallStages
<1>8. ASSUME Reject
      PROVE  TypeInv'
  <2>1. cur \in CallIds
    BY <1>8 DEF Reject, Step
  <2>2. Push(wire, ToolMsg(cur, "denied")) \in Wire
    BY <2>1, MessageTypes, PushProperties DEF OwnBodies
  <2> QED
    BY <1>8, <2>1, <2>2, StageTypes DEF Reject, Step, Deny, ToolFrame, UserFrame, NoPersist, CallStages
<1>9. ASSUME AnswerQuestion
      PROVE  TypeInv'
  BY <1>9, RecordType DEF AnswerQuestion
<1> QED
  BY <1>1, <1>2, <1>3, <1>4, <1>5, <1>6, <1>7, <1>8, <1>9 DEF User

(* One step per action of the model's endpoint. *)
LEMMA EndpointType ==
  ASSUME TypeInv, Endpoint
  PROVE  TypeInv'
<1> USE DEF TypeInv, TypeOK, Handling, CallStages, Stages, ToolStages, PlanStages
<1>1. "closing" \in Outcomes /\ "failing" \in Outcomes /\ "partial" \in Replies
      /\ Answers \subseteq Replies
  BY DEF Outcomes, Replies
<1>2. ASSUME NEW a \in Answers, PlanAnswer(a)
      PROVE  TypeInv'
  BY <1>1, <1>2, FinishType DEF PlanAnswer
<1>3. ASSUME NEW a \in Answers, StreamFinal(a)
      PROVE  TypeInv'
  BY <1>1, <1>3, FinishType DEF StreamFinal
<1>4. ASSUME PlanFails
      PROVE  TypeInv'
  BY <1>1, <1>4, FinishType DEF PlanFails
<1>5. ASSUME StreamFails
      PROVE  TypeInv'
  BY <1>1, <1>5, FinishType DEF StreamFails
<1>6. ASSUME BudgetStops
      PROVE  TypeInv'
  BY <1>1, <1>6, FinishType DEF BudgetStops
<1>7. ASSUME NEW S \in SUBSET CallIds \ {{}}, StreamCalls(S)
      PROVE  TypeInv'
  <2>1. wire' \in Wire
    BY <1>7, MessageTypes, PushProperties DEF StreamCalls
  <2>2. snap' \in Wire /\ lost' \in Nat
    BY <1>7, <2>1, PersistType DEF StreamCalls
  <2> QED
    BY <1>7, <2>1, <2>2 DEF StreamCalls, Step, UserFrame
<1>8. ASSUME Feedback
      PROVE  TypeInv'
  <2>1. UserMsg("feedback", {}) \in Msg
    BY MessageTypes DEF OwnBodies
  <2>2. wire' \in Wire
    BY <1>8, <2>1, PushProperties DEF Feedback
  <2>3. count' \in [sends : Nat, crashes : Nat, feedback : Nat]
    <3>1. count \in [sends : Nat, crashes : Nat, feedback : Nat]
      OBVIOUS
    <3>2. count' = [count EXCEPT !.feedback = @ + 1]
      BY <1>8 DEF Feedback
    <3> QED
      BY <3>1, <3>2
  <2> QED
    BY <1>8, <2>2, <2>3 DEF Feedback, Step, UserFrame, NoPersist
<1>9. ASSUME BeginChecks
      PROVE  TypeInv'
  BY <1>9 DEF BeginChecks, Step, ToolFrame, UserFrame, NoPersist
<1> QED
  BY <1>2, <1>3, <1>4, <1>5, <1>6, <1>7, <1>8, <1>9 DEF Endpoint

(* One step per action of the run itself. *)
LEMMA LocalType ==
  ASSUME TypeInv, Local
  PROVE  TypeInv'
<1> USE DEF TypeInv, TypeOK, Handling, CallStages, Stages, ToolStages, PlanStages
<1>1. "closing" \in Outcomes /\ "failing" \in Outcomes /\ "partial" \in Replies
  BY DEF Outcomes, Replies
<1>2. ASSUME FailEarly
      PROVE  TypeInv'
  BY <1>2 DEF FailEarly, Step, UserFrame, NoPersist
<1>3. ASSUME Register
      PROVE  TypeInv'
  <2>1. PICK f : f = [EmptyWire EXCEPT !.hist = [chat EXCEPT ![Len(chat)].notes = TurnNotes(turn)]]
    OBVIOUS
  <2>2. wire' = IF turn.plan THEN EmptyWire ELSE AssembleResume(snap, f)
    BY <1>3, <2>1 DEF Register
  <2>3. f \in Wire
    BY <2>1, FreshWire
  <2>4. wire' \in Wire
    BY <2>2, <2>3, AssembleProperties, EmptyWireType
  <2> QED
    BY <1>3, <2>4 DEF Register, Step, UserFrame, NoPersist
<1>4. ASSUME PlanStopped \/ TopStopped \/ SummaryFails \/ StreamStopped \/ LoopTripped
             \/ ToolsStopped \/ RoundStuck
      PROVE  TypeInv'
  BY <1>1, <1>4, FinishType
  DEF PlanStopped, TopStopped, SummaryFails, StreamStopped, LoopTripped, ToolsStopped, RoundStuck
<1>5. ASSUME BeginRound \/ BeginSummary
      PROVE  TypeInv'
  <2>1. wire' \in Wire
    BY <1>5, InjectedProperties DEF BeginRound, BeginSummary
  <2>2. snap' \in Wire /\ lost' \in Nat
    BY <1>5, <2>1, PersistType DEF BeginRound, BeginSummary, NoPersist
  <2> QED
    BY <1>5, <2>1, <2>2, EmptySeq DEF BeginRound, BeginSummary, Step, RoundFrame, UserFrame
<1>6. ASSUME SummaryDone
      PROVE  TypeInv'
  <2>1. wire' \in Wire
    BY <1>6, SummarizeProperties DEF SummaryDone
  <2>2. snap' \in Wire /\ lost' \in Nat
    BY <1>6, <2>1, PersistType DEF SummaryDone
  <2> QED
    BY <1>6, <2>1, <2>2 DEF SummaryDone, Step, RoundFrame, UserFrame
<1>7. ASSUME ParallelBatch
      PROVE  TypeInv'
  <2>1. PICK g : g = wire.hist \o ToolMsgs(todo, "result")
    OBVIOUS
  <2>2. g \in Seq(Msg)
    BY <2>1, ToolMsgsProperties, ConcatProperties, MessageTypes DEF OwnBodies, Wire
  <2>3. wire' \in Wire
    BY <1>7, <2>1, <2>2 DEF ParallelBatch, Wire
  <2>4. snap' \in Wire /\ lost' \in Nat
    BY <1>7, <2>3, PersistType DEF ParallelBatch
  <2> QED
    BY <1>7, <2>3, <2>4 DEF ParallelBatch, Step, ToolFrame, UserFrame
<1>8. ASSUME NEW c \in CallIds, NEW to \in {"exec", "approval", "asking"}, Begin(c, to)
      PROVE  TypeInv'
  BY <1>8, LoopAssumption DEF Begin, Step, ToolFrame, UserFrame, NoPersist
<1>9. ASSUME NEW c \in CallIds, BeginDenied(c)
      PROVE  TypeInv'
  <2>1. Push(wire, ToolMsg(c, "denied")) \in Wire
    BY MessageTypes, PushProperties DEF OwnBodies
  <2> QED
    BY <1>9, <2>1 DEF BeginDenied, Deny, Step, ToolFrame, UserFrame, NoPersist
<1>10. ASSUME ShowApproval
       PROVE  TypeInv'
  BY <1>10 DEF ShowApproval, Step, ToolFrame, UserFrame, NoPersist
<1>11. ASSUME Execute
       PROVE  TypeInv'
  BY <1>11 DEF Execute, Step, ToolFrame, UserFrame, NoPersist
<1>12. ASSUME RecordResult \/ RecordFailure
       PROVE  TypeInv'
  BY <1>12, RecordType DEF RecordResult, RecordFailure
<1>13. ASSUME RoundDone
       PROVE  TypeInv'
  BY <1>13 DEF RoundDone, Step, ToolFrame, UserFrame, NoPersist
<1>14. ASSUME ChatDone
       PROVE  TypeInv'
  <2>1. Reply(reply) \in Msg
    BY MessageTypes DEF OwnBodies
  <2> QED
    BY <1>14, <2>1, AppendProperties DEF ChatDone, Step, CloseFrame, effects
<1>15. ASSUME ChatFailed
       PROVE  TypeInv'
  <2>1. Reply(reply) \in Msg
    BY MessageTypes DEF OwnBodies
  <2>2. chat' \in Seq(Msg)
    <3>1. chat' = chat \/ chat' = Append(chat, Reply(reply))
      BY <1>15 DEF ChatFailed
    <3>2. chat \in Seq(Msg)
      OBVIOUS
    <3>3. Append(chat, Reply(reply)) \in Seq(Msg)
      BY <2>1, <3>2, AppendProperties
    <3> QED
      BY ONLY <3>1, <3>2, <3>3
  <2> QED
    BY <1>15, <2>2 DEF ChatFailed, Step, CloseFrame, effects
<1>16. ASSUME BeginBatch
       PROVE  TypeInv'
  BY <1>16 DEF BeginBatch, Step, ToolFrame, UserFrame, NoPersist
<1>17. ASSUME HookRefuses
       PROVE  TypeInv'
  <2>1. cur \in CallIds
    BY <1>17 DEF HookRefuses, Step
  <2>2. Push(wire, ToolMsg(cur, "denied")) \in Wire
    BY <2>1, MessageTypes, PushProperties DEF OwnBodies
  <2> QED
    BY <1>17, <2>1, <2>2 DEF HookRefuses, Deny, Step, ToolFrame, UserFrame, NoPersist
<1> QED
  BY <1>2, <1>3, <1>4, <1>5, <1>6, <1>7, <1>8, <1>9, <1>10, <1>11, <1>12, <1>13, <1>14, <1>15,
     <1>16, <1>17
  DEF Local

(* The end of the process keeps the types. *)
LEMMA CrashType ==
  ASSUME TypeInv, Crash
  PROVE  TypeInv'
<1>1. count' \in [sends : Nat, crashes : Nat, feedback : Nat]
  <2>1. count \in [sends : Nat, crashes : Nat, feedback : Nat]
    BY DEF TypeInv, TypeOK
  <2>2. count' = [count EXCEPT !.crashes = @ + 1]
    BY DEF Crash
  <2> QED
    BY ONLY <2>1, <2>2
<1>2. NormalTurn \in Turns /\ EmptyWire \in Wire
  BY EmptyWireType DEF NormalTurn, Turns
<1>3. torn' \subseteq CallIds
  BY DEF TypeInv, TypeOK, Handling, CallStages, Crash
<1> QED
  BY <1>1, <1>2, <1>3, StageTypes, EmptySeq
  DEF TypeInv, TypeOK, Handling, CallStages, Crash, DropRun

(* Every step keeps the types; InitType is where they start. *)
LEMMA TypeStep ==
  ASSUME TypeInv, [Next]_vars
  PROVE  TypeInv'
<1>1. CASE UNCHANGED vars
  BY <1>1 DEF TypeInv, TypeOK, Handling, vars, run, effects
<1> QED
  BY <1>1, UserType, EndpointType, LocalType, CrashType DEF Next

(* The initial state: an empty conversation. *)
LEMMA InitType ==
  ASSUME Init
  PROVE  TypeInv
BY EmptyWireType, EmptySeq
DEF Init, TypeInv, TypeOK, Handling, CallStages, Stages, NormalTurn, Turns

(* TypeOK holds always: whatever is resumed, compacted, denied, lost or cut *)
(* short, the wire and the snapshot are lists of messages, and the calls    *)
(* they name are calls that were declared.                                  *)
THEOREM TypeCorrect == Spec => []TypeOK
<1>1. Init => TypeInv
  BY InitType
<1>2. TypeInv /\ [Next]_vars => TypeInv'
  BY TypeStep
<1>3. TypeInv => TypeOK
  BY DEF TypeInv
<1> QED
  BY <1>1, <1>2, <1>3, PTL DEF Spec

-----------------------------------------------------------------------------
(* Pairs. *)

(* The stages in which a request may be made of the wire. *)
RequestStages == {"top", "summarizing", "stream", "checking"}

(* The messages table gains a message without calls. *)
LEMMA PlainAppend ==
  ASSUME NEW h \in Seq(Msg), NEW m \in Msg, Plain(h), m.role # "tool", m.ids = {}
  PROVE  Plain(Append(h, m))
BY AppendProperties DEF Plain

(* The messages table is cut. *)
LEMMA PlainPrefix ==
  ASSUME NEW h \in Seq(Msg), NEW n \in 1..Len(h), Plain(h)
  PROVE  Plain(SubSeq(h, 1, n - 1))
<1>1. \A i \in 1..(n - 1) : h[i] \in Msg
  BY ElementOfSeq
<1>2. /\ Len(SubSeq(h, 1, n - 1)) = n - 1
      /\ \A i \in 1..(n - 1) : SubSeq(h, 1, n - 1)[i] = h[i]
  BY <1>1, SubSeqProperties
<1> QED
  BY <1>2 DEF Plain

(* A step that touches neither the wire nor the handling of calls. *)
LEMMA QuietPairs ==
  ASSUME PairInv, UNCHANGED <<wire, todo, cur, used>>,
         Plain(chat'),
         snap' = snap \/ snap' = EmptyWire \/ snap' = wire,
         pc' \in CallStages => pc \in CallStages,
         pc' \in RequestStages => pc \in RequestStages
  PROVE  PairInv'
<1>1. Closable(snap'.hist) /\ Declared(snap'.hist) \subseteq used
  BY EmptyWireType DEF PairInv
<1> QED
  BY <1>1 DEF PairInv, Open, RequestStages

(* A step that drops the run. *)
LEMMA DroppedPairs ==
  ASSUME PairInv, wire' = EmptyWire, UNCHANGED <<chat, snap, used>>,
         pc' \notin CallStages
  PROVE  PairInv'
BY EmptyWireType DEF PairInv

(* Any way out of a run drops the wire and keeps the snapshot. *)
LEMMA FinishPairs ==
  ASSUME PairInv, NEW from, NEW outcome \in Outcomes, NEW text,
         Finish(from, outcome, text)
  PROVE  PairInv'
BY DroppedPairs DEF Finish, Step, DropRun, UserFrame, NoPersist, Outcomes, CallStages

(* What persist_wire writes is as closable as the wire. *)
LEMMA PersistPairs ==
  ASSUME PairInv, Persist(wire'), Closable(wire'.hist), Declared(wire'.hist) \subseteq used',
         used \subseteq used'
  PROVE  Closable(snap'.hist) /\ Declared(snap'.hist) \subseteq used'
BY DEF PairInv, Persist

(* A call that is being handled gets its result. *)
LEMMA AnswerPairs ==
  ASSUME TypeInv, PairInv,
         NEW i \in 1..Len(wire.hist), Open(i),
         NEW c \in CallIds, c \in wire.hist[i].ids, NEW b \in Bodies,
         wire' = Push(wire, ToolMsg(c, b)),
         cur \in {NoCall, c}, cur' = NoCall,
         todo' \subseteq todo, \A d \in todo : d \in todo' \/ d = c
  PROVE  /\ Closable(wire'.hist) /\ Declared(wire'.hist) = Declared(wire.hist)
         /\ i \in 1..Len(wire'.hist) /\ Open(i)'
<1>1. PICK h \in Seq(Msg) : h = wire.hist
  BY DEF TypeInv, TypeOK, Wire
<1>2. ToolMsg(c, b) \in Msg /\ ToolMsg(c, b).role = "tool" /\ ToolMsg(c, b).ids = {c}
  BY MessageTypes DEF ToolMsg
<1>3. PICK g : g = wire'.hist
  OBVIOUS
<1>4. /\ g \in Seq(Msg) /\ Len(g) = Len(h) + 1 /\ Extends(h, g)
      /\ g[Len(h) + 1].role = "tool" /\ g[Len(h) + 1].ids = {c}
  <2>1. wire \in Wire
    BY DEF TypeInv, TypeOK
  <2> QED
    BY <1>1, <1>2, <1>3, <2>1, PushProperties DEF Wire
<1>5. Len(h) \in Nat /\ i \in 1..Len(h) /\ h[i].ids \subseteq CallIds
  <2>1. \A m \in Msg : m.ids \subseteq CallIds
    BY DEF Msg
  <2> QED
    BY <1>1, <2>1, ElementOfSeq
<1>6. /\ Closable(h) /\ IsCall(h, i) /\ OnlyTools(h, i) /\ c \in h[i].ids
      /\ todo \subseteq h[i].ids
      /\ \A d \in h[i].ids : d \in todo \/ d = cur \/ ResultAfter(h, i, d)
  BY <1>1 DEF PairInv, Open
<1>7. \A j \in 1..Len(g) : j > Len(h) =>
         IsTool(g, j) /\ \E d \in CallIds \cap h[i].ids : g[j].ids = {d}
  BY <1>4, <1>5, <1>6 DEF IsTool
<1>8. Closable(g) /\ IsCall(g, i) /\ OnlyTools(g, i) /\ Declared(g) = Declared(h)
  BY <1>4, <1>5, <1>6, <1>7, AddResults
<1>9. i \in 1..Len(g) /\ g[i].ids = h[i].ids
  BY <1>4, <1>5 DEF Extends
<1>10. ResultAfter(g, i, c)
  <2>1. Follows(g, i, Len(h) + 1)
    BY <1>4, <1>5, <1>8 DEF Follows, OnlyTools, IsTool
  <2> QED
    BY <1>4, <1>5, <2>1 DEF ResultAfter
<1>11. \A d \in h[i].ids : ResultAfter(h, i, d) => ResultAfter(g, i, d)
  BY <1>4, <1>5, Prefix DEF ResultAfter, Extends
<1>12. \A d \in g[i].ids : d \in todo' \/ ResultAfter(g, i, d)
  <2> SUFFICES ASSUME NEW d \in h[i].ids, d \notin todo', d # c
               PROVE  ResultAfter(g, i, d)
    BY <1>9, <1>10
  <2>1. d # cur /\ d \notin todo
    BY <1>5, LoopAssumption
  <2> QED
    BY <1>6, <1>11, <2>1
<1>13. Open(i)'
  BY <1>3, <1>6, <1>8, <1>9, <1>12 DEF Open
<1> QED
  BY <1>1, <1>3, <1>8, <1>9, <1>13

(* A round whose calls are all handled leaves a well paired wire. *)
LEMMA HandledPairs ==
  ASSUME TypeInv, PairInv, NEW i \in 1..Len(wire.hist), Open(i), todo = {}, cur = NoCall
  PROVE  WellPaired(wire.hist)
<1>1. PICK h \in Seq(Msg) : h = wire.hist
  BY DEF TypeInv, TypeOK, Wire
<1>2. i \in 1..Len(h) /\ h[i].ids \subseteq CallIds
  <2>1. \A m \in Msg : m.ids \subseteq CallIds
    BY DEF Msg
  <2> QED
    BY <1>1, <2>1, ElementOfSeq
<1>3. AnsweredAt(h, i)
  BY <1>1, <1>2, LoopAssumption DEF Open, AnsweredAt
<1>4. Closable(h) /\ IsCall(h, i) /\ OnlyTools(h, i)
  BY <1>1 DEF PairInv, Open
<1>5. Extends(h, h) /\ Len(h) \in Nat
  BY DEF Extends
<1>6. \A j \in 1..Len(h) : ~ (j > Len(h))
  BY <1>5
<1> QED
  BY <1>1, <1>2, <1>3, <1>4, <1>5, <1>6, AddResults

(* The result of the call being handled is recorded. *)
LEMMA RecordPairs ==
  ASSUME TypeInv, PairInv, NEW from \in CallStages \ {"tools", "batch"}, Record(from)
  PROVE  PairInv'
<1>1. cur \in CallIds
  BY DEF TypeInv, TypeOK, Handling, Record, Step
<1>2. PICK i \in 1..Len(wire.hist) : Open(i)
  BY DEF PairInv, Record, Step
<1>3. cur \in wire.hist[i].ids
  BY <1>1, <1>2, LoopAssumption DEF Open
<1>4. /\ Closable(wire'.hist) /\ Declared(wire'.hist) = Declared(wire.hist)
      /\ i \in 1..Len(wire'.hist) /\ Open(i)'
  <2>1. "result" \in Bodies /\ wire' = Push(wire, ToolMsg(cur, "result"))
        /\ cur' = NoCall /\ todo' = todo
    BY MessageTypes DEF Record, OwnBodies
  <2> QED
    BY <1>1, <1>2, <1>3, <2>1, AnswerPairs
<1>5. Plain(chat') /\ used' = used /\ pc' = "tools" /\ Declared(wire'.hist) \subseteq used'
  BY <1>4 DEF Record, Step, ToolFrame, UserFrame, PairInv
<1>6. Closable(snap'.hist) /\ Declared(snap'.hist) \subseteq used'
  BY <1>4, <1>5, PersistPairs DEF Record
<1> QED
  BY <1>4, <1>5, <1>6 DEF PairInv

(* A call is denied: its reason is its result. *)
LEMMA DenyPairs ==
  ASSUME TypeInv, PairInv, NEW c \in CallIds, Deny(c), pc \in CallStages, pc' = "tools",
         cur \in {NoCall, c}, c \in todo \cup {cur},
         todo' \subseteq todo, \A d \in todo : d \in todo' \/ d = c
  PROVE  PairInv'
<1>1. PICK i \in 1..Len(wire.hist) : Open(i)
  BY DEF PairInv
<1>2. c \in wire.hist[i].ids
  BY <1>1, LoopAssumption DEF Open
<1>3. /\ Closable(wire'.hist) /\ Declared(wire'.hist) = Declared(wire.hist)
      /\ i \in 1..Len(wire'.hist) /\ Open(i)'
  <2>1. "denied" \in Bodies /\ wire' = Push(wire, ToolMsg(c, "denied")) /\ cur' = NoCall
    BY MessageTypes DEF Deny, OwnBodies
  <2> QED
    BY <1>1, <1>2, <2>1, AnswerPairs
<1> QED
  BY <1>3 DEF PairInv, Deny, ToolFrame, UserFrame, NoPersist

(* The steps of the user keep the pairs. *)
LEMMA UserPairs ==
  ASSUME TypeInv, PairInv, User
  PROVE  PairInv'
<1>1. ASSUME NEW b \in Texts, NEW t \in Turns, Send(b, t)
      PROVE  PairInv'
  <2>1. Plain(chat')
    <3>1. UserMsg(b, {}) \in Msg /\ UserMsg(b, {}).role = "user" /\ UserMsg(b, {}).ids = {}
      BY MessageTypes DEF UserMsg
    <3> QED
      BY <1>1, <3>1, PlainAppend DEF Send, PairInv, TypeInv, TypeOK
  <2> QED
    BY <1>1, <2>1, QuietPairs DEF Send, StartRun, CallStages, RequestStages
<1>2. ASSUME Regenerate
      PROVE  PairInv'
  <2>1. Plain(chat')
    <3>1. Len(chat) \in Nat
      BY DEF TypeInv, TypeOK
    <3> QED
      BY <1>2, <3>1, PlainPrefix DEF Regenerate, PairInv, TypeInv, TypeOK, Front
  <2> QED
    BY <1>2, <2>1, QuietPairs
    DEF Regenerate, ForgetSnapshot, StartRun, CallStages, RequestStages
<1>3. ASSUME NEW i \in DOMAIN chat, Rewind(i)
      PROVE  PairInv'
  <2>1. Plain(chat')
    <3>1. i \in 1..Len(chat)
      BY DEF TypeInv, TypeOK
    <3> QED
      BY <1>3, <3>1, PlainPrefix DEF Rewind, PairInv, TypeInv, TypeOK
  <2> QED
    BY <1>3, <2>1, QuietPairs DEF Rewind, ForgetSnapshot, run
<1>4. ASSUME CompactHistory
      PROVE  PairInv'
  <2>1. Plain(chat')
    BY <1>4 DEF CompactHistory, Plain, Reply
  <2> QED
    BY <1>4, <2>1, QuietPairs DEF CompactHistory, ForgetSnapshot, run
<1>5. ASSUME (\E s \in Steers : QueueSteering(s)) \/ CancelAgent
      PROVE  PairInv'
  BY <1>5, QuietPairs DEF QueueSteering, CancelAgent, PairInv
<1>6. ASSUME Approve
      PROVE  PairInv'
  BY <1>6, QuietPairs
  DEF Approve, Step, ToolFrame, UserFrame, NoPersist, PairInv, CallStages, RequestStages
<1>7. ASSUME Reject
      PROVE  PairInv'
  <2>1. cur \in CallIds /\ pc \in CallStages
    BY <1>7 DEF Reject, Step, TypeInv, TypeOK, Handling, CallStages
  <2> QED
    BY <1>7, <2>1, DenyPairs DEF Reject, Step
<1>8. ASSUME AnswerQuestion
      PROVE  PairInv'
  BY <1>8, RecordPairs DEF AnswerQuestion, CallStages
<1> QED
  BY <1>1, <1>2, <1>3, <1>4, <1>5, <1>6, <1>7, <1>8 DEF User

(* The answers of the model keep the pairs when it reuses no id. *)
LEMMA EndpointPairs ==
  ASSUME TypeInv, PairInv, Endpoint, ReusableIds = {}
  PROVE  PairInv'
<1>1. ASSUME NEW a \in Answers, PlanAnswer(a) \/ StreamFinal(a)
      PROVE  PairInv'
  BY <1>1, FinishPairs DEF PlanAnswer, StreamFinal, Outcomes
<1>2. ASSUME PlanFails \/ StreamFails \/ BudgetStops
      PROVE  PairInv'
  BY <1>2, FinishPairs DEF PlanFails, StreamFails, BudgetStops, Outcomes
<1>3. ASSUME NEW S \in SUBSET CallIds \ {{}}, StreamCalls(S)
      PROVE  PairInv'
  <2>1. PICK h \in Seq(Msg) : h = wire.hist
    BY DEF TypeInv, TypeOK, Wire
  <2>2. PICK g : g = wire'.hist
    OBVIOUS
  <2>3. CallMsg(S) \in Msg /\ CallMsg(S).role = "assistant" /\ CallMsg(S).ids = S
    BY MessageTypes DEF CallMsg
  <2>4. /\ g \in Seq(Msg) /\ Len(g) = Len(h) + 1 /\ Extends(h, g)
        /\ g[Len(h) + 1].role = "assistant" /\ g[Len(h) + 1].ids = S
    <3>1. wire \in Wire /\ wire' = Push(wire, CallMsg(S))
      BY <1>3 DEF TypeInv, TypeOK, StreamCalls
    <3> QED
      BY <2>1, <2>2, <2>3, <3>1, PushProperties DEF Wire
  <2>5. Closable(h) /\ WellPaired(h) /\ Declared(h) \subseteq used
    BY <1>3, <2>1 DEF PairInv, StreamCalls, Step
  <2>6. S \cap Declared(h) = {}
    BY <1>3, <2>5 DEF StreamCalls
  <2>7. /\ Closable(g) /\ IsCall(g, Len(g)) /\ OnlyTools(g, Len(g))
        /\ Declared(g) = Declared(h) \cup S
    BY <2>4, <2>5, <2>6, AddCalls DEF IsCall
  <2>8. used' = used \cup S /\ Declared(g) \subseteq used'
    BY <1>3, <2>5, <2>7 DEF StreamCalls
  <2>9. Closable(snap'.hist) /\ Declared(snap'.hist) \subseteq used'
    BY <1>3, <2>2, <2>7, <2>8, PersistPairs DEF StreamCalls
  <2>10. Len(g) \in 1..Len(wire'.hist) /\ Open(Len(g))'
    <3>1. todo' = S /\ cur' = NoCall
      BY <1>3 DEF StreamCalls, TypeInv, Handling, Step, CallStages
    <3>2. Len(g) \in 1..Len(g) /\ g[Len(g)].ids = S
      BY <2>1, <2>4
    <3> QED
      BY <2>2, <2>7, <3>1, <3>2 DEF Open
  <2> QED
    BY <1>3, <2>2, <2>7, <2>8, <2>9, <2>10
    DEF PairInv, StreamCalls, Step, UserFrame, RequestStages
<1>4. ASSUME Feedback
      PROVE  PairInv'
  <2>1. PICK h \in Seq(Msg) : h = wire.hist
    BY DEF TypeInv, TypeOK, Wire
  <2>2. PICK g : g = wire'.hist
    OBVIOUS
  <2>3. UserMsg("feedback", {}) \in Msg /\ UserMsg("feedback", {}).role = "user"
    BY MessageTypes DEF UserMsg, OwnBodies
  <2>4. /\ g \in Seq(Msg) /\ Len(g) = Len(h) + 1 /\ Extends(h, g)
        /\ g[Len(h) + 1].role = "user"
    <3>1. wire \in Wire /\ wire' = Push(wire, UserMsg("feedback", {}))
      BY <1>4 DEF TypeInv, TypeOK, Feedback
    <3> QED
      BY <2>1, <2>2, <2>3, <3>1, PushProperties DEF Wire
  <2>5. Closable(h) /\ WellPaired(h) /\ Declared(h) \subseteq used
    BY <1>4, <2>1 DEF PairInv, Feedback, Step
  <2>6. \A j \in 1..Len(g) : j > Len(h) => g[j].role = "user"
    <3>1. Len(h) \in Nat
      BY <2>1
    <3> QED
      BY <2>4, <3>1
  <2>7. Closable(g) /\ WellPaired(g) /\ Declared(g) = Declared(h)
    BY <2>4, <2>5, <2>6, AddPlain
  <2> QED
    BY <1>4, <2>2, <2>5, <2>7 DEF PairInv, Feedback, Step, UserFrame, NoPersist, CallStages
<1>5. ASSUME BeginChecks
      PROVE  PairInv'
  BY <1>5, QuietPairs
  DEF BeginChecks, Step, ToolFrame, UserFrame, NoPersist, PairInv, CallStages, RequestStages
<1> QED
  BY <1>1, <1>2, <1>3, <1>4, <1>5 DEF Endpoint

(* The steps of the run itself keep the pairs. *)
LEMMA LocalPairs ==
  ASSUME TypeInv, PairInv, Local
  PROVE  PairInv'
<1>1. ASSUME FailEarly \/ ShowApproval \/ Execute \/ BeginBatch
      PROVE  PairInv'
  <2>1. Plain(chat)
    BY DEF PairInv
  <2> QED
    BY <1>1, <2>1, QuietPairs
    DEF FailEarly, ShowApproval, Execute, BeginBatch, Step, ToolFrame, UserFrame, NoPersist,
        CallStages, RequestStages
<1>2. ASSUME Register
      PROVE  PairInv'
  <2>1. PICK f : f = [EmptyWire EXCEPT !.hist = [chat EXCEPT ![Len(chat)].notes = TurnNotes(turn)]]
    OBVIOUS
  <2>2. wire' = IF turn.plan THEN EmptyWire ELSE AssembleResume(snap, f)
    BY <1>2, <2>1 DEF Register
  <2>3. f \in Wire /\ Plain(f.hist)
    BY <2>1, FreshWire DEF TypeInv, TypeOK, PairInv
  <2>4. /\ Closable(AssembleResume(snap, f).hist) /\ WellPaired(AssembleResume(snap, f).hist)
        /\ Declared(AssembleResume(snap, f).hist) \subseteq Declared(snap.hist)
    BY <2>3, AssembleProperties DEF TypeInv, TypeOK, PairInv
  <2>5. /\ Closable(wire'.hist) /\ WellPaired(wire'.hist)
        /\ Declared(wire'.hist) \subseteq used
    BY <2>2, <2>4, EmptyWireType DEF PairInv
  <2>6. pc' \notin CallStages
    BY <1>2 DEF Register, Step, CallStages
  <2> QED
    BY <1>2, <2>5, <2>6 DEF PairInv, Register, UserFrame, NoPersist
<1>3. ASSUME PlanStopped \/ TopStopped \/ SummaryFails \/ StreamStopped \/ LoopTripped
             \/ ToolsStopped \/ RoundStuck
      PROVE  PairInv'
  BY <1>3, FinishPairs
  DEF PlanStopped, TopStopped, SummaryFails, StreamStopped, LoopTripped, ToolsStopped,
      RoundStuck, Outcomes
<1>4. ASSUME BeginRound \/ BeginSummary
      PROVE  PairInv'
  <2>1. PICK h \in Seq(Msg) : h = wire.hist
    BY DEF TypeInv, TypeOK, Wire
  <2>2. PICK g : g = Injected.hist
    OBVIOUS
  <2>3. /\ g \in Seq(Msg) /\ Extends(h, g)
        /\ \A j \in 1..Len(g) : j > Len(h) => g[j].role = "user"
    BY <2>1, <2>2, InjectedProperties DEF TypeInv, TypeOK, Wire
  <2>4. Closable(h) /\ WellPaired(h) /\ Declared(h) \subseteq used
    BY <1>4, <2>1 DEF PairInv, BeginRound, BeginSummary, Step
  <2>5. Closable(g) /\ WellPaired(g) /\ Declared(g) = Declared(h)
    BY <2>3, <2>4, AddPlain
  <2>6. wire'.hist = g /\ used' = used /\ Plain(chat')
    BY <1>4, <2>2 DEF BeginRound, BeginSummary, RoundFrame, UserFrame, PairInv
  <2>7. Closable(snap'.hist) /\ Declared(snap'.hist) \subseteq used'
    BY <1>4, <2>4, <2>5, <2>6, PersistPairs DEF BeginRound, BeginSummary, NoPersist, PairInv
  <2>8. pc' \notin CallStages
    BY <1>4 DEF BeginRound, BeginSummary, Step, CallStages
  <2> QED
    BY <2>4, <2>5, <2>6, <2>7, <2>8 DEF PairInv
<1>5. ASSUME SummaryDone
      PROVE  PairInv'
  <2>1. /\ Closable(wire.hist) /\ WellPaired(wire.hist) /\ Declared(wire.hist) \subseteq used
        /\ wire \in Wire /\ wire' = Summarize(wire)
    BY <1>5 DEF TypeInv, TypeOK, PairInv, SummaryDone, Step
  <2>2. /\ Closable(wire'.hist) /\ WellPaired(wire'.hist) /\ Declared(wire'.hist) \subseteq used
    BY <2>1, SummarizeProperties
  <2>3. used' = used /\ Plain(chat') /\ pc' \notin CallStages
    BY <1>5 DEF SummaryDone, Step, RoundFrame, UserFrame, PairInv, CallStages
  <2>4. Closable(snap'.hist) /\ Declared(snap'.hist) \subseteq used'
    BY <1>5, <2>2, <2>3, PersistPairs DEF SummaryDone
  <2> QED
    BY <2>2, <2>3, <2>4 DEF PairInv
<1>6. ASSUME ParallelBatch
      PROVE  PairInv'
  <2>1. PICK i \in 1..Len(wire.hist) : Open(i)
    BY <1>6 DEF PairInv, ParallelBatch, Step, CallStages
  <2>2. PICK h \in Seq(Msg) : h = wire.hist
    BY DEF TypeInv, TypeOK, Wire
  <2>3. PICK g : g = h \o ToolMsgs(todo, "result")
    OBVIOUS
  <2>4. wire'.hist = g
    <3>1. wire' = [wire EXCEPT !.hist = g] /\ wire \in Wire
      BY <1>6, <2>2, <2>3 DEF ParallelBatch, TypeInv, TypeOK
    <3> QED
      BY <3>1 DEF Wire
  <2>5. ResultsPushed(h, i, todo, "result", g)
    <3>1. "result" \in Bodies /\ todo \subseteq CallIds /\ Closable(h)
      BY <2>2, MessageTypes DEF OwnBodies, TypeInv, TypeOK, PairInv
    <3> QED
      BY <2>1, <2>2, <2>3, <3>1 DEF Open, ResultsPushed
  <2>6. /\ g \in Seq(Msg) /\ Extends(h, g) /\ Closable(g) /\ IsCall(g, i) /\ OnlyTools(g, i)
        /\ Declared(g) = Declared(h)
        /\ \A c \in todo : ResultAfter(g, i, c)
    BY <2>5, PushResults
  <2>7. Len(h) \in Nat /\ i \in 1..Len(h) /\ i \in 1..Len(g) /\ g[i].ids = h[i].ids
    BY <2>1, <2>2, <2>6 DEF Extends
  <2>8. \A c \in h[i].ids : ResultAfter(h, i, c) => ResultAfter(g, i, c)
    BY <2>6, <2>7, Prefix DEF ResultAfter, Extends
  <2>9. todo' = {} /\ cur = NoCall /\ cur' = NoCall
    BY <1>6 DEF ParallelBatch, Step, TypeInv, Handling, CallStages
  <2>10. h[i].ids \subseteq CallIds
    <3>1. \A m \in Msg : m.ids \subseteq CallIds
      BY DEF Msg
    <3> QED
      BY <2>7, <3>1, ElementOfSeq
  <2>11. \A c \in h[i].ids : c \in todo \/ ResultAfter(h, i, c)
    BY <2>1, <2>2, <2>9, <2>10, LoopAssumption DEF Open
  <2>12. Open(i)'
    BY <2>4, <2>6, <2>7, <2>8, <2>9, <2>11 DEF Open
  <2>13. /\ used' = used /\ Plain(chat') /\ pc' = "tools"
         /\ Declared(g) \subseteq used
    BY <1>6, <2>2, <2>6 DEF ParallelBatch, Step, ToolFrame, UserFrame, PairInv
  <2>14. Closable(snap'.hist) /\ Declared(snap'.hist) \subseteq used'
    BY <1>6, <2>4, <2>6, <2>13, PersistPairs DEF ParallelBatch
  <2> QED
    BY <2>4, <2>6, <2>7, <2>12, <2>13, <2>14 DEF PairInv
<1>7. ASSUME NEW c \in CallIds, NEW to \in {"exec", "approval", "asking"}, Begin(c, to)
      PROVE  PairInv'
  <2>1. PICK i \in 1..Len(wire.hist) : Open(i)
    BY <1>7 DEF PairInv, Begin, Step, CallStages
  <2>2. cur = NoCall /\ cur' = c /\ todo' = todo \ {c} /\ c \in todo /\ wire' = wire
    BY <1>7 DEF Begin, Step, TypeInv, Handling, CallStages
  <2>3. wire.hist[i].ids \subseteq CallIds
    <3>1. PICK h \in Seq(Msg) : h = wire.hist
      BY DEF TypeInv, TypeOK, Wire
    <3>2. \A m \in Msg : m.ids \subseteq CallIds
      BY DEF Msg
    <3> QED
      BY <3>1, <3>2, ElementOfSeq
  <2>4. Open(i)'
    BY <2>1, <2>2, <2>3, LoopAssumption DEF Open
  <2>5. /\ used' = used /\ Plain(chat') /\ snap' = snap
        /\ pc' \notin {"top", "summarizing", "stream", "checking"}
    BY <1>7 DEF Begin, Step, ToolFrame, UserFrame, NoPersist, PairInv
  <2> QED
    BY <2>2, <2>4, <2>5 DEF PairInv
<1>8. ASSUME NEW c \in CallIds, BeginDenied(c)
      PROVE  PairInv'
  <2>1. /\ cur = NoCall /\ pc \in CallStages /\ pc' = "tools" /\ c \in todo
        /\ todo' = todo \ {c} /\ Deny(c)
    BY <1>8 DEF BeginDenied, Step, TypeInv, Handling, CallStages
  <2> QED
    BY <2>1, DenyPairs
<1>9. ASSUME RecordResult \/ RecordFailure
      PROVE  PairInv'
  BY <1>9, RecordPairs DEF RecordResult, RecordFailure, CallStages
<1>10. ASSUME RoundDone
       PROVE  PairInv'
  <2>1. PICK i \in 1..Len(wire.hist) : Open(i)
    BY <1>10 DEF PairInv, RoundDone, Step, CallStages
  <2>2. todo = {} /\ cur = NoCall
    BY <1>10 DEF RoundDone, Step, TypeInv, Handling, CallStages
  <2>3. WellPaired(wire.hist)
    BY <2>1, <2>2, HandledPairs
  <2> QED
    BY <1>10, <2>3 DEF PairInv, RoundDone, Step, ToolFrame, UserFrame, NoPersist, CallStages
<1>11. ASSUME ChatDone \/ ChatFailed
       PROVE  PairInv'
  <2>1. Reply(reply) \in Msg /\ Reply(reply).role = "assistant" /\ Reply(reply).ids = {}
    <3>1. reply \in Bodies
      BY MessageTypes DEF TypeInv, TypeOK, OwnBodies
    <3> QED
      BY <3>1, MessageTypes DEF Reply
  <2>2. Plain(Append(chat, Reply(reply))) /\ Plain(chat)
    BY <2>1, PlainAppend DEF TypeInv, TypeOK, PairInv
  <2>3. chat' = chat \/ chat' = Append(chat, Reply(reply))
    BY <1>11 DEF ChatDone, ChatFailed
  <2>4. Plain(chat')
    BY ONLY <2>2, <2>3 DEF Plain
  <2> QED
    BY <1>11, <2>4, QuietPairs
    DEF ChatDone, ChatFailed, Step, CloseFrame, CallStages, RequestStages
<1>12. ASSUME HookRefuses
       PROVE  PairInv'
  <2>1. cur \in CallIds /\ pc \in CallStages
    BY <1>12 DEF HookRefuses, Step, TypeInv, TypeOK, Handling, CallStages
  <2> QED
    BY <1>12, <2>1, DenyPairs DEF HookRefuses, Step
<1> QED
  BY <1>1, <1>2, <1>3, <1>4, <1>5, <1>6, <1>7, <1>8, <1>9, <1>10, <1>11, <1>12 DEF Local

(* PairInv is inductive when no id is declared twice. *)
LEMMA PairStep ==
  ASSUME ReusableIds = {}, TypeInv, PairInv, [Next]_vars
  PROVE  PairInv'
<1>1. CASE UNCHANGED vars
  <2>1. Plain(chat')
    BY <1>1 DEF vars, PairInv
  <2> QED
    BY <1>1, <2>1, QuietPairs DEF vars, run, effects
<1>2. ASSUME Crash
      PROVE  PairInv'
  BY <1>2, DroppedPairs DEF Crash, DropRun, CallStages
<1> QED
  BY <1>1, <1>2, UserPairs, EndpointPairs, LocalPairs DEF Next

(* The invariant both theorems rest on. *)
LEMMA PairsInvariant ==
  ReusableIds = {} => (Spec => [](TypeInv /\ PairInv))
<1> SUFFICES ASSUME ReusableIds = {}
             PROVE  Spec => [](TypeInv /\ PairInv)
  OBVIOUS
<1>1. Init => TypeInv /\ PairInv
  <2> SUFFICES ASSUME Init
               PROVE  TypeInv /\ PairInv
    OBVIOUS
  <2>1. TypeInv
    BY InitType
  <2>2. Plain(chat)
    BY DEF Init, Plain
  <2>3. PairInv
    BY <2>2, EmptyWireType DEF Init, PairInv, CallStages
  <2> QED
    BY <2>1, <2>3
<1>2. TypeInv /\ PairInv /\ [Next]_vars => (TypeInv /\ PairInv)'
  BY TypeStep, PairStep
<1> QED
  BY <1>1, <1>2, PTL DEF Spec

(* Every request sent to the model is well paired (RequestPaired), however    *)
(* the runs before it ended, when the model's endpoint gives every call an id *)
(* of its own.                                                                *)
THEOREM RequestsPaired == ReusableIds = {} => (Spec => []RequestPaired)
<1> SUFFICES ASSUME ReusableIds = {}
             PROVE  Spec => []RequestPaired
  OBVIOUS
<1>1. PairInv => RequestPaired
  BY DEF PairInv, RequestPaired
<1> QED
  BY <1>1, PairsInvariant, PTL

(* At every instant the snapshot can be resumed into a well paired request    *)
(* (SnapshotResumable): a crash can be placed anywhere.  Same assumption.     *)
THEOREM SnapshotsResumable == ReusableIds = {} => (Spec => []SnapshotResumable)
<1> SUFFICES ASSUME ReusableIds = {}
             PROVE  Spec => []SnapshotResumable
  OBVIOUS
<1>1. TypeInv /\ PairInv => SnapshotResumable
  <2> SUFFICES ASSUME TypeInv, PairInv, NEW b \in Texts
               PROVE  WellPaired(AssembleResume(snap,
                        [EmptyWire EXCEPT !.hist = <<UserMsg(b, {})>>]).hist)
    BY DEF SnapshotResumable
  <2>1. PICK f : f = [EmptyWire EXCEPT !.hist = <<UserMsg(b, {})>>]
    OBVIOUS
  <2>2. PICK m : m = UserMsg(b, {})
    OBVIOUS
  <2>3. m \in Msg /\ m.role = "user" /\ m.ids = {}
    BY <2>2, MessageTypes DEF UserMsg
  <2>4. PICK h : h = <<m>>
    OBVIOUS
  <2>5. h \in Seq(Msg) /\ Len(h) = 1 /\ h[1] = m
    BY <2>3, <2>4
  <2>6. f = [memo |-> {}, hist |-> h, tail |-> {}]
    BY <2>1, <2>2, <2>4 DEF EmptyWire
  <2>7. f \in Wire /\ f.hist = h
    BY <2>5, <2>6 DEF Wire
  <2>8. Plain(f.hist)
    <3>1. \A i \in 1..Len(h) : i = 1
      BY <2>5
    <3>2. m.role # "tool" /\ m.ids = {}
      BY <2>3
    <3>3. \A i \in 1..Len(h) : h[i] = m
      BY ONLY <2>5, <3>1
    <3>4. Plain(h)
      BY ONLY <3>2, <3>3 DEF Plain
    <3> QED
      BY ONLY <2>7, <3>4
  <2>9. snap \in Wire /\ Closable(snap.hist)
    BY DEF TypeInv, TypeOK, PairInv
  <2>10. WellPaired(AssembleResume(snap, f).hist)
    BY <2>7, <2>8, <2>9, AssembleProperties
  <2> QED
    BY <2>1, <2>10
<1> QED
  BY <1>1, PairsInvariant, PTL

-----------------------------------------------------------------------------
(* Write-ahead. *)

(* The calls of the round that have no result yet. *)
Unanswered == todo \cup ({cur} \ {NoCall})

(* While calls are handled, those without a result are open in the wire, and *)
(* in the snapshot when no write of it failed.                               *)
AheadInv ==
  pc \in CallStages =>
    /\ cur \notin todo
    /\ Unanswered \subseteq Orphans(wire.hist)
    /\ lost = 0 => Unanswered \subseteq Orphans(snap.hist)

(* Pushing a call's result leaves the others open. *)
LEMMA PushLeavesOpen ==
  ASSUME NEW w \in Wire, NEW c \in CallIds, NEW b \in Bodies
  PROVE  Orphans(w.hist) \ {c} \subseteq Orphans(Push(w, ToolMsg(c, b)).hist)
<1>1. PICK h \in Seq(Msg) : h = w.hist
  BY DEF Wire
<1>2. ToolMsg(c, b) \in Msg /\ ToolMsg(c, b).ids = {c}
  BY MessageTypes DEF ToolMsg
<1>3. PICK g : g = Push(w, ToolMsg(c, b)).hist
  OBVIOUS
<1>4. g \in Seq(Msg) /\ Len(g) = Len(h) + 1 /\ Extends(h, g) /\ g[Len(g)].ids = {c}
  BY <1>1, <1>2, <1>3, PushProperties DEF Wire
<1>5. \A d \in Orphans(h) : d \notin {c} => d \in Orphans(g)
  BY <1>4, OrphansLeft
<1> QED
  BY <1>1, <1>3, <1>5

(* The answer that declares calls: they are open, and persisted as such. *)
LEMMA CallsAhead ==
  ASSUME TypeInv, PairInv, ReusableIds = {},
         NEW S \in SUBSET CallIds, StreamCalls(S)
  PROVE  AheadInv'
<1>1. PICK h \in Seq(Msg) : h = wire.hist
  BY DEF TypeInv, TypeOK, Wire
<1>2. PICK g : g = wire'.hist
  OBVIOUS
<1>3. CallMsg(S) \in Msg /\ CallMsg(S).role = "assistant" /\ CallMsg(S).ids = S
  BY MessageTypes DEF CallMsg
<1>4. /\ g \in Seq(Msg) /\ Len(g) = Len(h) + 1 /\ Extends(h, g)
      /\ g[Len(g)].role = "assistant" /\ g[Len(g)].ids = S
  <2>1. wire \in Wire /\ wire' = Push(wire, CallMsg(S))
    BY DEF TypeInv, TypeOK, StreamCalls
  <2> QED
    BY <1>1, <1>2, <1>3, <2>1, PushProperties DEF Wire
<1>5. WellPaired(h) /\ Declared(h) \subseteq used /\ S \cap used = {}
  BY <1>1 DEF PairInv, StreamCalls, Step
<1>6. S \subseteq Orphans(g)
  BY <1>4, <1>5, NewCallsOpen DEF IsCall
<1>7. todo' = S /\ cur' = NoCall /\ NoCall \notin S
  BY LoopAssumption DEF StreamCalls, TypeInv, Handling, Step, CallStages
<1>8. lost' = 0 => snap' = wire'
  BY DEF StreamCalls, Persist, TypeInv, TypeOK
<1> QED
  BY <1>2, <1>6, <1>7, <1>8 DEF AheadInv, Unanswered

(* The result of the call being handled is pushed and persisted. *)
LEMMA RecordAhead ==
  ASSUME TypeInv, AheadInv, NEW from \in CallStages \ {"tools", "batch"}, Record(from)
  PROVE  AheadInv'
<1>1. cur \in CallIds /\ wire \in Wire /\ pc \in CallStages
  BY DEF TypeInv, TypeOK, Handling, Record, Step
<1>2. wire' = Push(wire, ToolMsg(cur, "result")) /\ cur' = NoCall /\ todo' = todo
  BY DEF Record
<1>3. "result" \in Bodies
  BY MessageTypes DEF OwnBodies
<1>4. Orphans(wire.hist) \ {cur} \subseteq Orphans(wire'.hist)
  BY <1>1, <1>2, <1>3, PushLeavesOpen
<1>5. todo \subseteq Orphans(wire'.hist) /\ cur' \notin todo'
  BY <1>1, <1>2, <1>4, LoopAssumption DEF AheadInv, Unanswered, TypeInv, TypeOK
<1>6. lost' = 0 => snap' = wire'
  BY DEF Record, Persist, TypeInv, TypeOK
<1> QED
  BY <1>2, <1>5, <1>6 DEF AheadInv, Unanswered

(* A denied call gets its reason; the snapshot keeps the others open. *)
LEMMA DenyAhead ==
  ASSUME TypeInv, AheadInv, NEW c \in CallIds, Deny(c), pc \in CallStages,
         todo' = todo \ {c}, cur \in {NoCall, c}
  PROVE  AheadInv'
<1>1. wire' = Push(wire, ToolMsg(c, "denied")) /\ cur' = NoCall /\ snap' = snap /\ lost' = lost
  BY DEF Deny, NoPersist
<1>2. "denied" \in Bodies /\ wire \in Wire
  BY MessageTypes DEF OwnBodies, TypeInv, TypeOK
<1>3. Orphans(wire.hist) \ {c} \subseteq Orphans(wire'.hist)
  BY <1>1, <1>2, PushLeavesOpen
<1>4. cur' \notin todo'
  BY <1>1, LoopAssumption DEF TypeInv, TypeOK
<1> QED
  BY <1>1, <1>3, <1>4 DEF AheadInv, Unanswered

(* One step per action that is taken, or ends, in the handling of calls. *)
LEMMA AheadStep ==
  ASSUME TypeInv, PairInv, AheadInv, ReusableIds = {}, [Next]_vars
  PROVE  AheadInv'
<1>1. ASSUME UNCHANGED <<wire, snap, todo, cur, lost>>, pc' \in CallStages => pc \in CallStages
      PROVE  AheadInv'
  BY <1>1 DEF AheadInv, Unanswered
<1>2. ASSUME pc' \notin CallStages PROVE AheadInv'
  BY <1>2 DEF AheadInv
<1>3. ASSUME NEW from, NEW outcome \in Outcomes, NEW text, Finish(from, outcome, text)
      PROVE  pc' \notin CallStages
  BY <1>3 DEF Finish, Step, Outcomes, CallStages
<1>4. CASE UNCHANGED vars
  BY <1>1, <1>4 DEF vars, run
<1>5. ASSUME User PROVE AheadInv'
  <2>1. ASSUME (\E b \in Texts, t \in Turns : Send(b, t)) \/ Regenerate
               \/ (\E i \in DOMAIN chat : Rewind(i)) \/ CompactHistory
        PROVE  pc' \notin CallStages
    BY <2>1 DEF Send, Regenerate, StartRun, Rewind, CompactHistory, run, CallStages
  <2>2. ASSUME (\E s \in Steers : QueueSteering(s)) \/ CancelAgent
        PROVE  AheadInv'
    BY <1>1, <2>2 DEF QueueSteering, CancelAgent
  <2>3. ASSUME Approve PROVE AheadInv'
    BY <1>1, <2>3 DEF Approve, Step, NoPersist, CallStages
  <2>4. ASSUME Reject PROVE AheadInv'
    <3>1. cur \in CallIds /\ pc \in CallStages /\ todo' = todo /\ Deny(cur)
      BY <2>4 DEF Reject, Step, TypeInv, TypeOK, Handling, CallStages
    <3>2. todo' = todo \ {cur}
      BY <3>1 DEF AheadInv
    <3> QED
      BY <3>1, <3>2, DenyAhead
  <2>5. ASSUME AnswerQuestion PROVE AheadInv'
    BY <2>5, RecordAhead DEF AnswerQuestion, CallStages
  <2> QED
    BY <1>2, <1>5, <2>1, <2>2, <2>3, <2>4, <2>5 DEF User
<1>6. ASSUME Endpoint PROVE AheadInv'
  <2>1. ASSUME (\E a \in Answers : PlanAnswer(a) \/ StreamFinal(a)) \/ PlanFails
               \/ StreamFails \/ BudgetStops
        PROVE  pc' \notin CallStages
    BY <1>3, <2>1 DEF PlanAnswer, StreamFinal, PlanFails, StreamFails, BudgetStops, Outcomes
  <2>2. ASSUME NEW S \in SUBSET CallIds \ {{}}, StreamCalls(S) PROVE AheadInv'
    BY <2>2, CallsAhead
  <2>3. ASSUME Feedback \/ BeginChecks PROVE pc' \notin CallStages
    BY <2>3 DEF Feedback, BeginChecks, Step, CallStages
  <2> QED
    BY <1>2, <1>6, <2>1, <2>2, <2>3 DEF Endpoint
<1>7. ASSUME Local PROVE AheadInv'
  <2>1. ASSUME PlanStopped \/ TopStopped \/ SummaryFails \/ StreamStopped \/ LoopTripped
               \/ ToolsStopped \/ RoundStuck
        PROVE  pc' \notin CallStages
    BY <1>3, <2>1
    DEF PlanStopped, TopStopped, SummaryFails, StreamStopped, LoopTripped, ToolsStopped,
        RoundStuck, Outcomes
  <2>2. ASSUME FailEarly \/ Register \/ BeginRound \/ BeginSummary \/ SummaryDone
               \/ RoundDone \/ ChatDone \/ ChatFailed
        PROVE  pc' \notin CallStages
    BY <2>2 DEF FailEarly, Register, BeginRound, BeginSummary, SummaryDone, RoundDone,
                ChatDone, ChatFailed, Step, CallStages
  <2>3. ASSUME ParallelBatch PROVE AheadInv'
    <3>1. todo' = {} /\ cur' = NoCall
      BY <2>3 DEF ParallelBatch, Step, TypeInv, Handling, CallStages
    <3> QED
      BY <3>1 DEF AheadInv, Unanswered
  <2>4. ASSUME NEW c \in CallIds, NEW to \in {"exec", "approval", "asking"}, Begin(c, to)
        PROVE  AheadInv'
    <3>1. /\ pc \in CallStages /\ c \in todo /\ cur' = c /\ todo' = todo \ {c}
          /\ UNCHANGED <<wire, snap, lost>>
      BY <2>4 DEF Begin, Step, CallStages, NoPersist
    <3>2. Unanswered' \subseteq Unanswered
      BY <3>1, LoopAssumption DEF Unanswered, TypeInv, TypeOK
    <3> QED
      BY <3>1, <3>2 DEF AheadInv
  <2>5. ASSUME NEW c \in CallIds, BeginDenied(c) PROVE AheadInv'
    <3>1. pc \in CallStages /\ cur = NoCall /\ todo' = todo \ {c} /\ Deny(c)
      BY <2>5 DEF BeginDenied, Step, TypeInv, Handling, CallStages
    <3> QED
      BY <3>1, DenyAhead
  <2>6. ASSUME ShowApproval \/ Execute \/ BeginBatch PROVE AheadInv'
    BY <1>1, <2>6 DEF ShowApproval, Execute, BeginBatch, Step, NoPersist, CallStages
  <2>7. ASSUME RecordResult \/ RecordFailure PROVE AheadInv'
    BY <2>7, RecordAhead DEF RecordResult, RecordFailure, CallStages
  <2>8. ASSUME HookRefuses PROVE AheadInv'
    <3>1. cur \in CallIds /\ pc \in CallStages /\ todo' = todo /\ Deny(cur)
      BY <2>8 DEF HookRefuses, Step, TypeInv, TypeOK, Handling, CallStages
    <3>2. todo' = todo \ {cur}
      BY <3>1 DEF AheadInv
    <3> QED
      BY <3>1, <3>2, DenyAhead
  <2> QED
    BY <1>2, <1>7, <2>1, <2>2, <2>3, <2>4, <2>5, <2>6, <2>7, <2>8 DEF Local
<1>8. ASSUME Crash PROVE pc' \notin CallStages
  BY <1>8 DEF Crash, CallStages
<1> QED
  BY <1>2, <1>4, <1>5, <1>6, <1>7, <1>8 DEF Next

(* No call runs, or waits for the user, that the snapshot does not declare as *)
(* open (WriteAhead): a crash finds it there.  Same assumption.               *)
THEOREM CallsWrittenAhead == ReusableIds = {} => (Spec => []WriteAhead)
<1> SUFFICES ASSUME ReusableIds = {}
             PROVE  Spec => []WriteAhead
  OBVIOUS
<1>1. Init => AheadInv
  BY DEF Init, AheadInv, CallStages
<1>2. TypeInv /\ PairInv /\ AheadInv /\ [Next]_vars => AheadInv'
  BY AheadStep
<1>3. TypeInv /\ AheadInv => WriteAhead
  BY DEF TypeInv, Handling, AheadInv, Unanswered, WriteAhead, CallStages
<1> QED
  BY <1>1, <1>2, <1>3, PairsInvariant, PTL DEF Spec

-----------------------------------------------------------------------------
(* Results and notes. *)

(* A message of the table is no system message, and none was queued. *)
Proper(m) == m.notes = {} /\ (m.role = "user" => m.body \notin Steers)

(* The messages table holds such messages, and a run is started after one of *)
(* the user.                                                                 *)
ChatInv ==
  /\ \A i \in 1..Len(chat) : Proper(chat[i])
  /\ pc = "sending" => Len(chat) > 0 /\ chat[Len(chat)].role = "user"

(* Such a message is added to the table. *)
LEMMA ChatAppend ==
  ASSUME chat \in Seq(Msg), NEW m \in Msg, Proper(m), chat' = Append(chat, m),
         \A i \in 1..Len(chat) : Proper(chat[i])
  PROVE  /\ \A i \in 1..Len(chat') : Proper(chat'[i])
         /\ Len(chat') > 0 /\ chat'[Len(chat')] = m
<1>1. /\ Len(chat) \in Nat /\ Len(chat') = Len(chat) + 1
      /\ \A i \in 1..Len(chat) : chat'[i] = chat[i]
      /\ chat'[Len(chat) + 1] = m
  BY AppendProperties
<1> QED
  BY <1>1

(* The table is cut before message n. *)
LEMMA ChatCut ==
  ASSUME chat \in Seq(Msg), NEW n \in 1..Len(chat), chat' = SubSeq(chat, 1, n - 1),
         \A i \in 1..Len(chat) : Proper(chat[i])
  PROVE  /\ \A i \in 1..Len(chat') : Proper(chat'[i])
         /\ Len(chat') = n - 1 /\ \A i \in 1..(n - 1) : chat'[i] = chat[i]
<1>1. \A i \in 1..(n - 1) : chat[i] \in Msg
  BY ElementOfSeq
<1>2. Len(chat') = n - 1 /\ \A i \in 1..(n - 1) : chat'[i] = chat[i]
  BY <1>1, SubSeqProperties
<1> QED
  BY <1>2

(* Only the user and the end of a run write the table. *)
LEMMA ChatStep ==
  ASSUME TypeInv, ChatInv, [Next]_vars
  PROVE  ChatInv'
<1> USE DEF ChatInv
<1>0. chat \in Seq(Msg) /\ Len(chat) \in Nat
  BY DEF TypeInv, TypeOK
<1>1. ASSUME chat' = chat, pc' = "sending" => pc = "sending" PROVE ChatInv'
  BY <1>1
<1>2. ASSUME User PROVE ChatInv'
  <2>1. ASSUME NEW b \in Texts, NEW t \in Turns, Send(b, t) PROVE ChatInv'
    <3>1. UserMsg(b, {}) \in Msg /\ Proper(UserMsg(b, {})) /\ UserMsg(b, {}).role = "user"
      BY LoopAssumption, MessageTypes DEF UserMsg, Proper
    <3> QED
      BY <1>0, <2>1, <3>1, ChatAppend DEF Send
  <2>2. ASSUME Regenerate PROVE ChatInv'
    <3>1. chat' = SubSeq(chat, 1, Len(chat) - 1) /\ Len(chat) >= 2
          /\ chat[Len(chat) - 1].role = "user"
      BY <2>2 DEF Regenerate, Front
    <3>2. /\ \A i \in 1..Len(chat') : Proper(chat'[i])
          /\ Len(chat') = Len(chat) - 1 /\ \A i \in 1..(Len(chat) - 1) : chat'[i] = chat[i]
      BY <1>0, <3>1, ChatCut
    <3> QED
      BY <1>0, <3>1, <3>2
  <2>3. ASSUME NEW i \in DOMAIN chat, Rewind(i) PROVE ChatInv'
    <3>1. i \in 1..Len(chat) /\ chat' = SubSeq(chat, 1, i - 1) /\ pc' # "sending"
      BY <1>0, <2>3 DEF Rewind, run
    <3> QED
      BY <1>0, <3>1, ChatCut
  <2>4. ASSUME CompactHistory PROVE ChatInv'
    BY <2>4 DEF CompactHistory, Reply, Proper, run
  <2>5. ASSUME (\E s \in Steers : QueueSteering(s)) \/ CancelAgent \/ Approve \/ Reject \/ AnswerQuestion
        PROVE  ChatInv'
    BY <1>1, <2>5 DEF QueueSteering, CancelAgent, Approve, Reject, AnswerQuestion, Record, Deny,
                      Step, ToolFrame, UserFrame
  <2> QED
    BY <1>2, <2>1, <2>2, <2>3, <2>4, <2>5 DEF User
<1>3. ASSUME NEW from, NEW outcome \in Outcomes, NEW text, Finish(from, outcome, text)
      PROVE  ChatInv'
  BY <1>1, <1>3 DEF Finish, Step, UserFrame, Outcomes
<1>4. ASSUME Endpoint PROVE ChatInv'
  <2>1. ASSUME (\E a \in Answers : PlanAnswer(a) \/ StreamFinal(a)) \/ PlanFails
               \/ StreamFails \/ BudgetStops
        PROVE  ChatInv'
    BY <1>3, <2>1 DEF PlanAnswer, StreamFinal, PlanFails, StreamFails, BudgetStops, Outcomes
  <2>2. ASSUME (\E S \in SUBSET CallIds \ {{}} : StreamCalls(S)) \/ Feedback \/ BeginChecks
        PROVE  ChatInv'
    BY <1>1, <2>2 DEF StreamCalls, Feedback, BeginChecks, ToolFrame, Step, UserFrame
  <2> QED
    BY <1>4, <2>1, <2>2 DEF Endpoint
<1>5. ASSUME Local PROVE ChatInv'
  <2>1. ASSUME PlanStopped \/ TopStopped \/ SummaryFails \/ StreamStopped \/ LoopTripped
               \/ ToolsStopped \/ RoundStuck
        PROVE  ChatInv'
    BY <1>3, <2>1
    DEF PlanStopped, TopStopped, SummaryFails, StreamStopped, LoopTripped, ToolsStopped,
        RoundStuck, Outcomes
  <2>2. ASSUME FailEarly \/ Register \/ BeginRound \/ BeginSummary \/ SummaryDone
        PROVE  ChatInv'
    BY <1>1, <2>2 DEF FailEarly, Register, BeginRound, BeginSummary, SummaryDone, Step,
                      RoundFrame, UserFrame
  <2>3. ASSUME \/ BeginBatch \/ HookRefuses
               \/ ParallelBatch \/ Execute \/ ShowApproval \/ RecordResult \/ RecordFailure \/ RoundDone
               \/ \E c \in CallIds, to \in {"exec", "approval", "asking"} : Begin(c, to)
               \/ \E c \in CallIds : BeginDenied(c)
        PROVE  ChatInv'
    BY <1>1, <2>3 DEF BeginBatch, HookRefuses, ParallelBatch, Execute, ShowApproval, RecordResult, RecordFailure, Record,
                      RoundDone, Begin, BeginDenied, Deny, Step, ToolFrame, UserFrame
  <2>4. ASSUME ChatDone \/ ChatFailed PROVE ChatInv'
    <3>1. Reply(reply) \in Msg /\ Proper(Reply(reply))
      BY MessageTypes DEF TypeInv, TypeOK, OwnBodies, Reply, Proper
    <3>2. pc' = "idle" /\ (chat' = chat \/ chat' = Append(chat, Reply(reply)))
      BY <2>4 DEF ChatDone, ChatFailed, Step
    <3>3. CASE chat' = chat
      BY <1>1, <3>2, <3>3
    <3>4. CASE chat' = Append(chat, Reply(reply))
      BY <1>0, <3>1, <3>2, <3>4, ChatAppend
    <3> QED
      BY <3>2, <3>3, <3>4
  <2> QED
    BY <1>5, <2>1, <2>2, <2>3, <2>4 DEF Local
<1>6. CASE UNCHANGED vars \/ Crash
  BY <1>1, <1>6 DEF vars, run, Crash
<1> QED
  BY <1>2, <1>4, <1>5, <1>6 DEF Next

(* A step of a run that only adds to what a request says. *)
WireGrows ==
  /\ Begins(wire.hist, wire'.hist)
  /\ SentNotes(wire') = SentNotes(wire)
  /\ wire'.hist \in Seq(Msg)

(* Pushing a message without notes is one. *)
LEMMA PushGrows ==
  ASSUME TypeInv, NEW m \in Msg, m.notes = {}, wire' = Push(wire, m)
  PROVE  WireGrows
<1>1. wire \in Wire /\ Push(wire, m) \in Wire
  BY PushProperties DEF TypeInv, TypeOK
<1>2. wire.hist \in Seq(Msg) /\ wire'.hist \in Seq(Msg)
  BY <1>1 DEF Wire
<1>3. Begins(wire.hist, wire'.hist) /\ SentNotes(wire') = SentNotes(wire)
  BY <1>1, PushKeeps
<1> QED
  BY <1>2, <1>3 DEF WireGrows

(* Recording a result is one, and the call has its result then. *)
LEMMA RecordGrows ==
  ASSUME TypeInv, NEW from \in CallStages \ {"tools", "batch"}, Record(from)
  PROVE  WireGrows /\ cur \in Resolved(wire'.hist)
<1>1. cur \in CallIds /\ wire' = Push(wire, ToolMsg(cur, "result"))
  BY DEF TypeInv, TypeOK, Handling, Record, Step
<1>2. PICK m \in Msg : /\ m = ToolMsg(cur, "result") /\ m.notes = {} /\ m.role = "tool"
                       /\ m.body = "result" /\ m.ids = {cur}
  BY <1>1, MessageTypes DEF ToolMsg, OwnBodies
<1>3. wire \in Wire /\ wire' \in Wire
  BY <1>1, <1>2, PushProperties DEF TypeInv, TypeOK
<1>4. PICK g \in Seq(Msg) : g = wire'.hist
  BY <1>3 DEF Wire
<1>5. /\ Len(wire.hist) + 1 \in 1..Len(g)
      /\ g[Len(wire.hist) + 1].role = "tool" /\ g[Len(wire.hist) + 1].body = "result"
      /\ g[Len(wire.hist) + 1].ids = {cur}
  <2>1. Len(wire.hist) \in Nat /\ Len(g) = Len(wire.hist) + 1
    <3>1. wire' = Push(wire, m)
      BY <1>1, <1>2
    <3>2. Len(Push(wire, m).hist) = Len(wire.hist) + 1
      BY <1>3, PushProperties
    <3> QED
      BY <1>3, <1>4, <3>1, <3>2 DEF Wire
  <2>2. PICK p : p = Push(wire, m)
    OBVIOUS
  <2>3. p.hist = g
    BY <1>1, <1>2, <1>4, <2>2
  <2>4. p.hist[Len(wire.hist) + 1].role = m.role /\ p.hist[Len(wire.hist) + 1].ids = m.ids
    BY <1>3, <2>2, PushProperties
  <2>5. p.hist[Len(wire.hist) + 1].body = m.body
    BY <1>3, <2>2, PushKeeps
  <2> QED
    BY <1>2, <2>1, <2>3, <2>4, <2>5
<1>6. cur \in Resolved(g)
  BY <1>5, ResolvedAt DEF IsTool
<1> QED
  BY <1>1, <1>2, <1>4, <1>6, PushGrows

(* Every other step that writes the wire of a run is one too. *)
LEMMA GrowSteps ==
  ASSUME TypeInv,
         \/ BeginRound \/ BeginSummary \/ Feedback \/ ParallelBatch \/ Reject \/ HookRefuses
         \/ \E S \in SUBSET CallIds : StreamCalls(S)
         \/ \E c \in CallIds : BeginDenied(c)
  PROVE  WireGrows
<1>1. ASSUME BeginRound \/ BeginSummary PROVE WireGrows
  <2>1. wire \in Wire /\ Injected \in Wire /\ wire' = Injected
        /\ Begins(wire.hist, Injected.hist) /\ SentNotes(Injected) = SentNotes(wire)
    BY <1>1, InjectedProperties DEF TypeInv, TypeOK, BeginRound, BeginSummary
  <2>2. wire.hist \in Seq(Msg) /\ Injected.hist \in Seq(Msg)
    BY <2>1 DEF Wire
  <2> QED
    BY <2>1, <2>2 DEF WireGrows
<1>2. ASSUME Feedback PROVE WireGrows
  <2>1. UserMsg("feedback", {}) \in Msg /\ UserMsg("feedback", {}).notes = {}
    BY MessageTypes DEF UserMsg, OwnBodies
  <2> QED
    BY <1>2, <2>1, PushGrows DEF Feedback
<1>3. ASSUME NEW S \in SUBSET CallIds, StreamCalls(S) PROVE WireGrows
  <2>1. CallMsg(S) \in Msg /\ CallMsg(S).notes = {}
    BY MessageTypes DEF CallMsg
  <2> QED
    BY <1>3, <2>1, PushGrows DEF StreamCalls
<1>4. ASSUME NEW c \in CallIds, Deny(c) PROVE WireGrows
  <2>1. ToolMsg(c, "denied") \in Msg /\ ToolMsg(c, "denied").notes = {}
    BY MessageTypes DEF ToolMsg, OwnBodies
  <2> QED
    BY <1>4, <2>1, PushGrows DEF Deny
<1>5. ASSUME Reject \/ HookRefuses PROVE WireGrows
  <2>1. cur \in CallIds /\ Deny(cur)
    BY <1>5 DEF Reject, HookRefuses, Step, TypeInv, TypeOK, Handling, CallStages
  <2> QED
    BY <1>4, <2>1
<1>6. ASSUME ParallelBatch PROVE WireGrows
  <2>1. PICK h \in Seq(Msg) : h = wire.hist
    BY DEF TypeInv, TypeOK, Wire
  <2>2. PICK t : t = ToolMsgs(todo, "result")
    OBVIOUS
  <2>3. PICK g : g = h \o t
    OBVIOUS
  <2>4. todo \in SUBSET CallIds /\ "result" \in Bodies
    BY MessageTypes DEF TypeInv, TypeOK, OwnBodies
  <2>5. t \in Seq(Msg) /\ \A i \in 1..Len(t) : t[i].notes = {}
    <3>1. \A c : ToolMsg(c, "result").notes = {}
      BY DEF ToolMsg
    <3>2. PICK S \in SUBSET CallIds, b \in Bodies : S = todo /\ b = "result"
      BY <2>4
    <3>3. t \in Seq(Msg) /\ \A i \in 1..Len(t) : \E c \in S : t[i] = ToolMsg(c, b)
      BY <2>2, <3>2, ToolMsgsProperties
    <3> QED
      BY <3>1, <3>2, <3>3
  <2>6. /\ g \in Seq(Msg) /\ Len(g) = Len(h) + Len(t) /\ Len(h) \in Nat /\ Len(t) \in Nat
        /\ \A i \in 1..Len(g) : g[i] = IF i <= Len(h) THEN h[i] ELSE t[i - Len(h)]
    BY <2>1, <2>3, <2>5, ConcatProperties
  <2>7. \A i \in 1..Len(g) : i \in 1..Len(h) \/ i - Len(h) \in 1..Len(t)
    BY <2>6
  <2>8. Begins(h, g)
    BY <2>6 DEF Begins
  <2>9. \A x : (\E i \in 1..Len(g) : x \in g[i].notes) <=> (\E i \in 1..Len(h) : x \in h[i].notes)
    <3>1. \A i \in 1..Len(g) : i \notin 1..Len(h) => g[i].notes = {}
      <4> SUFFICES ASSUME NEW i \in 1..Len(g), i \notin 1..Len(h) PROVE g[i].notes = {}
        OBVIOUS
      <4>1. ~(i <= Len(h)) /\ i - Len(h) \in 1..Len(t)
        BY <2>6, <2>7
      <4> QED
        BY <2>5, <2>6, <4>1
    <3>2. \A i \in 1..Len(h) : i \in 1..Len(g) /\ g[i] = h[i]
      BY <2>6
    <3> QED
      BY <3>1, <3>2
  <2>10. wire \in Wire /\ wire' \in Wire /\ wire'.hist = g /\ wire'.tail = wire.tail
    <3>1. wire' = [wire EXCEPT !.hist = g] /\ wire \in Wire
      BY <1>6, <2>1, <2>2, <2>3 DEF ParallelBatch, TypeInv, TypeOK
    <3> QED
      BY <2>6, <3>1 DEF Wire
  <2>11. \A x : x \in SentNotes(wire') <=> x \in SentNotes(wire)
    BY <2>1, <2>9, <2>10, NotesAt
  <2> QED
    BY <2>1, <2>6, <2>8, <2>10, <2>11 DEF WireGrows
<1> QED
  BY <1>1, <1>2, <1>3, <1>4, <1>5, <1>6 DEF BeginDenied

(* A run starts with what the snapshot says and the notes of its turn. *)
LEMMA RegisterKeeps ==
  ASSUME TypeInv, ChatInv, Register, ~turn.plan
  PROVE  /\ wire'.hist \in Seq(Msg) /\ Begins(snap.hist, wire'.hist)
         /\ SentNotes(wire') = TurnNotes(turn)
<1>1. PICK f : f = [EmptyWire EXCEPT !.hist = [chat EXCEPT ![Len(chat)].notes = TurnNotes(turn)]]
  OBVIOUS
<1>2. wire' = AssembleResume(snap, f)
  BY <1>1 DEF Register
<1>3. /\ chat \in Seq(Msg) /\ turn \in Turns /\ snap \in Wire /\ Len(chat) \in Nat
      /\ Len(chat) > 0 /\ chat[Len(chat)].role = "user"
      /\ \A i \in 1..Len(chat) : chat[i].notes = {}
  BY DEF TypeInv, TypeOK, ChatInv, Proper, Register, Step
<1>4. /\ f \in Wire /\ f.tail = {} /\ Len(f.hist) = Len(chat)
      /\ f.hist[Len(chat)].role = "user"
      /\ f.hist[Len(chat)].notes = TurnNotes(turn) /\ SentNotes(f) = TurnNotes(turn)
  <2>1. Len(chat) \in 1..Len(chat)
    BY <1>3
  <2>2. /\ f \in Wire /\ f.tail = {} /\ Len(f.hist) = Len(chat)
        /\ \A i \in 1..Len(chat) : f.hist[i].role = chat[i].role
    BY <1>1, <1>3, FreshWire
  <2>3. f.hist[Len(chat)].notes = TurnNotes(turn) /\ SentNotes(f) = TurnNotes(turn)
    BY <1>1, <1>3, FreshWire
  <2> QED
    BY <1>3, <2>1, <2>2, <2>3
<1>5. f.hist # <<>>
  BY <1>3, <1>4, EmptySeq
<1> QED
  BY <1>2, <1>3, <1>4, <1>5, AssembleKeeps

(* The wire of a run knows the results the snapshot knows, until a summary. *)
EffectInv ==
  /\ pc # "summarizing"
  /\ pc \in ToolStages => Resolved(snap.hist) \subseteq Resolved(wire.hist)
  /\ EffectsDurable

(* What a growing wire is persisted as keeps what the snapshot knew. *)
LEMMA GrowKeeps ==
  ASSUME TypeInv, EffectInv, pc \in ToolStages, WireGrows, Persist(wire') \/ NoPersist
  PROVE  /\ Resolved(snap.hist) \subseteq Resolved(snap'.hist)
         /\ Resolved(snap'.hist) \subseteq Resolved(wire'.hist)
         /\ lost' = 0 => lost = 0
<1>1. Resolved(wire.hist) \subseteq Resolved(wire'.hist)
  BY ResultsStay DEF TypeInv, TypeOK, Wire, WireGrows
<1> QED
  BY <1>1 DEF TypeInv, TypeOK, EffectInv, Persist, NoPersist

(* No effect takes place in the step, and a torn one is noted as torn. *)
LEMMA DurableStays ==
  ASSUME EffectsDurable, lost' = 0 => lost = 0,
         Resolved(snap.hist) \subseteq Resolved(snap'.hist),
         landed' = landed, torn \subseteq torn',
         pc = "landed" => cur \in torn' \/ (pc' = "landed" /\ cur' = cur)
  PROVE  EffectsDurable'
BY DEF EffectsDurable

(* The effects stay known over every step, when nothing is summarized. *)
LEMMA EffectStep ==
  ASSUME TypeInv, ChatInv, EffectInv, ~AllowSummary, [Next]_vars
  PROVE  EffectInv'
<1> USE DEF ToolStages
<1>0. lost \in Nat /\ EffectsDurable /\ pc # "summarizing"
  BY DEF TypeInv, TypeOK, EffectInv
<1>1. ASSUME UNCHANGED <<snap, lost, landed, torn>>, UNCHANGED wire \/ pc' \notin ToolStages,
             pc' \in ToolStages => pc \in ToolStages, pc' # "summarizing",
             pc = "landed" => pc' = "landed" /\ cur' = cur
      PROVE  EffectInv'
  <2>1. EffectsDurable'
    BY <1>0, <1>1, DurableStays
  <2> QED
    BY <1>1, <2>1 DEF EffectInv
<1>2. ASSUME pc \in ToolStages, WireGrows, Persist(wire') \/ NoPersist,
             UNCHANGED <<landed, torn>>, pc # "landed", pc' # "summarizing"
      PROVE  EffectInv'
  <2>1. EffectsDurable'
    BY <1>0, <1>2, GrowKeeps, DurableStays
  <2> QED
    BY <1>2, <2>1, GrowKeeps DEF EffectInv
<1>3. ASSUME NEW from, from # "landed", NEW outcome \in Outcomes, NEW text,
             Finish(from, outcome, text)
      PROVE  EffectInv'
  <2>1. /\ UNCHANGED <<snap, lost, landed, torn>> /\ pc # "landed"
        /\ pc' \notin ToolStages
    BY <1>3 DEF Finish, Step, UserFrame, NoPersist, Outcomes
  <2> QED
    BY <1>1, <2>1
<1>4. ASSUME ForgetSnapshot, pc' \notin ToolStages PROVE EffectInv'
  BY <1>4 DEF ForgetSnapshot, EffectInv, EffectsDurable
<1>5. ASSUME NEW from \in {"asking", "exec", "landed"}, Record(from) PROVE EffectInv'
  <2>1. WireGrows /\ cur \in Resolved(wire'.hist)
    BY <1>5, RecordGrows DEF CallStages
  <2>2. /\ pc = from /\ pc' = "tools" /\ Persist(wire') /\ UNCHANGED <<landed, torn>>
    BY <1>5 DEF Record, Step, ToolFrame, UserFrame
  <2>3. CASE from # "landed"
    BY <1>2, <1>5, <2>1, <2>2, <2>3
  <2>4. CASE from = "landed"
    <3>1. /\ Resolved(snap.hist) \subseteq Resolved(wire'.hist)
          /\ lost' = 0 => lost = 0 /\ snap' = wire'
          /\ Resolved(snap'.hist) \subseteq Resolved(wire'.hist)
      <4>1. Resolved(wire.hist) \subseteq Resolved(wire'.hist)
        BY <2>1, ResultsStay DEF TypeInv, TypeOK, Wire, WireGrows
      <4> QED
        BY <1>0, <2>2, <2>4, <4>1 DEF EffectInv, Persist
    <3>2. EffectsDurable'
      BY <1>0, <2>1, <2>2, <2>4, <3>1 DEF EffectsDurable
    <3> QED
      BY <2>2, <3>1, <3>2 DEF EffectInv
  <2> QED
    BY <2>3, <2>4
<1>6. CASE UNCHANGED vars
  BY <1>0, <1>1, <1>6 DEF vars, run, effects
<1>7. ASSUME User PROVE EffectInv'
  <2>1. ASSUME Regenerate \/ (\E i \in DOMAIN chat : Rewind(i)) \/ CompactHistory
        PROVE  EffectInv'
    BY <1>4, <2>1 DEF Regenerate, StartRun, Rewind, CompactHistory, run
  <2>2. ASSUME \E b \in Texts, t \in Turns : Send(b, t) PROVE EffectInv'
    BY <1>1, <2>2 DEF Send, StartRun
  <2>3. ASSUME (\E s \in Steers : QueueSteering(s)) \/ CancelAgent PROVE EffectInv'
    BY <1>0, <1>1, <2>3 DEF QueueSteering, CancelAgent, effects
  <2>4. ASSUME Approve PROVE EffectInv'
    BY <1>1, <2>4 DEF Approve, Step, ToolFrame, UserFrame, NoPersist
  <2>5. ASSUME Reject PROVE EffectInv'
    BY <1>2, <2>5, GrowSteps DEF Reject, Deny, Step, ToolFrame, UserFrame
  <2>6. ASSUME AnswerQuestion PROVE EffectInv'
    BY <1>5, <2>6 DEF AnswerQuestion
  <2> QED
    BY <1>7, <2>1, <2>2, <2>3, <2>4, <2>5, <2>6 DEF User
<1>8. ASSUME Endpoint PROVE EffectInv'
  <2>1. ASSUME (\E a \in Answers : PlanAnswer(a) \/ StreamFinal(a)) \/ PlanFails
               \/ StreamFails \/ BudgetStops
        PROVE  EffectInv'
    BY <1>3, <2>1 DEF PlanAnswer, StreamFinal, PlanFails, StreamFails, BudgetStops, Outcomes
  <2>2. ASSUME NEW S \in SUBSET CallIds \ {{}}, StreamCalls(S) PROVE EffectInv'
    BY <1>2, <2>2, GrowSteps DEF StreamCalls, Step, UserFrame
  <2>3. ASSUME Feedback PROVE EffectInv'
    BY <1>2, <2>3, GrowSteps DEF Feedback, Step, UserFrame
  <2>4. ASSUME BeginChecks PROVE EffectInv'
    BY <1>1, <2>4 DEF BeginChecks, Step, ToolFrame, UserFrame, NoPersist
  <2> QED
    BY <1>8, <2>1, <2>2, <2>3, <2>4 DEF Endpoint
<1>9. ASSUME Local PROVE EffectInv'
  <2>1. ASSUME PlanStopped \/ TopStopped \/ SummaryFails \/ StreamStopped \/ LoopTripped
               \/ ToolsStopped \/ RoundStuck
        PROVE  EffectInv'
    BY <1>3, <2>1
    DEF PlanStopped, TopStopped, SummaryFails, StreamStopped, LoopTripped, ToolsStopped,
        RoundStuck, Outcomes
  <2>2. ASSUME FailEarly PROVE EffectInv'
    BY <1>1, <2>2 DEF FailEarly, Step, UserFrame, NoPersist
  <2>3. ASSUME Register PROVE EffectInv'
    <3>1. /\ pc = "sending" /\ pc' = (IF turn.plan THEN "plan" ELSE "top")
          /\ UNCHANGED <<snap, lost, landed, torn>>
      BY <2>3 DEF Register, Step, UserFrame, NoPersist
    <3>2. EffectsDurable'
      BY <1>0, <3>1, DurableStays
    <3>3. ~turn.plan => Resolved(snap.hist) \subseteq Resolved(wire'.hist)
      BY <2>3, RegisterKeeps, ResultsStay DEF TypeInv, TypeOK, Wire
    <3> QED
      BY <3>1, <3>2, <3>3 DEF EffectInv
  <2>4. ASSUME BeginRound PROVE EffectInv'
    BY <1>2, <2>4, GrowSteps DEF BeginRound, Step, RoundFrame, UserFrame
  <2>5. ~BeginSummary /\ ~SummaryDone
    BY <1>0 DEF BeginSummary, SummaryDone, Step
  <2>6. ASSUME ParallelBatch PROVE EffectInv'
    BY <1>2, <2>6, GrowSteps DEF ParallelBatch, Step, ToolFrame, UserFrame
  <2>7. ASSUME NEW c \in CallIds, BeginDenied(c) PROVE EffectInv'
    BY <1>2, <2>7, GrowSteps DEF BeginDenied, Deny, Step, ToolFrame, UserFrame
  <2>8. ASSUME NEW c \in CallIds, NEW to \in {"exec", "approval", "asking"}, Begin(c, to)
        PROVE  EffectInv'
    BY <1>1, <2>8 DEF Begin, Step, ToolFrame, UserFrame, NoPersist
  <2>9. ASSUME ShowApproval \/ RoundDone \/ BeginBatch PROVE EffectInv'
    BY <1>1, <2>9 DEF ShowApproval, RoundDone, BeginBatch, Step, ToolFrame, UserFrame, NoPersist
  <2>10. ASSUME Execute PROVE EffectInv'
    BY <1>0, <2>10
    DEF EffectInv, EffectsDurable, Execute, Step, ToolFrame, UserFrame, NoPersist
  <2>11. ASSUME RecordResult \/ RecordFailure PROVE EffectInv'
    BY <1>5, <2>11 DEF RecordResult, RecordFailure
  <2>12. ASSUME ChatDone \/ ChatFailed PROVE EffectInv'
    BY <1>1, <2>12 DEF ChatDone, ChatFailed, Step, CloseFrame, effects
  <2>13. ASSUME HookRefuses PROVE EffectInv'
    BY <1>2, <2>13, GrowSteps DEF HookRefuses, Deny, Step, ToolFrame, UserFrame
  <2> QED
    BY <1>9, <2>1, <2>2, <2>3, <2>4, <2>5, <2>6, <2>7, <2>8, <2>9, <2>10, <2>11, <2>12, <2>13
    DEF Local
<1>10. ASSUME Crash PROVE EffectInv'
  <2>1. /\ UNCHANGED <<snap, lost, landed>> /\ torn \subseteq torn' /\ pc' = "idle"
        /\ pc = "landed" => cur \in torn'
    BY <1>10 DEF Crash
  <2>2. EffectsDurable'
    BY <1>0, <2>1, DurableStays
  <2> QED
    BY <2>1, <2>2 DEF EffectInv
<1> QED
  BY <1>6, <1>7, <1>8, <1>9, <1>10 DEF Next

(* A side effect that took place has its result in the snapshot, or was torn  *)
(* by a crash (EffectsDurable), in any number of runs, whatever ids are       *)
(* reused, as long as no summary is made: that one condition is needed, see   *)
(* SummarySurvives.                                                           *)
THEOREM EffectsKept == ~AllowSummary => (Spec => []EffectsDurable)
<1> SUFFICES ASSUME ~AllowSummary
             PROVE  Spec => []EffectsDurable
  OBVIOUS
<1>1. Init => TypeInv /\ ChatInv /\ EffectInv
  <2>1. Init => ChatInv
    BY DEF Init, ChatInv
  <2>2. Init => EffectInv
    BY DEF Init, EffectInv, EffectsDurable, ToolStages
  <2> QED
    BY <2>1, <2>2, InitType
<1>2. TypeInv /\ ChatInv /\ EffectInv /\ [Next]_vars => (TypeInv /\ ChatInv /\ EffectInv)'
  BY TypeStep, ChatStep, EffectStep
<1>3. EffectInv => EffectsDurable
  BY DEF EffectInv
<1> QED
  BY <1>1, <1>2, <1>3, PTL DEF Spec

(* The notes of a run's wire are those of its turn, or a summary took them. *)
NoteInv ==
  /\ pc = "summarizing" => AllowSummary
  /\ pc \in ToolStages =>
       /\ SentNotes(wire) \subseteq TurnNotes(turn)
       /\ ~AllowSummary => TurnNotes(turn) \subseteq SentNotes(wire)

(* A run's turn never changes, and its wire gains no note. *)
LEMMA NoteStep ==
  ASSUME TypeInv, ChatInv, NoteInv, [Next]_vars
  PROVE  NoteInv'
<1> USE DEF ToolStages
<1>1. ASSUME pc' \notin ToolStages PROVE NoteInv'
  BY <1>1 DEF NoteInv
<1>2. ASSUME pc \in ToolStages, SentNotes(wire') = SentNotes(wire), turn' = turn,
             pc' = "summarizing" => AllowSummary
      PROVE  NoteInv'
  BY <1>2 DEF NoteInv, TurnNotes
<1>3. ASSUME UNCHANGED <<wire, turn>>, pc' \in ToolStages => pc \in ToolStages,
             pc' = "summarizing" => pc = "summarizing"
      PROVE  NoteInv'
  BY <1>3 DEF NoteInv, TurnNotes
<1>4. ASSUME NEW from, NEW outcome \in Outcomes, NEW text, Finish(from, outcome, text)
      PROVE  NoteInv'
  BY <1>1, <1>4 DEF Finish, Step, Outcomes
<1>5. ASSUME NEW from \in {"asking", "exec", "landed"}, Record(from) PROVE NoteInv'
  <2>1. WireGrows
    BY <1>5, RecordGrows DEF CallStages
  <2> QED
    BY <1>2, <1>5, <2>1 DEF WireGrows, Record, Step, ToolFrame, UserFrame
<1>6. CASE UNCHANGED vars
  BY <1>3, <1>6 DEF vars, run
<1>7. ASSUME User PROVE NoteInv'
  <2>1. ASSUME \/ (\E b \in Texts, t \in Turns : Send(b, t)) \/ Regenerate
               \/ (\E i \in DOMAIN chat : Rewind(i)) \/ CompactHistory
        PROVE  NoteInv'
    BY <1>1, <2>1 DEF Send, Regenerate, StartRun, Rewind, CompactHistory, run
  <2>2. ASSUME (\E s \in Steers : QueueSteering(s)) \/ CancelAgent \/ Approve PROVE NoteInv'
    BY <1>3, <2>2 DEF QueueSteering, CancelAgent, Approve, Step, ToolFrame, UserFrame
  <2>3. ASSUME Reject PROVE NoteInv'
    BY <1>2, <2>3, GrowSteps DEF WireGrows, Reject, Deny, Step, ToolFrame, UserFrame
  <2>4. ASSUME AnswerQuestion PROVE NoteInv'
    BY <1>5, <2>4 DEF AnswerQuestion
  <2> QED
    BY <1>7, <2>1, <2>2, <2>3, <2>4 DEF User
<1>8. ASSUME Endpoint PROVE NoteInv'
  <2>1. ASSUME (\E a \in Answers : PlanAnswer(a) \/ StreamFinal(a)) \/ PlanFails
               \/ StreamFails \/ BudgetStops
        PROVE  NoteInv'
    BY <1>4, <2>1 DEF PlanAnswer, StreamFinal, PlanFails, StreamFails, BudgetStops, Outcomes
  <2>2. ASSUME NEW S \in SUBSET CallIds \ {{}}, StreamCalls(S) PROVE NoteInv'
    BY <1>2, <2>2, GrowSteps DEF WireGrows, StreamCalls, Step, UserFrame
  <2>3. ASSUME Feedback PROVE NoteInv'
    BY <1>2, <2>3, GrowSteps DEF WireGrows, Feedback, Step, UserFrame
  <2>4. ASSUME BeginChecks PROVE NoteInv'
    BY <1>3, <2>4 DEF BeginChecks, Step, ToolFrame, UserFrame
  <2> QED
    BY <1>8, <2>1, <2>2, <2>3, <2>4 DEF Endpoint
<1>9. ASSUME Local PROVE NoteInv'
  <2>1. ASSUME PlanStopped \/ TopStopped \/ SummaryFails \/ StreamStopped \/ LoopTripped
               \/ ToolsStopped \/ RoundStuck
        PROVE  NoteInv'
    BY <1>4, <2>1
    DEF PlanStopped, TopStopped, SummaryFails, StreamStopped, LoopTripped, ToolsStopped,
        RoundStuck, Outcomes
  <2>2. ASSUME FailEarly \/ ChatDone \/ ChatFailed PROVE NoteInv'
    BY <1>1, <2>2 DEF FailEarly, ChatDone, ChatFailed, Step
  <2>3. ASSUME Register PROVE NoteInv'
    <3>1. turn' = turn /\ pc' = (IF turn.plan THEN "plan" ELSE "top")
      BY <2>3 DEF Register, Step, UserFrame
    <3>2. ~turn.plan => SentNotes(wire') = TurnNotes(turn)
      BY <2>3, RegisterKeeps
    <3> QED
      BY <3>1, <3>2 DEF NoteInv, TurnNotes
  <2>4. ASSUME BeginRound \/ BeginSummary PROVE NoteInv'
    BY <1>2, <2>4, GrowSteps DEF WireGrows, BeginRound, BeginSummary, Step, RoundFrame, UserFrame
  <2>5. ASSUME SummaryDone PROVE NoteInv'
    <3>1. /\ pc = "summarizing" /\ pc' = "stream" /\ turn' = turn /\ wire' = Summarize(wire)
      BY <2>5 DEF SummaryDone, Step, RoundFrame, UserFrame
    <3>2. SentNotes(wire') \subseteq SentNotes(wire)
      BY <3>1, SummarizeNotes DEF TypeInv, TypeOK
    <3> QED
      BY <3>1, <3>2 DEF NoteInv, TurnNotes
  <2>6. ASSUME ParallelBatch PROVE NoteInv'
    BY <1>2, <2>6, GrowSteps DEF WireGrows, ParallelBatch, Step, ToolFrame, UserFrame
  <2>7. ASSUME NEW c \in CallIds, BeginDenied(c) PROVE NoteInv'
    BY <1>2, <2>7, GrowSteps DEF WireGrows, BeginDenied, Deny, Step, ToolFrame, UserFrame
  <2>8. ASSUME \/ ShowApproval \/ Execute \/ RoundDone \/ BeginBatch
               \/ \E c \in CallIds, to \in {"exec", "approval", "asking"} : Begin(c, to)
        PROVE  NoteInv'
    BY <1>3, <2>8 DEF ShowApproval, Execute, RoundDone, BeginBatch, Begin, Step, ToolFrame, UserFrame
  <2>9. ASSUME RecordResult \/ RecordFailure PROVE NoteInv'
    BY <1>5, <2>9 DEF RecordResult, RecordFailure
  <2>10. ASSUME HookRefuses PROVE NoteInv'
    BY <1>2, <2>10, GrowSteps DEF WireGrows, HookRefuses, Deny, Step, ToolFrame, UserFrame
  <2> QED
    BY <1>9, <2>1, <2>2, <2>3, <2>4, <2>5, <2>6, <2>7, <2>8, <2>9, <2>10 DEF Local
<1>10. ASSUME Crash PROVE NoteInv'
  BY <1>1, <1>10 DEF Crash
<1> QED
  BY <1>6, <1>7, <1>8, <1>9, <1>10 DEF Next

(* A request carries the approved-plan instruction when, and only when, it is *)
(* of the run the plan was sent with (PlanNoteExact): a resume takes none     *)
(* from the snapshot, and only a summary may absorb it.                       *)
THEOREM PlanNotesExact == Spec => []PlanNoteExact
<1>1. Init => TypeInv /\ ChatInv /\ NoteInv
  <2>1. Init => ChatInv
    BY DEF Init, ChatInv
  <2>2. Init => NoteInv
    BY DEF Init, NoteInv, ToolStages
  <2> QED
    BY <2>1, <2>2, InitType
<1>2. TypeInv /\ ChatInv /\ NoteInv /\ [Next]_vars => (TypeInv /\ ChatInv /\ NoteInv)'
  BY TypeStep, ChatStep, NoteStep
<1>3. NoteInv => PlanNoteExact
  BY DEF NoteInv, PlanNoteExact, SentNotes, ToolStages
<1> QED
  BY <1>1, <1>2, <1>3, PTL DEF Spec

-----------------------------------------------------------------------------
(* The ledger of calls. *)

(* The wire of a run is ahead of the snapshot by results only, and a request *)
(* is what was persisted, unless a write failed.                             *)
LedgerInv ==
  /\ pc # "summarizing"
  /\ lost = 0 /\ pc \in ToolStages =>
       /\ Declared(wire.hist) = Declared(snap.hist)
       /\ Answered(snap.hist) \subseteq Answered(wire.hist)
  /\ lost = 0 /\ pc = "stream" => snap = wire

(* What is durable takes a step of the ledger, or none that it sees. *)
LedgerMoves ==
  lost' = 0 => Ledger!Next \/ UNCHANGED <<Orphans(snap.hist), Answered(snap.hist)>>

(* The same declarations with more answers: calls are settled. *)
LEMMA SettleMoves ==
  ASSUME NEW h \in Seq(Msg), NEW g \in Seq(Msg), Closable(g),
         Declared(g) = Declared(h), Answered(h) \subseteq Answered(g)
  PROVE  \E S \in SUBSET CallIds : /\ S \subseteq Orphans(h)
                                   /\ Orphans(g) = Orphans(h) \ S
                                   /\ Answered(g) = Answered(h) \cup S
<1>1. Answered(g) \subseteq Declared(g) /\ Declared(g) \subseteq CallIds
  BY AnsweredDeclared, DeclaredType DEF Closable
<1> DEFINE S == Answered(g) \ Answered(h)
<1>2. S \in SUBSET CallIds /\ S \subseteq Orphans(h)
  BY <1>1 DEF Orphans
<1>3. Orphans(g) = Orphans(h) \ S /\ Answered(g) = Answered(h) \cup S
  BY <1>1 DEF Orphans
<1> QED
  BY <1>2, <1>3

(* A step that adds results or messages of the user, persisted or not. *)
LEMMA ResultsMove ==
  ASSUME TypeInv, PairInv, PairInv', LedgerInv, WireGrows,
         pc \in ToolStages, pc' \notin {"summarizing", "stream"},
         Persist(wire') \/ NoPersist,
         Declared(wire'.hist) = Declared(wire.hist)
  PROVE  LedgerInv' /\ LedgerMoves
<1>1. PICK w \in Seq(Msg), g \in Seq(Msg), s \in Seq(Msg) :
        w = wire.hist /\ g = wire'.hist /\ s = snap.hist
  BY DEF TypeInv, TypeOK, Wire, WireGrows
<1>2. Answered(w) \subseteq Answered(g)
  BY <1>1, CallsStay DEF WireGrows
<1>3. Closable(g)
  BY <1>1 DEF PairInv
<1>4. lost' = 0 => lost = 0 /\ (snap' = wire' \/ snap' = snap)
  BY DEF Persist, NoPersist, TypeInv, TypeOK
<1>5. lost = 0 => Declared(g) = Declared(s) /\ Answered(s) \subseteq Answered(g)
  BY <1>1, <1>2 DEF LedgerInv
<1>6. LedgerInv'
  BY <1>1, <1>4, <1>5 DEF LedgerInv
<1>7. ASSUME lost' = 0, snap' = wire' PROVE Ledger!Next
  <2>1. PICK S \in SUBSET CallIds :
          S \subseteq Orphans(s) /\ Orphans(g) = Orphans(s) \ S /\ Answered(g) = Answered(s) \cup S
    BY <1>3, <1>4, <1>5, <1>7, SettleMoves
  <2>2. Ledger!Settle(S)
    BY <1>1, <1>7, <2>1 DEF Ledger!Settle
  <2> QED
    BY <2>2 DEF Ledger!Next
<1> QED
  BY <1>4, <1>6, <1>7 DEF LedgerMoves

(* Pushing anything but a declaration declares nothing. *)
LEMMA PushDeclares ==
  ASSUME TypeInv, NEW m \in Msg, m.role # "assistant", wire' = Push(wire, m)
  PROVE  Declared(wire'.hist) = Declared(wire.hist)
<1>1. wire \in Wire
  BY DEF TypeInv, TypeOK
<1>2. PICK p : p = Push(wire, m)
  OBVIOUS
<1>3. /\ p \in Wire /\ Len(p.hist) = Len(wire.hist) + 1 /\ Extends(wire.hist, p.hist)
      /\ p.hist[Len(wire.hist) + 1].role = m.role
  BY <1>1, <1>2, PushProperties
<1>4. wire.hist \in Seq(Msg) /\ p.hist \in Seq(Msg) /\ Len(wire.hist) \in Nat
  BY <1>1, <1>3 DEF Wire
<1>5. \A j \in 1..Len(p.hist) : j > Len(wire.hist) => p.hist[j].role # "assistant"
  <2>1. \A j \in 1..Len(p.hist) : j > Len(wire.hist) => j = Len(wire.hist) + 1
    BY <1>3, <1>4
  <2> QED
    BY <1>3, <2>1
<1> QED
  BY <1>2, <1>3, <1>4, <1>5, NothingDeclared

(* The top of a round: what the request carries is persisted, and all the    *)
(* calls it declares are settled.                                            *)
LEMMA BeginRoundMoves ==
  ASSUME TypeInv, PairInv, PairInv', LedgerInv, BeginRound
  PROVE  LedgerInv' /\ LedgerMoves
<1>1. WireGrows
  BY GrowSteps
<1>2. PICK w \in Seq(Msg), g \in Seq(Msg), s \in Seq(Msg) :
        w = wire.hist /\ g = wire'.hist /\ s = snap.hist
  BY <1>1 DEF TypeInv, TypeOK, Wire, WireGrows
<1>3. Declared(g) = Declared(w)
  <2>1. \A j \in 1..Len(g) : j > Len(w) => g[j].role = "user"
    BY <1>2, InjectedProperties DEF BeginRound, TypeInv, TypeOK
  <2> QED
    BY <1>1, <1>2, <2>1, CallsStay, NothingDeclared DEF WireGrows
<1>4. Answered(w) \subseteq Answered(g)
  BY <1>1, <1>2, CallsStay DEF WireGrows
<1>5. lost' = 0 => lost = 0 /\ snap' = wire'
  BY DEF BeginRound, Persist, TypeInv, TypeOK
<1>6. pc = "top" /\ pc' = "stream"
  BY DEF BeginRound, Step
<1>7. lost = 0 => Declared(g) = Declared(s) /\ Answered(s) \subseteq Answered(g)
  BY <1>2, <1>3, <1>4, <1>6 DEF LedgerInv, ToolStages
<1>8. LedgerInv'
  BY <1>5, <1>6 DEF LedgerInv
<1>9. ASSUME lost' = 0 PROVE Ledger!Next
  <2>1. Closable(g)
    BY <1>2 DEF PairInv
  <2>2. PICK S \in SUBSET CallIds :
          S \subseteq Orphans(s) /\ Orphans(g) = Orphans(s) \ S /\ Answered(g) = Answered(s) \cup S
    BY <1>5, <1>7, <1>9, <2>1, SettleMoves
  <2>3. Ledger!Settle(S)
    BY <1>2, <1>5, <1>9, <2>2 DEF Ledger!Settle
  <2> QED
    BY <2>3 DEF Ledger!Next
<1> QED
  BY <1>8, <1>9 DEF LedgerMoves

(* The answer that declares calls: a new batch, when the last one is settled. *)
LEMMA CallsMove ==
  ASSUME TypeInv, PairInv, LedgerInv, ReusableIds = {},
         NEW S \in SUBSET CallIds, StreamCalls(S)
  PROVE  LedgerInv' /\ LedgerMoves
<1>1. PICK h \in Seq(Msg) : h = wire.hist
  BY DEF TypeInv, TypeOK, Wire
<1>2. PICK g : g = wire'.hist
  OBVIOUS
<1>3. CallMsg(S) \in Msg /\ CallMsg(S).role = "assistant" /\ CallMsg(S).ids = S
  BY MessageTypes DEF CallMsg
<1>4. /\ g \in Seq(Msg) /\ Len(g) = Len(h) + 1 /\ Extends(h, g)
      /\ g[Len(g)].role = "assistant" /\ g[Len(g)].ids = S
  <2>1. wire \in Wire /\ wire' = Push(wire, CallMsg(S))
    BY DEF TypeInv, TypeOK, StreamCalls
  <2> QED
    BY <1>1, <1>2, <1>3, <2>1, PushProperties DEF Wire
<1>5. Closable(h) /\ WellPaired(h) /\ Declared(h) \subseteq used /\ S \cap used = {}
  BY <1>1 DEF PairInv, StreamCalls, Step
<1>6. S \subseteq Orphans(g)
  BY <1>4, <1>5, NewCallsOpen DEF IsCall
<1>7. Declared(g) = Declared(h) \cup S
  BY <1>4, <1>5, AddCalls DEF IsCall
<1>8. \A c : c \in Answered(g) <=> c \in Answered(h)
  <2>1. Len(h) \in Nat /\ \A j \in 1..Len(g) : j \in 1..Len(h) \/ j = Len(g)
    BY <1>4
  <2>2. \A j \in 1..Len(h) : j \in 1..Len(g) /\ g[j].role = h[j].role /\ g[j].ids = h[j].ids
    BY <1>4 DEF Extends
  <2> QED
    BY <1>4, <2>1, <2>2, DeclaredAt DEF IsTool
<1>9. Orphans(h) = {} /\ Answered(h) \subseteq Declared(h)
  BY <1>5, PairedIsSettled, AnsweredDeclared DEF Closable
<1>10. Orphans(g) = S /\ Answered(g) = Answered(h) /\ S \cap Answered(h) = {}
  BY <1>5, <1>6, <1>7, <1>8, <1>9 DEF Orphans
<1>11. lost' = 0 => lost = 0 /\ snap' = wire' /\ snap = wire
  BY DEF StreamCalls, Persist, Step, TypeInv, TypeOK, LedgerInv
<1>12. LedgerInv'
  BY <1>11 DEF LedgerInv, StreamCalls, Step
<1>13. ASSUME lost' = 0 PROVE Ledger!Next
  <2>1. Ledger!Declare(S)
    BY <1>1, <1>2, <1>9, <1>10, <1>11, <1>13 DEF Ledger!Declare
  <2> QED
    BY <2>1 DEF Ledger!Next
<1> QED
  BY <1>12, <1>13 DEF LedgerMoves

(* The run starts: its wire declares what the snapshot does. *)
LEMMA RegisterMoves ==
  ASSUME TypeInv, PairInv, ChatInv, LedgerInv, Register
  PROVE  LedgerInv' /\ LedgerMoves
<1>1. /\ pc' = (IF turn.plan THEN "plan" ELSE "top") /\ UNCHANGED <<snap, lost>>
  BY DEF Register, Step, NoPersist
<1>2. ASSUME ~turn.plan
      PROVE  /\ Declared(wire'.hist) = Declared(snap.hist)
             /\ Answered(snap.hist) \subseteq Answered(wire'.hist)
  <2>1. PICK f : f = [EmptyWire EXCEPT !.hist = [chat EXCEPT ![Len(chat)].notes = TurnNotes(turn)]]
    OBVIOUS
  <2>2. wire' = AssembleResume(snap, f)
    BY <1>2, <2>1 DEF Register
  <2>3. f \in Wire /\ Plain(f.hist)
    BY <2>1, FreshWire DEF TypeInv, TypeOK, PairInv
  <2>4. snap \in Wire /\ Closable(snap.hist)
    BY DEF TypeInv, TypeOK, PairInv
  <2>5. Declared(AssembleResume(snap, f).hist) \subseteq Declared(snap.hist)
    BY <2>3, <2>4, AssembleProperties
  <2>6. wire'.hist \in Seq(Msg) /\ Begins(snap.hist, wire'.hist)
    BY <1>2, RegisterKeeps
  <2>7. snap.hist \in Seq(Msg)
    BY <2>4 DEF Wire
  <2> QED
    BY <2>2, <2>5, <2>6, <2>7, CallsStay
<1> QED
  BY <1>1, <1>2 DEF LedgerInv, LedgerMoves, ToolStages

(* Every step of the loop is one of the ledger, or none. *)
LEMMA LedgerStep ==
  ASSUME TypeInv, PairInv, ChatInv, LedgerInv, PairInv',
         ReusableIds = {}, ~AllowSummary, [Next]_vars
  PROVE  LedgerInv' /\ LedgerMoves
<1> USE DEF ToolStages
<1>0. pc # "summarizing" /\ lost \in Nat
  BY DEF LedgerInv, TypeInv, TypeOK
<1>1. ASSUME UNCHANGED <<snap, lost>>,
             pc' \notin ToolStages
             \/ (wire' = wire /\ pc \in ToolStages /\ (pc' \in {"stream", "summarizing"} => pc' = pc))
      PROVE  LedgerInv' /\ LedgerMoves
  BY <1>0, <1>1 DEF LedgerInv, LedgerMoves
<1>2. ASSUME NEW from, NEW outcome \in Outcomes, NEW text, Finish(from, outcome, text)
      PROVE  LedgerInv' /\ LedgerMoves
  BY <1>1, <1>2 DEF Finish, Step, NoPersist, Outcomes
<1>3. ASSUME ForgetSnapshot, pc' \notin ToolStages PROVE LedgerInv' /\ LedgerMoves
  <2>1. Orphans(EmptyWire.hist) = {} /\ Answered(EmptyWire.hist) = {}
    BY DEF EmptyWire, Orphans, Declared, Answered, OfRole
  <2>2. Ledger!Forget
    BY <1>3, <2>1 DEF ForgetSnapshot, Ledger!Forget
  <2> QED
    BY <1>3, <2>2 DEF LedgerInv, LedgerMoves, Ledger!Next
<1>4. ASSUME NEW c \in CallIds, NEW b \in Bodies, wire' = Push(wire, ToolMsg(c, b))
      PROVE  WireGrows /\ Declared(wire'.hist) = Declared(wire.hist)
  <2>1. ToolMsg(c, b) \in Msg /\ ToolMsg(c, b).notes = {} /\ ToolMsg(c, b).role = "tool"
    BY MessageTypes DEF ToolMsg
  <2>2. WireGrows
    BY <1>4, <2>1, PushGrows
  <2> QED
    BY <1>4, <2>1, <2>2, PushDeclares
<1>5. ASSUME NEW from \in {"asking", "exec", "landed"}, Record(from)
      PROVE  LedgerInv' /\ LedgerMoves
  <2>1. cur \in CallIds /\ "result" \in Bodies
    BY <1>5, MessageTypes DEF Record, Step, TypeInv, TypeOK, Handling, CallStages, OwnBodies
  <2>2. WireGrows /\ Declared(wire'.hist) = Declared(wire.hist)
    BY <1>4, <1>5, <2>1 DEF Record
  <2> QED
    BY <1>5, <2>2, ResultsMove DEF Record, Step
<1>6. ASSUME NEW c \in CallIds, Deny(c), pc \in {"tools", "shown", "exec"}, pc' = "tools"
      PROVE  LedgerInv' /\ LedgerMoves
  <2>1. "denied" \in Bodies
    BY MessageTypes DEF OwnBodies
  <2>2. WireGrows /\ Declared(wire'.hist) = Declared(wire.hist)
    BY <1>4, <1>6, <2>1 DEF Deny
  <2> QED
    BY <1>6, <2>2, ResultsMove DEF Deny
<1>7. CASE UNCHANGED vars
  <2>1. UNCHANGED <<snap, lost, pc, wire>>
    BY <1>7 DEF vars, run
  <2> QED
    BY <1>0, <1>1, <2>1
<1>8. ASSUME User PROVE LedgerInv' /\ LedgerMoves
  <2>1. ASSUME Regenerate \/ (\E i \in DOMAIN chat : Rewind(i)) \/ CompactHistory
        PROVE  LedgerInv' /\ LedgerMoves
    BY <1>3, <2>1 DEF Regenerate, StartRun, Rewind, CompactHistory, run
  <2>2. ASSUME \E b \in Texts, t \in Turns : Send(b, t) PROVE LedgerInv' /\ LedgerMoves
    BY <1>1, <2>2 DEF Send, StartRun
  <2>3. ASSUME (\E s \in Steers : QueueSteering(s)) \/ CancelAgent \/ Approve
        PROVE  LedgerInv' /\ LedgerMoves
    BY <1>0, <1>1, <2>3 DEF QueueSteering, CancelAgent, Approve, Step, NoPersist
  <2>4. ASSUME Reject PROVE LedgerInv' /\ LedgerMoves
    BY <1>6, <2>4 DEF Reject, Step, TypeInv, TypeOK, Handling, CallStages
  <2>5. ASSUME AnswerQuestion PROVE LedgerInv' /\ LedgerMoves
    BY <1>5, <2>5 DEF AnswerQuestion
  <2> QED
    BY <1>8, <2>1, <2>2, <2>3, <2>4, <2>5 DEF User
<1>9. ASSUME Endpoint PROVE LedgerInv' /\ LedgerMoves
  <2>1. ASSUME (\E a \in Answers : PlanAnswer(a) \/ StreamFinal(a)) \/ PlanFails
               \/ StreamFails \/ BudgetStops
        PROVE  LedgerInv' /\ LedgerMoves
    BY <1>2, <2>1 DEF PlanAnswer, StreamFinal, PlanFails, StreamFails, BudgetStops, Outcomes
  <2>2. ASSUME NEW S \in SUBSET CallIds \ {{}}, StreamCalls(S) PROVE LedgerInv' /\ LedgerMoves
    BY <2>2, CallsMove
  <2>3. ASSUME Feedback PROVE LedgerInv' /\ LedgerMoves
    <3>1. UserMsg("feedback", {}) \in Msg /\ UserMsg("feedback", {}).role = "user"
      BY MessageTypes DEF UserMsg, OwnBodies
    <3>2. WireGrows
      BY <2>3, GrowSteps
    <3>3. Declared(wire'.hist) = Declared(wire.hist)
      BY <2>3, <3>1, PushDeclares DEF Feedback
    <3> QED
      BY <2>3, <3>2, <3>3, ResultsMove DEF Feedback, Step
  <2>4. ASSUME BeginChecks PROVE LedgerInv' /\ LedgerMoves
    BY <1>1, <2>4 DEF BeginChecks, Step, NoPersist
  <2> QED
    BY <1>9, <2>1, <2>2, <2>3, <2>4 DEF Endpoint
<1>10. ASSUME Local PROVE LedgerInv' /\ LedgerMoves
  <2>1. ASSUME PlanStopped \/ TopStopped \/ SummaryFails \/ StreamStopped \/ LoopTripped
               \/ ToolsStopped \/ RoundStuck
        PROVE  LedgerInv' /\ LedgerMoves
    BY <1>2, <2>1
    DEF PlanStopped, TopStopped, SummaryFails, StreamStopped, LoopTripped, ToolsStopped,
        RoundStuck, Outcomes
  <2>2. ASSUME FailEarly \/ ChatDone \/ ChatFailed PROVE LedgerInv' /\ LedgerMoves
    BY <1>1, <2>2 DEF FailEarly, ChatDone, ChatFailed, Step, NoPersist, CloseFrame
  <2>3. ASSUME Register PROVE LedgerInv' /\ LedgerMoves
    BY <2>3, RegisterMoves
  <2>4. ASSUME BeginRound PROVE LedgerInv' /\ LedgerMoves
    BY <2>4, BeginRoundMoves
  <2>5. ~BeginSummary /\ ~SummaryDone
    BY <1>0 DEF BeginSummary, SummaryDone, Step
  <2>6. ASSUME ParallelBatch PROVE LedgerInv' /\ LedgerMoves
    <3>1. WireGrows
      BY <2>6, GrowSteps
    <3>2. PICK h \in Seq(Msg), g \in Seq(Msg) : h = wire.hist /\ g = wire'.hist
      BY <3>1 DEF TypeInv, TypeOK, Wire, WireGrows
    <3>3. PICK t : t = ToolMsgs(todo, "result")
      OBVIOUS
    <3>4. t \in Seq(Msg) /\ \A i \in 1..Len(t) : t[i].role = "tool"
      <4>1. \A c : ToolMsg(c, "result").role = "tool"
        BY DEF ToolMsg
      <4>2. todo \in SUBSET CallIds /\ "result" \in Bodies
        BY MessageTypes DEF TypeInv, TypeOK, OwnBodies
      <4>3. PICK S \in SUBSET CallIds, b \in Bodies : S = todo /\ b = "result"
        BY <4>2
      <4>4. t \in Seq(Msg) /\ \A i \in 1..Len(t) : \E c \in S : t[i] = ToolMsg(c, b)
        BY <3>3, <4>3, ToolMsgsProperties
      <4> QED
        BY <4>1, <4>3, <4>4
    <3>5. g = h \o t
      <4>1. wire' = [wire EXCEPT !.hist = h \o t] /\ wire \in Wire
        BY <2>6, <3>2, <3>3 DEF ParallelBatch, TypeInv, TypeOK
      <4> QED
        BY <3>2, <4>1 DEF Wire
    <3>6. Extends(h, g) /\ \A j \in 1..Len(g) : j > Len(h) => g[j].role # "assistant"
      <4>1. /\ Extends(h, g)
            /\ \A j \in 1..Len(g) : j > Len(h) => j - Len(h) \in 1..Len(t) /\ g[j] = t[j - Len(h)]
        BY <3>4, <3>5, ConcatExtends
      <4>2. \A i \in 1..Len(t) : t[i].role # "assistant"
        BY <3>4
      <4> QED
        BY <4>1, <4>2
    <3>7. Declared(wire'.hist) = Declared(wire.hist)
      BY <3>2, <3>6, NothingDeclared
    <3> QED
      BY <2>6, <3>1, <3>7, ResultsMove DEF ParallelBatch, Step
  <2>7. ASSUME NEW c \in CallIds, BeginDenied(c) PROVE LedgerInv' /\ LedgerMoves
    BY <1>6, <2>7 DEF BeginDenied, Step
  <2>8. ASSUME \/ ShowApproval \/ Execute \/ RoundDone \/ BeginBatch
               \/ \E c \in CallIds, to \in {"exec", "approval", "asking"} : Begin(c, to)
        PROVE  LedgerInv' /\ LedgerMoves
    BY <1>1, <2>8 DEF ShowApproval, Execute, RoundDone, BeginBatch, Begin, Step, NoPersist
  <2>9. ASSUME RecordResult \/ RecordFailure PROVE LedgerInv' /\ LedgerMoves
    BY <1>5, <2>9 DEF RecordResult, RecordFailure
  <2>10. ASSUME HookRefuses PROVE LedgerInv' /\ LedgerMoves
    BY <1>6, <2>10 DEF HookRefuses, Step, TypeInv, TypeOK, Handling, CallStages
  <2> QED
    BY <1>10, <2>1, <2>2, <2>3, <2>4, <2>5, <2>6, <2>7, <2>8, <2>9, <2>10 DEF Local
<1>11. ASSUME Crash PROVE LedgerInv' /\ LedgerMoves
  BY <1>1, <1>11 DEF Crash
<1> QED
  BY <1>7, <1>8, <1>9, <1>10, <1>11 DEF Next

(* The snapshot implements the ledger of calls (LedgerSpec, CallLedger): a    *)
(* batch is declared only when the last is settled, and no settled call is    *)
(* open again, over any number of runs, stops, crashes and resumes, until a   *)
(* write is lost.  No id is reused and nothing is summarized.                 *)
THEOREM LedgerImplemented == ReusableIds = {} /\ ~AllowSummary => (Spec => LedgerSpec)
<1> SUFFICES ASSUME ReusableIds = {}, ~AllowSummary
             PROVE  Spec => LedgerSpec
  OBVIOUS
<1>1. Init => ChatInv /\ LedgerInv /\ Ledger!Init
  <2>1. Init => ChatInv /\ LedgerInv
    BY DEF Init, ChatInv, LedgerInv, ToolStages
  <2>2. Orphans(EmptyWire.hist) = {} /\ Answered(EmptyWire.hist) = {}
    BY DEF EmptyWire, Orphans, Declared, Answered, OfRole
  <2>3. Init => Ledger!Init
    BY <2>2 DEF Init, Ledger!Init
  <2> QED
    BY <2>1, <2>3
<1>2. /\ TypeInv /\ PairInv /\ ChatInv /\ LedgerInv /\ [Next]_vars /\ PairInv'
      => /\ ChatInv' /\ LedgerInv'
         /\ [lost' = 0 => Ledger!Next]_<<Orphans(snap.hist), Answered(snap.hist)>>
  BY ChatStep, LedgerStep DEF LedgerMoves
<1> QED
  BY <1>1, <1>2, PairsInvariant, PTL DEF Spec, LedgerSpec

-----------------------------------------------------------------------------
(* Results through a compaction. *)

(* Every step of a run that writes its wire but the summary keeps the memo. *)
LEMMA MemoKept ==
  ASSUME TypeInv,
         \/ wire' = Injected
         \/ \E m : wire' = Push(wire, m)
         \/ \E h : wire' = [wire EXCEPT !.hist = h]
         \/ UNCHANGED wire
  PROVE  wire'.memo = wire.memo
<1>1. wire = [memo |-> wire.memo, hist |-> wire.hist, tail |-> wire.tail]
  BY DEF TypeInv, TypeOK, Wire
<1> QED
  BY <1>1 DEF Injected, Push

LEMMA ResultsStep ==
  ASSUME TypeInv, Next, {pc, pc'} \subseteq ToolStages
  PROVE  KnownResults(wire) \subseteq KnownResults(wire')
<1> USE DEF ToolStages
<1>1. pc \in ToolStages /\ pc' \in ToolStages
  OBVIOUS
<1>2. ASSUME UNCHANGED wire PROVE KnownResults(wire) \subseteq KnownResults(wire')
  BY <1>2 DEF KnownResults
<1>3. ASSUME WireGrows, wire'.memo = wire.memo
      PROVE  KnownResults(wire) \subseteq KnownResults(wire')
  BY <1>3, ResultsStay DEF KnownResults, WireGrows, TypeInv, TypeOK, Wire
<1>4. ASSUME NEW from, NEW outcome \in Outcomes, NEW text, Finish(from, outcome, text)
      PROVE  FALSE
  BY <1>1, <1>4 DEF Finish, Step, Outcomes
<1>5. ASSUME NEW from \in {"asking", "exec", "landed"}, Record(from)
      PROVE  KnownResults(wire) \subseteq KnownResults(wire')
  BY <1>3, <1>5, RecordGrows, MemoKept DEF Record, CallStages
<1>6. ASSUME User PROVE KnownResults(wire) \subseteq KnownResults(wire')
  <2>1. ~((\E b \in Texts, t \in Turns : Send(b, t)) \/ Regenerate
          \/ (\E i \in DOMAIN chat : Rewind(i)) \/ CompactHistory)
    BY <1>1 DEF Send, Regenerate, StartRun, Rewind, CompactHistory
  <2>2. ASSUME (\E s \in Steers : QueueSteering(s)) \/ CancelAgent \/ Approve
        PROVE  KnownResults(wire) \subseteq KnownResults(wire')
    BY <1>2, <2>2 DEF QueueSteering, CancelAgent, Approve
  <2>3. ASSUME Reject PROVE KnownResults(wire) \subseteq KnownResults(wire')
    BY <1>3, <2>3, GrowSteps, MemoKept DEF Reject, Deny
  <2>4. ASSUME AnswerQuestion PROVE KnownResults(wire) \subseteq KnownResults(wire')
    BY <1>5, <2>4 DEF AnswerQuestion
  <2> QED
    BY <1>6, <2>1, <2>2, <2>3, <2>4 DEF User
<1>7. ASSUME Endpoint PROVE KnownResults(wire) \subseteq KnownResults(wire')
  <2>1. ~((\E a \in Answers : PlanAnswer(a) \/ StreamFinal(a)) \/ PlanFails
          \/ StreamFails \/ BudgetStops)
    BY <1>4 DEF PlanAnswer, StreamFinal, PlanFails, StreamFails, BudgetStops, Outcomes
  <2>2. ASSUME NEW S \in SUBSET CallIds \ {{}}, StreamCalls(S)
        PROVE  KnownResults(wire) \subseteq KnownResults(wire')
    BY <1>3, <2>2, GrowSteps, MemoKept DEF StreamCalls
  <2>3. ASSUME Feedback PROVE KnownResults(wire) \subseteq KnownResults(wire')
    BY <1>3, <2>3, GrowSteps, MemoKept DEF Feedback
  <2>4. ASSUME BeginChecks PROVE KnownResults(wire) \subseteq KnownResults(wire')
    BY <1>2, <2>4 DEF BeginChecks
  <2> QED
    BY <1>7, <2>1, <2>2, <2>3, <2>4 DEF Endpoint
<1>8. ASSUME Local PROVE KnownResults(wire) \subseteq KnownResults(wire')
  <2>1. ~(PlanStopped \/ TopStopped \/ SummaryFails \/ StreamStopped \/ LoopTripped
          \/ ToolsStopped \/ RoundStuck)
    BY <1>4
    DEF PlanStopped, TopStopped, SummaryFails, StreamStopped, LoopTripped, ToolsStopped,
        RoundStuck, Outcomes
  <2>2. ~(FailEarly \/ Register \/ ChatDone \/ ChatFailed)
    BY <1>1 DEF FailEarly, Register, ChatDone, ChatFailed, Step
  <2>3. ASSUME BeginRound \/ BeginSummary
        PROVE  KnownResults(wire) \subseteq KnownResults(wire')
    BY <1>3, <2>3, GrowSteps, MemoKept DEF BeginRound, BeginSummary
  <2>4. ASSUME SummaryDone PROVE KnownResults(wire) \subseteq KnownResults(wire')
    BY <2>4, SummarizeResults DEF SummaryDone, KnownResults, TypeInv, TypeOK
  <2>5. ASSUME ParallelBatch PROVE KnownResults(wire) \subseteq KnownResults(wire')
    BY <1>3, <2>5, GrowSteps, MemoKept DEF ParallelBatch
  <2>6. ASSUME NEW c \in CallIds, BeginDenied(c)
        PROVE  KnownResults(wire) \subseteq KnownResults(wire')
    BY <1>3, <2>6, GrowSteps, MemoKept DEF BeginDenied, Deny
  <2>7. ASSUME \/ ShowApproval \/ Execute \/ RoundDone \/ BeginBatch
               \/ \E c \in CallIds, to \in {"exec", "approval", "asking"} : Begin(c, to)
        PROVE  KnownResults(wire) \subseteq KnownResults(wire')
    BY <1>2, <2>7 DEF ShowApproval, Execute, RoundDone, BeginBatch, Begin
  <2>8. ASSUME RecordResult \/ RecordFailure
        PROVE  KnownResults(wire) \subseteq KnownResults(wire')
    BY <1>5, <2>8 DEF RecordResult, RecordFailure
  <2>9. ASSUME HookRefuses PROVE KnownResults(wire) \subseteq KnownResults(wire')
    BY <1>3, <2>9, GrowSteps, MemoKept DEF HookRefuses, Deny
  <2> QED
    BY <1>8, <2>1, <2>2, <2>3, <2>4, <2>5, <2>6, <2>7, <2>8, <2>9 DEF Local
<1>9. ~Crash
  BY <1>1 DEF Crash
<1> QED
  BY <1>6, <1>7, <1>8, <1>9 DEF Next

(* A result the model has seen in a run is not lost within it (ResultsKept):  *)
(* a summary takes what it cuts, wherever the cut falls.                      *)
THEOREM ResultsAreKept == Spec => ResultsKept
<1>1. /\ TypeInv /\ [Next]_vars
      => [{pc, pc'} \subseteq ToolStages => KnownResults(wire) \subseteq KnownResults(wire')]_vars
  BY ResultsStep
<1>2. Spec => []TypeInv
  BY InitType, TypeStep, PTL DEF Spec
<1> QED
  BY <1>1, <1>2, PTL DEF Spec, ResultsKept

-----------------------------------------------------------------------------
(* What a request says of the calls. *)

(* No call has two results in the snapshot or in the wire of a run, and a     *)
(* torn call is open in the snapshot until a resume reports it.               *)
AnswerInv ==
  /\ pc # "summarizing"
  /\ Once(snap.hist)
  /\ pc \in ToolStages => Once(wire.hist)
  /\ lost = 0 => \A c \in torn : Interrupted(snap.hist, c) \/ c \in Orphans(snap.hist)
  /\ lost = 0 /\ pc \in ToolStages => \A c \in torn : Interrupted(wire.hist, c)

(* A step of a run that only adds messages, and answers open calls only. *)
AnswersGrow ==
  /\ wire.hist \in Seq(Msg) /\ wire'.hist \in Seq(Msg)
  /\ Keeps(wire.hist, wire'.hist)
  /\ NewAnswers(wire.hist, wire'.hist)

(* Pushing a message that answers no call, or one that is open, is one. *)
LEMMA PushAnswers ==
  ASSUME TypeInv, NEW m \in Msg, wire' = Push(wire, m),
         m.role = "tool" => \E c \in Orphans(wire.hist) : m.ids = {c}
  PROVE  AnswersGrow
<1>1. wire \in Wire /\ wire.hist \in Seq(Msg) /\ wire.tail \in SUBSET Notes
  BY DEF TypeInv, TypeOK, Wire
<1>a. PICK n : n = [m EXCEPT !.notes = @ \cup wire.tail]
  OBVIOUS
<1>2. PICK h \in Seq(Msg) : h = wire.hist /\ n = [m EXCEPT !.notes = @ \cup wire.tail]
  BY <1>1, <1>a
<1>3. n \in Msg /\ n.role = m.role /\ n.ids = m.ids
  BY <1>1, <1>2 DEF Msg
<1>4. PICK g : g = Append(h, n)
  OBVIOUS
<1>5. /\ g \in Seq(Msg) /\ Len(g) = Len(h) + 1 /\ g[Len(h) + 1] = n /\ Len(h) \in Nat
      /\ \A i \in 1..Len(h) : i \in 1..Len(g) /\ g[i] = h[i]
  BY <1>3, <1>4, AppendProperties
<1>6. wire'.hist = g
  <2>1. wire' = [wire EXCEPT !.hist = g, !.tail = {}]
    BY <1>2, <1>4 DEF Push
  <2> QED
    BY <1>1, <2>1 DEF Wire
<1>7. NewAnswers(h, g)
  <2>1. \A j \in 1..Len(g) : j > Len(h) => j = Len(h) + 1
    BY <1>5
  <2>2. ASSUME NEW j \in 1..Len(g), j > Len(h), IsTool(g, j)
        PROVE  \E c : g[j].ids = {c} /\ c \notin Answered(h)
    BY <1>2, <1>3, <1>5, <2>1, <2>2 DEF IsTool, Orphans
  <2> QED
    BY <2>1, <2>2 DEF NewAnswers
<1>8. Keeps(h, g)
  BY <1>5 DEF Keeps
<1> QED
  BY <1>2, <1>5, <1>6, <1>7, <1>8 DEF AnswersGrow

(* The result of an open call is one. *)
LEMMA ResultAnswers ==
  ASSUME TypeInv, NEW c \in CallIds, c \in Orphans(wire.hist), NEW b \in Bodies,
         wire' = Push(wire, ToolMsg(c, b))
  PROVE  AnswersGrow
<1>1. ToolMsg(c, b) \in Msg /\ ToolMsg(c, b).ids = {c}
  BY MessageTypes DEF ToolMsg
<1> QED
  BY <1>1, PushAnswers

(* The steps of a run that write its wire, once it has begun. *)
LEMMA AnswerSteps ==
  ASSUME TypeInv, AheadInv,
         \/ BeginRound \/ Feedback \/ ParallelBatch \/ Reject \/ HookRefuses
         \/ AnswerQuestion \/ RecordResult \/ RecordFailure
         \/ \E S \in SUBSET CallIds : StreamCalls(S)
         \/ \E c \in CallIds : BeginDenied(c)
  PROVE  AnswersGrow
<1>1. ASSUME BeginRound PROVE AnswersGrow
  <2>1. /\ wire \in Wire /\ Injected \in Wire /\ wire' = Injected
        /\ Keeps(wire.hist, Injected.hist)
        /\ \A j \in 1..Len(Injected.hist) : j > Len(wire.hist) => Injected.hist[j].role = "user"
    BY <1>1, InjectedProperties DEF TypeInv, TypeOK, BeginRound
  <2>2. wire.hist \in Seq(Msg) /\ Injected.hist \in Seq(Msg)
    BY <2>1 DEF Wire
  <2>3. NewAnswers(wire.hist, Injected.hist)
    BY <2>1 DEF NewAnswers, IsTool
  <2> QED
    BY <2>1, <2>2, <2>3 DEF AnswersGrow
<1>2. ASSUME Feedback PROVE AnswersGrow
  <2>1. UserMsg("feedback", {}) \in Msg /\ UserMsg("feedback", {}).role = "user"
    BY MessageTypes DEF UserMsg, OwnBodies
  <2> QED
    BY <1>2, <2>1, PushAnswers DEF Feedback
<1>3. ASSUME NEW S \in SUBSET CallIds, StreamCalls(S) PROVE AnswersGrow
  <2>1. CallMsg(S) \in Msg /\ CallMsg(S).role = "assistant"
    BY MessageTypes DEF CallMsg
  <2> QED
    BY <1>3, <2>1, PushAnswers DEF StreamCalls
<1>4. "denied" \in Bodies /\ "result" \in Bodies
  BY MessageTypes DEF OwnBodies
<1>5. ASSUME NEW c \in CallIds, BeginDenied(c) PROVE AnswersGrow
  <2>1. c \in Orphans(wire.hist)
    BY <1>5 DEF BeginDenied, Step, AheadInv, Unanswered, CallStages
  <2> QED
    BY <1>4, <1>5, <2>1, ResultAnswers DEF BeginDenied, Deny
<1>6. ASSUME pc \in CallStages \ {"tools", "batch"} PROVE cur \in CallIds /\ cur \in Orphans(wire.hist)
  BY <1>6 DEF TypeInv, TypeOK, Handling, AheadInv, Unanswered, CallStages
<1>7. ASSUME Reject \/ HookRefuses PROVE AnswersGrow
  <2>1. cur \in CallIds /\ cur \in Orphans(wire.hist)
    BY <1>6, <1>7 DEF Reject, HookRefuses, Step, CallStages
  <2> QED
    BY <1>4, <1>7, <2>1, ResultAnswers DEF Reject, HookRefuses, Deny
<1>8. ASSUME NEW from \in CallStages \ {"tools", "batch"}, Record(from) PROVE AnswersGrow
  <2>1. cur \in CallIds /\ cur \in Orphans(wire.hist)
    BY <1>6, <1>8 DEF Record, Step
  <2> QED
    BY <1>4, <1>8, <2>1, ResultAnswers DEF Record
<1>9. ASSUME ParallelBatch PROVE AnswersGrow
  <2>1. PICK h \in Seq(Msg), S \in SUBSET CallIds, b \in Bodies :
          h = wire.hist /\ S = todo /\ b = "result"
    BY <1>4 DEF TypeInv, TypeOK, Wire
  <2>2. PICK g : g = h \o ToolMsgs(S, b)
    OBVIOUS
  <2>3. \A c \in S : c \notin Answered(h)
    BY <1>9, <2>1 DEF ParallelBatch, Step, AheadInv, Unanswered, CallStages, Orphans
  <2>4. g \in Seq(Msg) /\ Keeps(h, g) /\ NewAnswers(h, g)
    BY <2>2, <2>3, AddAnswers
  <2>5. wire'.hist = g
    <3>1. wire' = [wire EXCEPT !.hist = g] /\ wire \in Wire
      BY <1>9, <2>1, <2>2 DEF ParallelBatch, TypeInv, TypeOK
    <3> QED
      BY <3>1 DEF Wire
  <2> QED
    BY <2>1, <2>4, <2>5 DEF AnswersGrow
<1> QED
  BY <1>1, <1>2, <1>3, <1>5, <1>7, <1>8, <1>9
  DEF AnswerQuestion, RecordResult, RecordFailure, CallStages

(* A run starts with the answers of the snapshot, what it left open reported. *)
LEMMA RegisterAnswers ==
  ASSUME TypeInv, PairInv, ChatInv, Register, ~turn.plan
  PROVE  /\ Once(snap.hist) => Once(wire'.hist)
         /\ \A c : Interrupted(snap.hist, c) \/ c \in Orphans(snap.hist)
                   => Interrupted(wire'.hist, c)
<1>1. PICK f : f = [EmptyWire EXCEPT !.hist = [chat EXCEPT ![Len(chat)].notes = TurnNotes(turn)]]
  OBVIOUS
<1>2. wire' = AssembleResume(snap, f)
  BY <1>1 DEF Register
<1>3. /\ chat \in Seq(Msg) /\ turn \in Turns /\ snap \in Wire /\ Len(chat) \in Nat
      /\ Len(chat) > 0 /\ chat[Len(chat)].role = "user" /\ Plain(chat)
  BY DEF TypeInv, TypeOK, PairInv, ChatInv, Register, Step
<1>4. /\ f \in Wire /\ Plain(f.hist) /\ Len(f.hist) = Len(chat)
      /\ \A i \in 1..Len(chat) : f.hist[i].role = chat[i].role
  BY <1>1, <1>3, FreshWire
<1>5. Len(chat) \in 1..Len(chat)
  BY <1>3
<1>6. f.hist[Len(f.hist)].role = "user" /\ f.hist # <<>>
  BY <1>3, <1>4, <1>5, EmptySeq
<1> QED
  BY <1>2, <1>3, <1>4, <1>6, AssembleAnswers

(* One step per action that writes an answer, the snapshot, or what is torn. *)
LEMMA AnswerStep ==
  ASSUME TypeInv, PairInv, ChatInv, AheadInv, AnswerInv, ~AllowSummary, [Next]_vars
  PROVE  AnswerInv'
<1> USE DEF ToolStages
<1>0. pc # "summarizing" /\ lost \in Nat
  BY DEF AnswerInv, TypeInv, TypeOK
<1>1. ASSUME UNCHANGED <<snap, lost, torn>>, pc' # "summarizing",
             pc' \notin ToolStages \/ (wire' = wire /\ pc \in ToolStages)
      PROVE  AnswerInv'
  BY <1>1 DEF AnswerInv
<1>2. ASSUME AnswersGrow, pc \in ToolStages, torn' = torn, pc' # "summarizing",
             Persist(wire') \/ NoPersist
      PROVE  AnswerInv'
  <2>1. Once(wire'.hist) /\ \A c : Interrupted(wire.hist, c) => Interrupted(wire'.hist, c)
    BY <1>2, KeptAnswers DEF AnswersGrow, AnswerInv
  <2>2. lost' = 0 => lost = 0
    BY <1>0, <1>2 DEF Persist, NoPersist
  <2>3. snap' = wire' \/ snap' = snap
    BY <1>2 DEF Persist, NoPersist
  <2> QED
    BY <1>2, <2>1, <2>2, <2>3 DEF AnswerInv
<1>3. ASSUME NEW from, NEW outcome \in Outcomes, NEW text, Finish(from, outcome, text)
      PROVE  AnswerInv'
  BY <1>1, <1>3 DEF Finish, Step, UserFrame, NoPersist, Outcomes
<1>4. ASSUME ForgetSnapshot, pc' \notin ToolStages PROVE AnswerInv'
  <2>1. Once(EmptyWire.hist)
    BY EmptySeq DEF EmptyWire, Once
  <2> QED
    BY <1>4, <2>1 DEF ForgetSnapshot, AnswerInv
<1>5. CASE UNCHANGED vars
  BY <1>0, <1>5 DEF AnswerInv, vars, run, effects
<1>6. ASSUME User PROVE AnswerInv'
  <2>1. ASSUME Regenerate \/ (\E i \in DOMAIN chat : Rewind(i)) \/ CompactHistory
        PROVE  AnswerInv'
    BY <1>4, <2>1 DEF Regenerate, StartRun, Rewind, CompactHistory, run
  <2>2. ASSUME \E b \in Texts, t \in Turns : Send(b, t) PROVE AnswerInv'
    BY <1>1, <2>2 DEF Send, StartRun
  <2>3. ASSUME (\E s \in Steers : QueueSteering(s)) \/ CancelAgent PROVE AnswerInv'
    BY <1>0, <1>1, <2>3 DEF QueueSteering, CancelAgent, effects
  <2>4. ASSUME Approve PROVE AnswerInv'
    BY <1>1, <2>4 DEF Approve, Step, ToolFrame, UserFrame, NoPersist
  <2>5. ASSUME Reject PROVE AnswerInv'
    BY <1>2, <2>5, AnswerSteps DEF Reject, Deny, Step, ToolFrame, UserFrame
  <2>6. ASSUME AnswerQuestion PROVE AnswerInv'
    BY <1>2, <2>6, AnswerSteps DEF AnswerQuestion, Record, Step, ToolFrame, UserFrame
  <2> QED
    BY <1>6, <2>1, <2>2, <2>3, <2>4, <2>5, <2>6 DEF User
<1>7. ASSUME Endpoint PROVE AnswerInv'
  <2>1. ASSUME (\E a \in Answers : PlanAnswer(a) \/ StreamFinal(a)) \/ PlanFails
               \/ StreamFails \/ BudgetStops
        PROVE  AnswerInv'
    BY <1>3, <2>1 DEF PlanAnswer, StreamFinal, PlanFails, StreamFails, BudgetStops, Outcomes
  <2>2. ASSUME NEW S \in SUBSET CallIds \ {{}}, StreamCalls(S) PROVE AnswerInv'
    BY <1>2, <2>2, AnswerSteps DEF StreamCalls, Step, UserFrame
  <2>3. ASSUME Feedback PROVE AnswerInv'
    BY <1>2, <2>3, AnswerSteps DEF Feedback, Step, UserFrame
  <2>4. ASSUME BeginChecks PROVE AnswerInv'
    BY <1>1, <2>4 DEF BeginChecks, Step, ToolFrame, UserFrame, NoPersist
  <2> QED
    BY <1>7, <2>1, <2>2, <2>3, <2>4 DEF Endpoint
<1>8. ASSUME Local PROVE AnswerInv'
  <2>1. ASSUME PlanStopped \/ TopStopped \/ SummaryFails \/ StreamStopped \/ LoopTripped
               \/ ToolsStopped \/ RoundStuck
        PROVE  AnswerInv'
    BY <1>3, <2>1
    DEF PlanStopped, TopStopped, SummaryFails, StreamStopped, LoopTripped, ToolsStopped,
        RoundStuck, Outcomes
  <2>2. ASSUME FailEarly \/ ChatDone \/ ChatFailed PROVE AnswerInv'
    BY <1>1, <2>2 DEF FailEarly, ChatDone, ChatFailed, Step, UserFrame, NoPersist,
                      CloseFrame, effects
  <2>3. ASSUME Register PROVE AnswerInv'
    <3>1. /\ pc' = (IF turn.plan THEN "plan" ELSE "top")
          /\ UNCHANGED <<snap, lost, torn>>
      BY <2>3 DEF Register, Step, UserFrame, NoPersist
    <3>2. ~turn.plan => /\ Once(wire'.hist)
                        /\ lost = 0 => \A c \in torn : Interrupted(wire'.hist, c)
      BY <2>3, RegisterAnswers DEF AnswerInv
    <3> QED
      BY <3>1, <3>2 DEF AnswerInv
  <2>4. ASSUME BeginRound PROVE AnswerInv'
    BY <1>2, <2>4, AnswerSteps DEF BeginRound, Step, RoundFrame, UserFrame
  <2>5. ~BeginSummary /\ ~SummaryDone
    BY <1>0 DEF BeginSummary, SummaryDone, Step
  <2>6. ASSUME ParallelBatch PROVE AnswerInv'
    BY <1>2, <2>6, AnswerSteps DEF ParallelBatch, Step, ToolFrame, UserFrame
  <2>7. ASSUME NEW c \in CallIds, BeginDenied(c) PROVE AnswerInv'
    BY <1>2, <2>7, AnswerSteps DEF BeginDenied, Deny, Step, ToolFrame, UserFrame
  <2>8. ASSUME \/ ShowApproval \/ Execute \/ RoundDone \/ BeginBatch
               \/ \E c \in CallIds, to \in {"exec", "approval", "asking"} : Begin(c, to)
        PROVE  AnswerInv'
    BY <1>1, <2>8 DEF ShowApproval, Execute, RoundDone, BeginBatch, Begin, Step, ToolFrame, UserFrame,
                      NoPersist
  <2>9. ASSUME RecordResult \/ RecordFailure PROVE AnswerInv'
    BY <1>2, <2>9, AnswerSteps
    DEF RecordResult, RecordFailure, Record, Step, ToolFrame, UserFrame
  <2>10. ASSUME HookRefuses PROVE AnswerInv'
    BY <1>2, <2>10, AnswerSteps DEF HookRefuses, Deny, Step, ToolFrame, UserFrame
  <2> QED
    BY <1>8, <2>1, <2>2, <2>3, <2>4, <2>5, <2>6, <2>7, <2>8, <2>9, <2>10 DEF Local
<1>9. ASSUME Crash PROVE AnswerInv'
  <2>1. /\ UNCHANGED <<snap, lost>> /\ pc' = "idle"
        /\ torn' = IF pc = "landed" THEN torn \cup {cur} ELSE torn
    BY <1>9 DEF Crash
  <2>2. lost = 0 /\ pc = "landed" => cur \in Orphans(snap.hist)
    BY DEF AheadInv, Unanswered, CallStages, TypeInv, Handling
  <2> QED
    BY <2>1, <2>2 DEF AnswerInv
<1> QED
  BY <1>5, <1>6, <1>7, <1>8, <1>9 DEF Next

(* What a request says of a call is exact (AnswersExact): one result each,    *)
(* and a call torn by a crash is reported as interrupted in every request     *)
(* that follows.  No id is reused and nothing is summarized.                  *)
THEOREM AnswersAreExact == ReusableIds = {} /\ ~AllowSummary => (Spec => []AnswersExact)
<1> SUFFICES ASSUME ReusableIds = {}, ~AllowSummary
             PROVE  Spec => []AnswersExact
  OBVIOUS
<1>1. Init => ChatInv /\ AheadInv /\ AnswerInv
  <2>1. Init => ChatInv /\ AheadInv
    BY DEF Init, ChatInv, AheadInv, CallStages
  <2>2. Once(EmptyWire.hist)
    BY EmptySeq DEF EmptyWire, Once
  <2>3. Init => AnswerInv
    BY <2>2 DEF Init, AnswerInv, ToolStages
  <2> QED
    BY <2>1, <2>3
<1>2. /\ TypeInv /\ PairInv /\ ChatInv /\ AheadInv /\ AnswerInv /\ [Next]_vars
      => ChatInv' /\ AheadInv' /\ AnswerInv'
  BY ChatStep, AheadStep, AnswerStep
<1>3. TypeInv /\ AnswerInv => AnswersExact
  <2>1. TypeInv => DOMAIN wire.hist = 1..Len(wire.hist)
    BY DEF TypeInv, TypeOK, Wire
  <2> QED
    BY <2>1
    DEF AnswerInv, AnswersExact, AnsweredOnce, TornReported, Once, Interrupted, Says, IsTool, ToolStages
<1> QED
  BY <1>1, <1>2, <1>3, PairsInvariant, PTL DEF Spec

-----------------------------------------------------------------------------
(* Queued messages. *)

(* Message i of h is one that was queued. *)
SteerAt(h, i) == h[i].role = "user" /\ h[i].body \in Steers

(* The queued messages of h are among the first d of the log, in its order. *)
InLogOrder(h, d, log) ==
  /\ \A i \in 1..Len(h) : SteerAt(h, i) => \E a \in 1..d : log[a].body = h[i].body
  /\ \A i, j \in 1..Len(h) : i < j /\ SteerAt(h, i) /\ SteerAt(h, j) =>
       \A a, b \in 1..Len(log) :
         log[a].body = h[i].body /\ log[b].body = h[j].body => a < b

QueuedOnce(log) == \A a, b \in 1..Len(log) : log[a].body = log[b].body => a = b

(* How many of the log have left the queue, into a wire or with a run. *)
Gone == Len(queuedLog) - Len(steer)

(* The queue is the end of the log; the wire and the snapshot have messages   *)
(* of the part that is gone, in its order.                                    *)
SteerInv ==
  /\ QueuedOnce(queuedLog)
  /\ Len(steer) <= Len(queuedLog)
  /\ \A j \in 1..Len(steer) : steer[j] = queuedLog[Gone + j].body
  /\ InLogOrder(wire.hist, Gone, queuedLog)
  /\ InLogOrder(snap.hist, Gone, queuedLog)

(* The queued messages of g are those of h from some message on. *)
Thin(h, g) ==
  \E off \in Nat : \A j \in 1..Len(g) : SteerAt(g, j) =>
    off + j \in 1..Len(h) /\ SteerAt(h, off + j) /\ h[off + j].body = g[j].body

LEMMA ThinOrder ==
  ASSUME NEW h \in Seq(Msg), NEW g \in Seq(Msg), Thin(h, g),
         NEW d, NEW log, InLogOrder(h, d, log)
  PROVE  InLogOrder(g, d, log)
<1>1. PICK off \in Nat : \A j \in 1..Len(g) : SteerAt(g, j) =>
        off + j \in 1..Len(h) /\ SteerAt(h, off + j) /\ h[off + j].body = g[j].body
  BY DEF Thin
<1>2. \A i \in 1..Len(g) : SteerAt(g, i) => \E a \in 1..d : log[a].body = g[i].body
  BY <1>1 DEF InLogOrder
<1>3. ASSUME NEW i \in 1..Len(g), NEW j \in 1..Len(g), i < j, SteerAt(g, i), SteerAt(g, j),
             NEW a \in 1..Len(log), NEW b \in 1..Len(log),
             log[a].body = g[i].body, log[b].body = g[j].body
      PROVE  a < b
  <2>1. PICK k \in 1..Len(h), l \in 1..Len(h) :
          k = off + i /\ l = off + j /\ SteerAt(h, k) /\ SteerAt(h, l)
          /\ h[k].body = g[i].body /\ h[l].body = g[j].body
    BY <1>1, <1>3
  <2>2. k < l
    BY <1>3, <2>1
  <2> QED
    BY <1>3, <2>1, <2>2 DEF InLogOrder
<1> QED
  BY <1>2, <1>3 DEF InLogOrder

(* Messages that were not queued are added: nothing is to be ordered anew. *)
LEMMA PlainThin ==
  ASSUME NEW h \in Seq(Msg), NEW g \in Seq(Msg), Begins(h, g),
         \A j \in 1..Len(g) : j \notin 1..Len(h) => ~SteerAt(g, j)
  PROVE  Thin(h, g)
<1>1. \A j \in 1..Len(g) : SteerAt(g, j) =>
        0 + j \in 1..Len(h) /\ SteerAt(h, 0 + j) /\ h[0 + j].body = g[j].body
  <2>1. \A j \in 1..Len(h) : 0 + j = j
    OBVIOUS
  <2> QED
    BY <2>1 DEF Begins, SteerAt
<1> QED
  BY <1>1 DEF Thin

(* A run that ends takes its queue with it. *)
LEMMA MoreGone ==
  ASSUME NEW h \in Seq(Msg), NEW log, NEW d \in Int, NEW e \in Int, d <= e, InLogOrder(h, d, log)
  PROVE  InLogOrder(h, e, log)
<1>1. \A a \in 1..d : a \in 1..e
  OBVIOUS
<1> QED
  BY <1>1 DEF InLogOrder

(* What is queued now comes after what was queued before. *)
LEMMA LongerLog ==
  ASSUME NEW R, NEW log \in Seq(R), NEW r \in R, NEW lg, lg = Append(log, r),
         \A a \in 1..Len(log) : log[a].body # r.body,
         NEW h \in Seq(Msg), NEW d \in Int, d <= Len(log), InLogOrder(h, d, log)
  PROVE  InLogOrder(h, d, lg)
<1>1. /\ Len(lg) = Len(log) + 1 /\ Len(log) \in Nat /\ lg[Len(log) + 1] = r
      /\ \A a \in 1..Len(log) : lg[a] = log[a]
  BY AppendProperties
<1>2. \A a \in 1..d : a \in 1..Len(log)
  BY <1>1
<1>3. \A i \in 1..Len(h) : SteerAt(h, i) => \E a \in 1..d : lg[a].body = h[i].body
  BY <1>1, <1>2 DEF InLogOrder
<1>4. \A i \in 1..Len(h) : SteerAt(h, i) =>
        \A a \in 1..Len(lg) : lg[a].body = h[i].body => a \in 1..Len(log)
  <2> SUFFICES ASSUME NEW i \in 1..Len(h), SteerAt(h, i), NEW a \in 1..Len(lg),
                      lg[a].body = h[i].body, a \notin 1..Len(log)
               PROVE  FALSE
    OBVIOUS
  <2>1. PICK k \in 1..Len(log) : log[k].body = h[i].body
    BY <1>2 DEF InLogOrder
  <2>2. a = Len(log) + 1
    <3>1. \A n \in Nat : \A x \in 1..(n + 1) : x \notin 1..n => x = n + 1
      OBVIOUS
    <3>2. a \in 1..(Len(log) + 1) /\ Len(log) \in Nat
      BY <1>1
    <3> QED
      BY <3>1, <3>2
  <2> QED
    BY <1>1, <2>1, <2>2
<1> QED
  BY <1>1, <1>3, <1>4 DEF InLogOrder

(* The queue is drained into the wire, in its order. *)
LEMMA DrainOrder ==
  ASSUME TypeInv, SteerInv
  PROVE  InLogOrder(Injected.hist, Len(queuedLog), queuedLog)
<1>1. PICK h \in Seq(Msg), g \in Seq(Msg) : h = wire.hist /\ g = Injected.hist
  BY InjectedProperties DEF TypeInv, TypeOK, Wire
<1>2. PICK n, d, q : n = Len(h) /\ d = Gone /\ q = Len(steer)
  OBVIOUS
<1>3. /\ n \in Nat /\ q \in Nat /\ Len(queuedLog) \in Nat
      /\ d \in Nat /\ d + q = Len(queuedLog)
  BY <1>1, <1>2 DEF TypeInv, TypeOK, SteerInv, Gone
<1>4. /\ Len(g) = n + q
      /\ \A i \in 1..n : g[i] = h[i]
      /\ \A i \in 1..q : g[n + i].body = steer[i]
  BY <1>1, <1>2, InjectedProperties DEF TypeInv, TypeOK, Keeps
<1>5. \A j \in 1..Len(g) : j \in 1..n \/ (j - n \in 1..q /\ g[j].body = queuedLog[d + (j - n)].body)
  <2> SUFFICES ASSUME NEW j \in 1..Len(g), j \notin 1..n
               PROVE  j - n \in 1..q /\ g[j].body = queuedLog[d + (j - n)].body
    OBVIOUS
  <2>1. j - n \in 1..q /\ n + (j - n) = j
    BY <1>3, <1>4
  <2> QED
    BY <1>2, <1>4, <2>1 DEF SteerInv
<1>6. /\ QueuedOnce(queuedLog) /\ InLogOrder(h, d, queuedLog)
  BY <1>1, <1>2 DEF SteerInv
<1>7. ASSUME NEW i \in 1..Len(g), SteerAt(g, i)
      PROVE  \E a \in 1..Len(queuedLog) : queuedLog[a].body = g[i].body
  <2>1. CASE i \in 1..n
    <3>1. \E a \in 1..d : queuedLog[a].body = h[i].body
      BY <1>2, <1>4, <1>6, <1>7, <2>1 DEF InLogOrder, SteerAt
    <3> QED
      BY <1>3, <1>4, <2>1, <3>1
  <2>2. CASE i \notin 1..n
    <3>1. d + (i - n) \in 1..Len(queuedLog)
      BY <1>3, <1>5, <2>2
    <3> QED
      BY <1>5, <2>2, <3>1
  <2> QED
    BY <2>1, <2>2
<1>8. ASSUME NEW i \in 1..Len(g), NEW j \in 1..Len(g), i < j, SteerAt(g, i), SteerAt(g, j),
             NEW a \in 1..Len(queuedLog), NEW b \in 1..Len(queuedLog),
             queuedLog[a].body = g[i].body, queuedLog[b].body = g[j].body
      PROVE  a < b
  <2>1. CASE j \in 1..n
    <3>1. i \in 1..n
      BY <1>3, <1>8, <2>1
    <3>2. h[i] = g[i] /\ h[j] = g[j] /\ i \in 1..Len(h) /\ j \in 1..Len(h)
      BY <1>2, <1>4, <2>1, <3>1
    <3> QED
      BY <1>6, <1>8, <3>2 DEF InLogOrder, SteerAt
  <2>2. CASE j \notin 1..n
    <3>1. /\ j - n \in 1..q /\ d + (j - n) \in 1..Len(queuedLog)
          /\ queuedLog[d + (j - n)].body = queuedLog[b].body
      BY <1>3, <1>5, <1>8, <2>2
    <3>2. b = d + (j - n)
      BY <1>6, <3>1 DEF QueuedOnce
    <3>3. CASE i \in 1..n
      <4>1. PICK k \in 1..d : queuedLog[k].body = h[i].body
        BY <1>2, <1>4, <1>6, <1>8, <3>3 DEF InLogOrder, SteerAt
      <4>2. k \in 1..Len(queuedLog) /\ h[i] = g[i]
        BY <1>3, <1>4, <3>3
      <4>3. a = k
        BY <1>6, <1>8, <4>1, <4>2 DEF QueuedOnce
      <4> QED
        BY <1>3, <3>1, <3>2, <4>1, <4>3
    <3>4. CASE i \notin 1..n
      <4>1. /\ i - n \in 1..q /\ d + (i - n) \in 1..Len(queuedLog)
            /\ queuedLog[d + (i - n)].body = queuedLog[a].body
        BY <1>3, <1>5, <1>8, <3>4
      <4>2. a = d + (i - n)
        BY <1>6, <4>1 DEF QueuedOnce
      <4> QED
        BY <1>3, <1>8, <3>2, <4>2
    <3> QED
      BY <3>3, <3>4
  <2> QED
    BY <2>1, <2>2
<1>9. InLogOrder(g, Len(queuedLog), queuedLog)
  <2>1. \A i, j \in 1..Len(g) : i < j /\ SteerAt(g, i) /\ SteerAt(g, j) =>
          \A a, b \in 1..Len(queuedLog) :
            queuedLog[a].body = g[i].body /\ queuedLog[b].body = g[j].body => a < b
    BY <1>8
  <2> QED
    BY <1>7, <2>1 DEF InLogOrder
<1> QED
  BY <1>1, <1>9

(* A message that was not queued is pushed. *)
LEMMA PushThin ==
  ASSUME TypeInv, NEW m \in Msg, m.role = "user" => m.body \notin Steers, wire' = Push(wire, m)
  PROVE  wire'.hist \in Seq(Msg) /\ Thin(wire.hist, wire'.hist)
<1>1. wire \in Wire /\ wire' \in Wire
  BY PushProperties DEF TypeInv, TypeOK
<1>2. PICK h \in Seq(Msg), g \in Seq(Msg) : h = wire.hist /\ g = wire'.hist
  BY <1>1 DEF Wire
<1>3. /\ Begins(h, g) /\ Len(g) = Len(h) + 1 /\ Len(h) \in Nat
      /\ g[Len(h) + 1].role = m.role /\ g[Len(h) + 1].body = m.body
  BY <1>1, <1>2, PushProperties, PushKeeps
<1>4. \A j \in 1..Len(g) : j \notin 1..Len(h) => j = Len(h) + 1
  BY <1>3
<1>5. Thin(h, g)
  BY <1>3, <1>4, PlainThin DEF SteerAt
<1> QED
  BY <1>2, <1>5

(* The steps that add to the wire of a run, the queue apart. *)
LEMMA ThinSteps ==
  ASSUME TypeInv,
         \/ Feedback \/ ParallelBatch \/ Reject \/ HookRefuses \/ SummaryDone
         \/ AnswerQuestion \/ RecordResult \/ RecordFailure
         \/ \E S \in SUBSET CallIds : StreamCalls(S)
         \/ \E c \in CallIds : BeginDenied(c)
  PROVE  wire'.hist \in Seq(Msg) /\ Thin(wire.hist, wire'.hist)
<1> DEFINE Goal == wire'.hist \in Seq(Msg) /\ Thin(wire.hist, wire'.hist)
<1>1. ASSUME Feedback PROVE Goal
  <2>1. UserMsg("feedback", {}) \in Msg /\ UserMsg("feedback", {}).body \notin Steers
    BY LoopAssumption, MessageTypes DEF UserMsg, OwnBodies
  <2> QED
    BY <1>1, <2>1, PushThin DEF Feedback
<1>2. ASSUME NEW S \in SUBSET CallIds, StreamCalls(S) PROVE Goal
  <2>1. CallMsg(S) \in Msg /\ CallMsg(S).role = "assistant"
    BY MessageTypes DEF CallMsg
  <2> QED
    BY <1>2, <2>1, PushThin DEF StreamCalls
<1>3. "denied" \in Bodies /\ "result" \in Bodies
  BY MessageTypes DEF OwnBodies
<1>4. ASSUME NEW c \in CallIds, NEW b \in Bodies, wire' = Push(wire, ToolMsg(c, b)) PROVE Goal
  <2>1. ToolMsg(c, b) \in Msg /\ ToolMsg(c, b).role = "tool"
    BY MessageTypes DEF ToolMsg
  <2> QED
    BY <1>4, <2>1, PushThin
<1>5. ASSUME NEW c \in CallIds, Deny(c) PROVE Goal
  BY <1>3, <1>4, <1>5 DEF Deny
<1>6. ASSUME Reject \/ HookRefuses PROVE Goal
  <2>1. cur \in CallIds /\ Deny(cur)
    BY <1>6 DEF Reject, HookRefuses, Step, TypeInv, TypeOK, Handling, CallStages
  <2> QED
    BY <1>5, <2>1
<1>7. ASSUME NEW from \in {"asking", "exec", "landed"}, Record(from) PROVE Goal
  <2>1. cur \in CallIds
    BY <1>7 DEF Record, Step, TypeInv, TypeOK, Handling, CallStages
  <2> QED
    BY <1>3, <1>4, <1>7, <2>1 DEF Record
<1>8. ASSUME SummaryDone PROVE Goal
  <2>1. wire \in Wire /\ wire' = Summarize(wire)
    BY <1>8 DEF SummaryDone, TypeInv, TypeOK
  <2>2. PICK h \in Seq(Msg), g \in Seq(Msg) : h = wire.hist /\ g = wire'.hist
    BY <2>1, SummarizeProperties DEF Wire
  <2>3. \E off \in Nat : \A i \in 1..Len(g) :
          off + i \in 1..Len(h) /\ g[i].role = h[off + i].role /\ g[i].body = h[off + i].body
    BY <2>1, <2>2, SummarizeProperties
  <2>4. Thin(h, g)
    BY <2>3 DEF Thin, SteerAt
  <2> QED
    BY <2>2, <2>4
<1>9. ASSUME ParallelBatch PROVE Goal
  <2>1. PICK h \in Seq(Msg), S \in SUBSET CallIds, b \in Bodies :
          h = wire.hist /\ S = todo /\ b = "result"
    BY <1>3 DEF TypeInv, TypeOK, Wire
  <2>2. PICK t : t = ToolMsgs(S, b)
    OBVIOUS
  <2>3. PICK g : g = h \o t
    OBVIOUS
  <2>4. t \in Seq(Msg) /\ Len(t) \in Nat /\ \A i \in 1..Len(t) : t[i].role = "tool"
    <3>1. \A c : ToolMsg(c, b).role = "tool"
      BY DEF ToolMsg
    <3> QED
      BY <2>2, <3>1, ToolMsgsProperties
  <2>5. /\ g \in Seq(Msg) /\ Extends(h, g)
        /\ \A j \in 1..Len(g) : j > Len(h) => j - Len(h) \in 1..Len(t) /\ g[j] = t[j - Len(h)]
    BY <2>3, <2>4, ConcatExtends
  <2>6. wire'.hist = g
    <3>1. wire' = [wire EXCEPT !.hist = g] /\ wire \in Wire
      BY <1>9, <2>1, <2>2, <2>3 DEF ParallelBatch, TypeInv, TypeOK
    <3> QED
      BY <3>1 DEF Wire
  <2>7. Begins(h, g)
    <3>1. WireGrows
      BY <1>9, GrowSteps
    <3> QED
      BY <2>1, <2>6, <3>1 DEF WireGrows
  <2>8. \A j \in 1..Len(g) : j \notin 1..Len(h) => g[j].role = "tool"
    <3> SUFFICES ASSUME NEW j \in 1..Len(g), j \notin 1..Len(h)
                 PROVE  g[j].role = "tool"
      OBVIOUS
    <3>1. j > Len(h)
      OBVIOUS
    <3>2. j - Len(h) \in 1..Len(t) /\ g[j] = t[j - Len(h)]
      BY <2>5, <3>1
    <3> QED
      BY <2>4, <3>2
  <2>9. Thin(h, g)
    BY <2>5, <2>7, <2>8, PlainThin DEF SteerAt
  <2> QED
    BY <2>1, <2>5, <2>6, <2>9
<1> QED
  BY <1>1, <1>2, <1>5, <1>6, <1>7, <1>8, <1>9
  DEF AnswerQuestion, RecordResult, RecordFailure, BeginDenied

(* A run starts with the queued messages of the snapshot and no others. *)
LEMMA RegisterThin ==
  ASSUME TypeInv, ChatInv, Register, ~turn.plan
  PROVE  wire'.hist \in Seq(Msg) /\ Thin(snap.hist, wire'.hist)
<1>1. PICK f : f = [EmptyWire EXCEPT !.hist = [chat EXCEPT ![Len(chat)].notes = TurnNotes(turn)]]
  OBVIOUS
<1>2. PICK w : w = wire' /\ w = AssembleResume(snap, f)
  BY <1>1 DEF Register
<1>3. /\ chat \in Seq(Msg) /\ turn \in Turns /\ snap \in Wire /\ Len(chat) \in Nat
      /\ Len(chat) > 0 /\ chat[Len(chat)].role = "user"
      /\ \A i \in 1..Len(chat) : chat[i].notes = {}
      /\ \A i \in 1..Len(chat) : chat[i].role = "user" => chat[i].body \notin Steers
  BY DEF TypeInv, TypeOK, ChatInv, Proper, Register, Step
<1>4. /\ f \in Wire /\ f.tail = {} /\ Len(f.hist) = Len(chat)
      /\ \A i \in 1..Len(chat) : f.hist[i].role = chat[i].role /\ f.hist[i].body = chat[i].body
      /\ f.hist[Len(chat)].notes = TurnNotes(turn) /\ SentNotes(f) = TurnNotes(turn)
  BY <1>1, <1>3, FreshWire
<1>5. Len(chat) \in 1..Len(chat)
  BY <1>3
<1>6. f.hist[Len(f.hist)].role = "user" /\ f.hist # <<>>
  BY <1>3, <1>4, <1>5, EmptySeq
<1>7. PICK N : N = TurnNotes(turn)
  OBVIOUS
<1>8. /\ w.hist \in Seq(Msg) /\ Begins(snap.hist, w.hist)
      /\ \A i \in 1..Len(w.hist) : i \notin 1..Len(snap.hist) /\ w.hist[i].role = "user"
           => \E k \in 1..Len(f.hist) : f.hist[k].role = "user" /\ w.hist[i].body = f.hist[k].body
  BY <1>2, <1>3, <1>4, <1>6, <1>7, AssembleKeeps
<1>9. \A j \in 1..Len(w.hist) : j \notin 1..Len(snap.hist) => ~SteerAt(w.hist, j)
  <2> SUFFICES ASSUME NEW j \in 1..Len(w.hist), j \notin 1..Len(snap.hist),
                      w.hist[j].role = "user"
               PROVE  w.hist[j].body \notin Steers
    BY DEF SteerAt
  <2>1. PICK k \in 1..Len(f.hist) : f.hist[k].role = "user" /\ w.hist[j].body = f.hist[k].body
    BY <1>8
  <2>2. k \in 1..Len(chat) /\ chat[k].role = "user" /\ w.hist[j].body = chat[k].body
    BY <1>4, <2>1
  <2> QED
    BY <1>3, <2>2
<1>10. Thin(snap.hist, w.hist)
  BY <1>3, <1>8, <1>9, PlainThin DEF Wire
<1> QED
  BY <1>2, <1>8, <1>10

(* A message is queued: it is the last of the log and of the queue. *)
LEMMA QueueOrder ==
  ASSUME TypeInv, SteerInv, NEW s \in Steers, QueueSteering(s)
  PROVE  SteerInv'
<1>1. PICK R : R = [body : Steers, run : Nat]
  OBVIOUS
<1>2. PICK r \in R : r = [body |-> s, run |-> count.sends]
  BY <1>1 DEF TypeInv, TypeOK
<1>l. PICK lg : lg = queuedLog'
  OBVIOUS
<1>3. PICK log \in Seq(R) : log = queuedLog /\ lg = queuedLog'
  BY <1>1, <1>l DEF TypeInv, TypeOK
<1>4. /\ lg = Append(log, r) /\ r.body = s /\ steer' = Append(steer, s)
      /\ UNCHANGED <<wire, snap>>
      /\ \A a \in 1..Len(log) : log[a].body # s
  BY <1>2, <1>3 DEF QueueSteering
<1>5. /\ Len(lg) = Len(log) + 1 /\ Len(log) \in Nat /\ lg[Len(log) + 1] = r
      /\ \A a \in 1..Len(log) : lg[a] = log[a]
  BY <1>4, AppendProperties
<1>6. /\ Len(steer') = Len(steer) + 1 /\ Len(steer) \in Nat /\ steer'[Len(steer) + 1] = s
      /\ \A a \in 1..Len(steer) : steer'[a] = steer[a]
  BY <1>4, AppendProperties DEF TypeInv, TypeOK
<1>7. Gone' = Gone /\ Gone \in Nat /\ Gone <= Len(log) /\ Gone + Len(steer) = Len(log)
  BY <1>3, <1>5, <1>6 DEF SteerInv, Gone
<1>8. QueuedOnce(lg)
  <2> SUFFICES ASSUME NEW a \in 1..Len(lg), NEW b \in 1..Len(lg), lg[a].body = lg[b].body
               PROVE  a = b
    BY DEF QueuedOnce
  <2>1. \A x \in 1..Len(lg) : x \in 1..Len(log) \/ x = Len(log) + 1
    BY <1>5
  <2>2. CASE a \in 1..Len(log) /\ b \in 1..Len(log)
    BY <1>3, <1>5, <2>2 DEF SteerInv, QueuedOnce
  <2>3. CASE a \notin 1..Len(log) \/ b \notin 1..Len(log)
    BY <1>4, <1>5, <2>1, <2>3
  <2> QED
    BY <2>2, <2>3
<1>9. \A j \in 1..Len(steer') : steer'[j] = lg[Gone + j].body
  <2> SUFFICES ASSUME NEW j \in 1..Len(steer') PROVE steer'[j] = lg[Gone + j].body
    OBVIOUS
  <2>1. CASE j \in 1..Len(steer)
    <3>1. Gone + j \in 1..Len(log)
      BY <1>6, <1>7, <2>1
    <3> QED
      BY <1>3, <1>5, <1>6, <2>1, <3>1 DEF SteerInv
  <2>2. CASE j \notin 1..Len(steer)
    <3>1. j = Len(steer) + 1 /\ Gone + j = Len(log) + 1
      BY <1>6, <1>7, <2>2
    <3> QED
      BY <1>4, <1>5, <1>6, <3>1
  <2> QED
    BY <2>1, <2>2
<1>10. ASSUME NEW h \in Seq(Msg), InLogOrder(h, Gone, queuedLog)
       PROVE  InLogOrder(h, Gone, lg)
  <2>1. PICK d \in Int : d = Gone
    BY <1>7
  <2>2. InLogOrder(h, d, lg)
    BY <1>3, <1>4, <1>7, <1>10, <2>1, LongerLog
  <2> QED
    BY <2>1, <2>2
<1>11. InLogOrder(wire.hist, Gone, lg) /\ InLogOrder(snap.hist, Gone, lg)
  BY <1>10 DEF SteerInv, TypeInv, TypeOK, Wire
<1> QED
  BY <1>3, <1>4, <1>5, <1>6, <1>7, <1>8, <1>9, <1>11 DEF SteerInv

(* One step per action that touches the queue, the wire or the snapshot. *)
LEMMA SteerStep ==
  ASSUME TypeInv, ChatInv, SteerInv, [Next]_vars
  PROVE  SteerInv'
<1>0. /\ wire.hist \in Seq(Msg) /\ snap.hist \in Seq(Msg)
      /\ Len(queuedLog) \in Nat /\ Len(steer) \in Nat /\ Gone \in Int /\ Gone <= Len(queuedLog)
  BY DEF TypeInv, TypeOK, Wire, Gone
<1>1. ASSUME UNCHANGED <<wire, snap, steer, queuedLog>> PROVE SteerInv'
  BY <1>1 DEF SteerInv, Gone
<1>2. EmptyWire.hist \in Seq(Msg) /\ \A d, log : InLogOrder(EmptyWire.hist, d, log)
  BY EmptySeq DEF EmptyWire, InLogOrder
<1>3. ASSUME UNCHANGED <<steer, queuedLog>>,
             wire' \in {wire, EmptyWire} \/ InLogOrder(wire'.hist, Gone, queuedLog),
             snap' \in {snap, wire', EmptyWire}
      PROVE  SteerInv'
  <2>1. InLogOrder(wire'.hist, Gone, queuedLog)
    BY <1>2, <1>3 DEF SteerInv
  <2>2. InLogOrder(snap'.hist, Gone, queuedLog)
    BY <1>2, <1>3, <2>1 DEF SteerInv
  <2> QED
    BY <1>3, <2>1, <2>2 DEF SteerInv, Gone
<1>4. ASSUME steer' = <<>>, queuedLog' = queuedLog,
             wire' = EmptyWire \/ InLogOrder(wire'.hist, Len(queuedLog), queuedLog),
             snap' \in {snap, wire'}
      PROVE  SteerInv'
  <2>1. Len(steer') = 0 /\ Gone' = Len(queuedLog) /\ Len(queuedLog) \in Int
    BY <1>0, <1>4 DEF Gone
  <2>2. InLogOrder(snap.hist, Len(queuedLog), queuedLog)
    BY <1>0, <2>1, MoreGone DEF SteerInv
  <2>3. InLogOrder(wire'.hist, Len(queuedLog), queuedLog)
    BY <1>2, <1>4
  <2>4. InLogOrder(snap'.hist, Len(queuedLog), queuedLog)
    BY <1>4, <2>2, <2>3
  <2> QED
    BY <1>0, <1>4, <2>1, <2>3, <2>4 DEF SteerInv
<1>5. ASSUME NEW from, NEW outcome, NEW text, Finish(from, outcome, text) PROVE SteerInv'
  BY <1>4, <1>5 DEF Finish, DropRun, UserFrame, NoPersist
<1>6. ASSUME wire'.hist \in Seq(Msg), Thin(wire.hist, wire'.hist), UNCHANGED <<steer, queuedLog>>,
             Persist(wire') \/ NoPersist
      PROVE  SteerInv'
  <2>1. InLogOrder(wire'.hist, Gone, queuedLog)
    BY <1>0, <1>6, ThinOrder DEF SteerInv
  <2> QED
    BY <1>3, <1>6, <2>1 DEF Persist, NoPersist
<1>7. ASSUME User PROVE SteerInv'
  <2>1. ASSUME Regenerate \/ (\E i \in DOMAIN chat : Rewind(i)) \/ CompactHistory
        PROVE  SteerInv'
    BY <1>3, <2>1 DEF Regenerate, StartRun, Rewind, CompactHistory, ForgetSnapshot, run
  <2>2. ASSUME (\E b \in Texts, t \in Turns : Send(b, t)) \/ CancelAgent \/ Approve
        PROVE  SteerInv'
    BY <1>1, <2>2 DEF Send, StartRun, CancelAgent, Approve, ToolFrame, UserFrame, NoPersist
  <2>3. ASSUME NEW s \in Steers, QueueSteering(s) PROVE SteerInv'
    BY <2>3, QueueOrder
  <2>4. ASSUME Reject PROVE SteerInv'
    BY <1>6, <2>4, ThinSteps DEF Reject, Deny, ToolFrame, UserFrame
  <2>5. ASSUME AnswerQuestion PROVE SteerInv'
    BY <1>6, <2>5, ThinSteps DEF AnswerQuestion, Record, ToolFrame, UserFrame
  <2> QED
    BY <1>7, <2>1, <2>2, <2>3, <2>4, <2>5 DEF User
<1>8. ASSUME Endpoint PROVE SteerInv'
  <2>1. ASSUME (\E a \in Answers : PlanAnswer(a) \/ StreamFinal(a)) \/ PlanFails
               \/ StreamFails \/ BudgetStops
        PROVE  SteerInv'
    BY <1>5, <2>1 DEF PlanAnswer, StreamFinal, PlanFails, StreamFails, BudgetStops
  <2>2. ASSUME NEW S \in SUBSET CallIds \ {{}}, StreamCalls(S) PROVE SteerInv'
    BY <1>6, <2>2, ThinSteps DEF StreamCalls, UserFrame
  <2>3. ASSUME Feedback PROVE SteerInv'
    BY <1>6, <2>3, ThinSteps DEF Feedback, UserFrame
  <2>4. ASSUME BeginChecks PROVE SteerInv'
    BY <1>1, <2>4 DEF BeginChecks, ToolFrame, UserFrame, NoPersist
  <2> QED
    BY <1>8, <2>1, <2>2, <2>3, <2>4 DEF Endpoint
<1>9. ASSUME Local PROVE SteerInv'
  <2>1. ASSUME PlanStopped \/ TopStopped \/ SummaryFails \/ StreamStopped \/ LoopTripped
               \/ ToolsStopped \/ RoundStuck
        PROVE  SteerInv'
    BY <1>5, <2>1
    DEF PlanStopped, TopStopped, SummaryFails, StreamStopped, LoopTripped, ToolsStopped, RoundStuck
  <2>2. ASSUME FailEarly \/ ChatDone \/ ChatFailed PROVE SteerInv'
    BY <1>1, <2>2 DEF FailEarly, ChatDone, ChatFailed, UserFrame, NoPersist, CloseFrame
  <2>3. ASSUME Register PROVE SteerInv'
    <3>1. UNCHANGED <<steer, queuedLog, snap>> /\ (turn.plan => wire' = EmptyWire)
      BY <2>3 DEF Register, UserFrame, NoPersist
    <3>2. ~turn.plan => InLogOrder(wire'.hist, Gone, queuedLog)
      BY <1>0, <2>3, RegisterThin, ThinOrder DEF SteerInv
    <3> QED
      BY <1>3, <3>1, <3>2
  <2>4. ASSUME BeginRound \/ BeginSummary PROVE SteerInv'
    <3>1. /\ wire' = Injected /\ steer' = <<>> /\ queuedLog' = queuedLog
          /\ snap' \in {snap, wire'}
      BY <2>4 DEF BeginRound, BeginSummary, Persist, NoPersist, RoundFrame, UserFrame
    <3>2. InLogOrder(wire'.hist, Len(queuedLog), queuedLog)
      BY <3>1, DrainOrder
    <3> QED
      BY <1>4, <3>1, <3>2
  <2>5. ASSUME SummaryDone PROVE SteerInv'
    BY <1>6, <2>5, ThinSteps DEF SummaryDone, RoundFrame, UserFrame
  <2>6. ASSUME ParallelBatch PROVE SteerInv'
    BY <1>6, <2>6, ThinSteps DEF ParallelBatch, ToolFrame, UserFrame
  <2>7. ASSUME NEW c \in CallIds, BeginDenied(c) PROVE SteerInv'
    BY <1>6, <2>7, ThinSteps DEF BeginDenied, Deny, ToolFrame, UserFrame
  <2>8. ASSUME \/ ShowApproval \/ Execute \/ RoundDone \/ BeginBatch
               \/ \E c \in CallIds, to \in {"exec", "approval", "asking"} : Begin(c, to)
        PROVE  SteerInv'
    BY <1>1, <2>8 DEF ShowApproval, Execute, RoundDone, BeginBatch, Begin, ToolFrame, UserFrame, NoPersist
  <2>9. ASSUME RecordResult \/ RecordFailure PROVE SteerInv'
    BY <1>6, <2>9, ThinSteps DEF RecordResult, RecordFailure, Record, ToolFrame, UserFrame
  <2>10. ASSUME HookRefuses PROVE SteerInv'
    BY <1>6, <2>10, ThinSteps DEF HookRefuses, Deny, ToolFrame, UserFrame
  <2> QED
    BY <1>9, <2>1, <2>2, <2>3, <2>4, <2>5, <2>6, <2>7, <2>8, <2>9, <2>10 DEF Local
<1>10. ASSUME Crash PROVE SteerInv'
  BY <1>4, <1>10 DEF Crash, DropRun
<1>11. CASE UNCHANGED vars
  BY <1>1, <1>11 DEF vars, run
<1> QED
  BY <1>7, <1>8, <1>9, <1>10, <1>11 DEF Next

(* The rank of a queued message is its place in the log. *)
LEMMA RankIs ==
  ASSUME QueuedOnce(queuedLog), queuedLog \in Seq([body : Steers, run : Nat]),
         NEW a \in 1..Len(queuedLog)
  PROVE  (CHOOSE i \in DOMAIN queuedLog : queuedLog[i].body = queuedLog[a].body) = a
<1>1. DOMAIN queuedLog = 1..Len(queuedLog)
  OBVIOUS
<1> QED
  BY <1>1 DEF QueuedOnce

(* Queued messages reach the wire in the order they were queued, each at most *)
(* once (SteeringInOrder), whatever stops, errors, crashes, summaries and     *)
(* resumes lie between, and however many are queued.                          *)
THEOREM SteeringOrdered == Spec => []SteeringInOrder
<1>1. Init => TypeInv /\ ChatInv /\ SteerInv
  <2>1. Init => ChatInv
    BY DEF Init, ChatInv
  <2>2. EmptyWire.hist = <<>> /\ \A d, log : InLogOrder(EmptyWire.hist, d, log)
    BY EmptySeq DEF EmptyWire, InLogOrder
  <2>3. Init => SteerInv
    BY <2>2 DEF Init, SteerInv, Gone, QueuedOnce
  <2> QED
    BY <2>1, <2>3, InitType
<1>2. TypeInv /\ ChatInv /\ SteerInv /\ [Next]_vars => (TypeInv /\ ChatInv /\ SteerInv)'
  BY TypeStep, ChatStep, SteerStep
<1>3. ASSUME TypeInv, SteerInv PROVE SteeringInOrder
  <2> DEFINE Rank(s) == CHOOSE i \in DOMAIN queuedLog : queuedLog[i].body = s
  <2>1. /\ wire.hist \in Seq(Msg) /\ DOMAIN wire.hist = 1..Len(wire.hist)
        /\ DOMAIN steer = 1..Len(steer) /\ Len(steer) \in Nat
        /\ queuedLog \in Seq([body : Steers, run : Nat]) /\ Len(queuedLog) \in Nat
        /\ Gone \in Nat /\ Gone + Len(steer) = Len(queuedLog)
    BY <1>3 DEF TypeInv, TypeOK, Wire, SteerInv, Gone
  <2>2. \A a \in 1..Len(queuedLog) : Rank(queuedLog[a].body) = a
    BY <1>3, <2>1, RankIs DEF SteerInv
  <2>3. \A i \in 1..Len(wire.hist) : SteerAt(wire.hist, i) =>
          Rank(wire.hist[i].body) \in 1..Gone
          /\ queuedLog[Rank(wire.hist[i].body)].body = wire.hist[i].body
    <3> HIDE DEF Rank
    <3> SUFFICES ASSUME NEW i \in 1..Len(wire.hist), SteerAt(wire.hist, i)
                 PROVE  Rank(wire.hist[i].body) \in 1..Gone
                        /\ queuedLog[Rank(wire.hist[i].body)].body = wire.hist[i].body
      OBVIOUS
    <3>1. PICK a \in 1..Gone : queuedLog[a].body = wire.hist[i].body
      BY <1>3 DEF SteerInv, InLogOrder
    <3>2. a \in 1..Len(queuedLog)
      BY <2>1
    <3> QED
      BY <2>2, <3>1, <3>2
  <2>4. \A j \in 1..Len(steer) : Rank(steer[j]) = Gone + j
    <3> HIDE DEF Rank
    <3> SUFFICES ASSUME NEW j \in 1..Len(steer) PROVE Rank(steer[j]) = Gone + j
      OBVIOUS
    <3>1. Gone + j \in 1..Len(queuedLog) /\ steer[j] = queuedLog[Gone + j].body
      BY <1>3, <2>1 DEF SteerInv
    <3> QED
      BY <2>2, <3>1
  <2>5. \A i, j \in 1..Len(wire.hist) : SteerAt(wire.hist, i) /\ SteerAt(wire.hist, j) /\ i < j
          => Rank(wire.hist[i].body) < Rank(wire.hist[j].body)
    <3> HIDE DEF Rank
    <3>1. \A a \in 1..Gone : a \in 1..Len(queuedLog)
      BY <2>1
    <3> SUFFICES ASSUME NEW i \in 1..Len(wire.hist), NEW j \in 1..Len(wire.hist),
                        SteerAt(wire.hist, i), SteerAt(wire.hist, j), i < j
                 PROVE  Rank(wire.hist[i].body) < Rank(wire.hist[j].body)
      OBVIOUS
    <3>2. PICK a, b : a = Rank(wire.hist[i].body) /\ b = Rank(wire.hist[j].body)
      OBVIOUS
    <3>3. /\ a \in 1..Len(queuedLog) /\ queuedLog[a].body = wire.hist[i].body
          /\ b \in 1..Len(queuedLog) /\ queuedLog[b].body = wire.hist[j].body
      BY <2>3, <3>1, <3>2
    <3>4. \A x, y \in 1..Len(queuedLog) :
            queuedLog[x].body = wire.hist[i].body /\ queuedLog[y].body = wire.hist[j].body
              => x < y
      BY <1>3 DEF SteerInv, InLogOrder
    <3> QED
      BY <3>2, <3>3, <3>4
  <2>6. \A i, j \in 1..Len(steer) : i < j => Rank(steer[i]) < Rank(steer[j])
    <3> HIDE DEF Rank
    <3> QED
      BY <2>1, <2>4
  <2>7. \A i \in 1..Len(wire.hist), j \in 1..Len(steer) :
          SteerAt(wire.hist, i) => Rank(wire.hist[i].body) < Rank(steer[j])
    <3> HIDE DEF Rank
    <3> QED
      BY <2>1, <2>3, <2>4
  <2> QED
    <3>1. \A i, j \in {k \in DOMAIN wire.hist : SteerAt(wire.hist, k)} : i < j =>
            Rank(wire.hist[i].body) < Rank(wire.hist[j].body)
      <4> HIDE DEF Rank
      <4> QED
        BY <2>1, <2>5
    <3>2. \A i, j \in DOMAIN steer : i < j => Rank(steer[i]) < Rank(steer[j])
      <4> HIDE DEF Rank
      <4> QED
        BY <2>1, <2>6
    <3>3. \A i \in {k \in DOMAIN wire.hist : SteerAt(wire.hist, k)}, j \in DOMAIN steer :
            Rank(wire.hist[i].body) < Rank(steer[j])
      <4> HIDE DEF Rank
      <4> QED
        BY <2>1, <2>7
    <3> QED
      BY <3>1, <3>2, <3>3, Zenon DEF SteeringInOrder, SteerAt
<1>4. TypeInv /\ SteerInv => SteeringInOrder
  BY <1>3
<1> QED
  BY <1>1, <1>2, <1>4, PTL DEF Spec

-----------------------------------------------------------------------------
(* Stops. *)

(* What is left of a run once a side effect took place after its stop: it is *)
(* past every path to another one, and its token stays cancelled.            *)
StopInv ==
  /\ afterStop \in {0, 1}
  /\ afterStop = 1 =>
       /\ pc \notin {"sending", "plan", "approval", "shown", "asking", "exec"}
       /\ pc \notin {"idle", "closing", "failing"} => token = "cancelled"

(* Every step keeps StopInv: only Begin leads a run to a side effect, and it *)
(* reads the flag; only StartRun and a crash forget the stop.                *)
LEMMA StopStep ==
  ASSUME StopInv, [Next]_vars
  PROVE  StopInv'
<1> USE DEF StopInv
<1>1. CASE UNCHANGED vars
  BY <1>1 DEF vars, run, effects
<1>2. ASSUME User PROVE StopInv'
  <2>1. ASSUME (\E b \in Texts, t \in Turns : Send(b, t)) \/ Regenerate
        PROVE  StopInv'
    BY <2>1 DEF Send, Regenerate, StartRun
  <2>2. ASSUME (\E i \in DOMAIN chat : Rewind(i)) \/ CompactHistory
        PROVE  StopInv'
    BY <2>2 DEF Rewind, CompactHistory, run
  <2>3. ASSUME (\E s \in Steers : QueueSteering(s)) \/ CancelAgent
        PROVE  StopInv'
    BY <2>3 DEF QueueSteering, CancelAgent, effects
  <2>4. ASSUME Approve \/ Reject \/ AnswerQuestion
        PROVE  StopInv'
    BY <2>4 DEF Approve, Reject, Deny, AnswerQuestion, Record, Step, ToolFrame
  <2> QED
    BY <1>2, <2>1, <2>2, <2>3, <2>4 DEF User
<1>3. ASSUME NEW from, NEW outcome \in Outcomes, NEW text, Finish(from, outcome, text)
      PROVE  StopInv'
  BY <1>3 DEF Finish, Step, Outcomes
<1>4. ASSUME Endpoint PROVE StopInv'
  <2>1. ASSUME (\E a \in Answers : PlanAnswer(a) \/ StreamFinal(a)) \/ PlanFails
               \/ StreamFails \/ BudgetStops
        PROVE  StopInv'
    BY <1>3, <2>1 DEF PlanAnswer, StreamFinal, PlanFails, StreamFails, BudgetStops, Outcomes
  <2>2. ASSUME (\E S \in SUBSET CallIds \ {{}} : StreamCalls(S)) \/ Feedback \/ BeginChecks
        PROVE  StopInv'
    BY <2>2 DEF StreamCalls, Feedback, BeginChecks, ToolFrame, Step
  <2> QED
    BY <1>4, <2>1, <2>2 DEF Endpoint
<1>5. ASSUME Local PROVE StopInv'
  <2>1. ASSUME PlanStopped \/ TopStopped \/ SummaryFails \/ StreamStopped \/ LoopTripped
               \/ ToolsStopped \/ RoundStuck
        PROVE  StopInv'
    BY <1>3, <2>1
    DEF PlanStopped, TopStopped, SummaryFails, StreamStopped, LoopTripped, ToolsStopped,
        RoundStuck, Outcomes
  <2>2. ASSUME FailEarly \/ Register
        PROVE  StopInv'
    BY <2>2 DEF FailEarly, Register, Step
  <2>3. ASSUME BeginRound \/ BeginSummary \/ SummaryDone
        PROVE  StopInv'
    BY <2>3 DEF BeginRound, BeginSummary, SummaryDone, Step, RoundFrame
  <2>4. ASSUME \E c \in CallIds, to \in {"exec", "approval", "asking"} : Begin(c, to)
        PROVE  StopInv'
    BY <2>4 DEF Begin, Step, Stopped, ToolFrame
  <2>5. ASSUME BeginBatch \/ ParallelBatch \/ HookRefuses \/ (\E c \in CallIds : BeginDenied(c))
        PROVE  StopInv'
    BY <2>5 DEF BeginBatch, ParallelBatch, HookRefuses, BeginDenied, Deny, Step, ToolFrame
  <2>6. ASSUME Execute
        PROVE  StopInv'
    BY <2>6 DEF Execute, Step, Stopped, ToolFrame
  <2>7. ASSUME ShowApproval \/ RecordResult \/ RecordFailure \/ RoundDone
        PROVE  StopInv'
    BY <2>7 DEF ShowApproval, RecordResult, RecordFailure, Record, RoundDone, Step, ToolFrame
  <2>8. ASSUME ChatDone \/ ChatFailed
        PROVE  StopInv'
    BY <2>8 DEF ChatDone, ChatFailed, Step, CloseFrame, effects
  <2> QED
    BY <1>5, <2>1, <2>2, <2>3, <2>4, <2>5, <2>6, <2>7, <2>8 DEF Local
<1>6. ASSUME Crash PROVE StopInv'
  BY <1>6 DEF Crash
<1> QED
  BY <1>1, <1>2, <1>4, <1>5, <1>6 DEF Next

(* Once a stop is registered at most one more side effect takes place        *)
(* (StopBound), with any number of calls in the round and wherever the stop  *)
(* falls: between the check of the flag and the effect, or during the wait   *)
(* for an approval.                                                          *)
THEOREM StopsBounded == Spec => []StopBound
<1>1. Init => StopInv
  BY DEF Init, StopInv
<1>2. StopInv /\ [Next]_vars => StopInv'
  BY StopStep
<1>3. StopInv => StopBound
  BY DEF StopInv, StopBound
<1> QED
  BY <1>1, <1>2, <1>3, PTL DEF Spec
=============================================================================
