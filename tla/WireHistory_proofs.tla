------------------------ MODULE WireHistory_proofs ------------------------
(***************************************************************************)
(* Lemmas about the wire: what finalize_wire, assemble_resume_wire,        *)
(* summarize_wire_history and the pushes of the agent loop preserve.       *)
(*                                                                         *)
(* A wire need not be well paired while calls are handled, so WellPaired   *)
(* is not inductive.  Closable is: every result follows the message that   *)
(* declares its call, no call is declared twice, and only the last         *)
(* declaration may lack results.  Such a wire is what finalize_wire can    *)
(* complete by adding results at its end.                                  *)
(***************************************************************************)
EXTENDS WireHistory, FiniteSetTheorems, FunctionTheorems, SequenceTheorems, TLAPS

IsCall(h, i) == h[i].role = "assistant"
IsTool(h, i) == h[i].role = "tool"

(* Only results after position i. *)
OnlyTools(h, i) == \A k \in 1..Len(h) : i < k => IsTool(h, k)

(* Every result is that of one call, declared by the message it follows. *)
Anchored(h) ==
  \A j \in 1..Len(h) : IsTool(h, j) =>
    /\ DeclaredBefore(h, j)
    /\ \E c \in CallIds : h[j].ids = {c}

(* No call is declared by two messages. *)
DeclaredOnce(h) ==
  \A i, k \in 1..Len(h) :
    IsCall(h, i) /\ IsCall(h, k) /\ i # k => h[i].ids \cap h[k].ids = {}

(* A declaration without all its results is followed by results only. *)
OpenOnlyLast(h) ==
  \A i \in 1..Len(h) : IsCall(h, i) => AnsweredAt(h, i) \/ OnlyTools(h, i)

Closable(h) == Anchored(h) /\ DeclaredOnce(h) /\ OpenOnlyLast(h)

(* g starts like h, as far as roles and calls go. *)
Extends(h, g) ==
  /\ Len(h) <= Len(g)
  /\ \A i \in 1..Len(h) : g[i].role = h[i].role /\ g[i].ids = h[i].ids

-----------------------------------------------------------------------------
(* SetToSeq of a finite set is a sequence of its elements, all of them. *)
LEMMA SetToSeqOnto ==
  ASSUME NEW S, IsFiniteSet(S)
  PROVE  /\ Cardinality(S) \in Nat
         /\ SetToSeq(S) \in [1..Cardinality(S) -> S]
         /\ \A x \in S : \E i \in 1..Cardinality(S) : SetToSeq(S)[i] = x
         /\ \A i, j \in 1..Cardinality(S) : SetToSeq(S)[i] = SetToSeq(S)[j] => i = j
<1> DEFINE n == Cardinality(S)
           I == 1..Cardinality(S)
<1>1. n \in Nat /\ ExistsBijection(I, S)
  BY FS_CardinalityType
<1>2. PICK f : f \in Bijection(I, S)
  BY <1>1, Fun_ExistsBij
<1>3. f \in [I -> S] /\ \A a, b \in I : f[a] = f[b] => a = b
  BY <1>2, Fun_BijectionProperties
<1>4. IsInjective(f)
  BY <1>3 DEF IsInjective
<1>5. SetToSeq(S) \in [I -> S] /\ IsInjective(SetToSeq(S))
  BY <1>3, <1>4 DEF SetToSeq
<1>6. SetToSeq(S) \in Injection(I, S)
  BY <1>5 DEF Injection
<1>7. Cardinality(I) = n
  BY <1>1, FS_Interval
<1>8. SetToSeq(S) \in Surjection(I, S)
  BY <1>6, <1>7, FS_Injection
<1>9. \A x \in S : \E i \in I : SetToSeq(S)[i] = x
  BY <1>8 DEF Surjection
<1>10. \A i, j \in I : SetToSeq(S)[i] = SetToSeq(S)[j] => i = j
  BY <1>5 DEF IsInjective
<1> QED
  BY <1>1, <1>5, <1>9, <1>10

(* ToolMsgs gives one message for each call of S, and no other. *)
LEMMA ToolMsgsProperties ==
  ASSUME NEW S \in SUBSET CallIds, NEW b \in Bodies
  PROVE  /\ ToolMsgs(S, b) \in Seq(Msg)
         /\ Len(ToolMsgs(S, b)) \in Nat
         /\ \A i \in 1..Len(ToolMsgs(S, b)) :
              \E c \in S : ToolMsgs(S, b)[i] = ToolMsg(c, b)
         /\ \A c \in S : \E i \in 1..Len(ToolMsgs(S, b)) : ToolMsgs(S, b)[i] = ToolMsg(c, b)
<1> DEFINE n == Cardinality(S)
           q == ToolMsgs(S, b)
<1>1. IsFiniteSet(S)
  BY WireAssumption, FS_Subset
<1>2. /\ n \in Nat
      /\ SetToSeq(S) \in [1..n -> S]
      /\ \A x \in S : \E i \in 1..n : SetToSeq(S)[i] = x
  BY <1>1, SetToSeqOnto
<1>3. \A i \in 1..n : q[i] = ToolMsg(SetToSeq(S)[i], b) /\ SetToSeq(S)[i] \in S
  BY <1>2 DEF ToolMsgs
<1>4. \A c \in S : ToolMsg(c, b) \in Msg
  BY DEF ToolMsg, Msg
<1>5. q \in [1..n -> Msg]
  BY <1>2, <1>4 DEF ToolMsgs
<1>6. q \in Seq(Msg)
  BY <1>2, <1>5, SeqDef
<1>7. Len(q) = n
  BY <1>2, <1>5, <1>6, LenProperties
<1> QED
  BY <1>2, <1>3, <1>6, <1>7

(* ... and none twice. *)
LEMMA ToolMsgsOnce ==
  ASSUME NEW S \in SUBSET CallIds, NEW b \in Bodies, NEW q, q = ToolMsgs(S, b)
  PROVE  \A i, j \in 1..Len(q) : q[i].ids = q[j].ids => i = j
<1> DEFINE n == Cardinality(S)
<1>1. IsFiniteSet(S)
  BY WireAssumption, FS_Subset
<1>2. PICK f : f = SetToSeq(S)
  OBVIOUS
<1>3. /\ n \in Nat /\ f \in [1..n -> S]
      /\ \A i, j \in 1..n : f[i] = f[j] => i = j
  BY <1>1, <1>2, SetToSeqOnto
<1>4. q = [i \in 1..n |-> ToolMsg(f[i], b)]
  BY <1>2 DEF ToolMsgs
<1>5. Len(q) = n
  <2>1. \A c \in S : ToolMsg(c, b) \in Msg
    BY DEF ToolMsg, Msg
  <2>2. q \in [1..n -> Msg]
    BY <1>3, <1>4, <2>1
  <2>3. q \in Seq(Msg)
    BY <1>3, <2>2, SeqDef
  <2> QED
    BY <1>3, <2>2, <2>3, LenProperties
<1>6. \A i \in 1..n : q[i].ids = {f[i]}
  BY <1>4 DEF ToolMsg
<1> HIDE DEF n
<1> SUFFICES ASSUME NEW i \in 1..n, NEW j \in 1..n, q[i].ids = q[j].ids
             PROVE  i = j
  BY <1>5
<1>7. f[i] = f[j]
  <2>1. {f[i]} = {f[j]}
    BY <1>6
  <2> QED
    BY <2>1
<1> QED
  BY <1>3, <1>7

-----------------------------------------------------------------------------
(* Declared and answered calls, by position. *)
LEMMA DeclaredAt ==
  ASSUME NEW h \in Seq(Msg), NEW c
  PROVE  /\ c \in Declared(h) <=> \E i \in 1..Len(h) : IsCall(h, i) /\ c \in h[i].ids
         /\ c \in Answered(h) <=> \E i \in 1..Len(h) : IsTool(h, i) /\ c \in h[i].ids
<1>1. DOMAIN h = 1..Len(h)
  OBVIOUS
<1> QED
  BY <1>1 DEF Declared, Answered, OfRole, IsCall, IsTool

(* Only calls are declared, and only calls lack results. *)
LEMMA DeclaredType ==
  ASSUME NEW h \in Seq(Msg)
  PROVE  Declared(h) \subseteq CallIds /\ Orphans(h) \subseteq CallIds
<1>1. \A m \in Msg : m.ids \subseteq CallIds
  BY DEF Msg
<1>2. \A i \in 1..Len(h) : h[i] \in Msg
  BY ElementOfSeq
<1> QED
  BY <1>1, <1>2, DeclaredAt DEF Orphans

(* What holds of a position of h holds of it in an extension. *)
LEMMA Prefix ==
  ASSUME NEW h \in Seq(Msg), NEW g \in Seq(Msg), Extends(h, g)
  PROVE  /\ \A i, j \in 1..Len(h) : Follows(h, i, j) <=> Follows(g, i, j)
         /\ \A i \in 1..Len(h) : AnsweredAt(h, i) => AnsweredAt(g, i)
         /\ \A j \in 1..Len(h) : DeclaredBefore(h, j) => DeclaredBefore(g, j)
         /\ Declared(h) \subseteq Declared(g)
<1> /\ Len(h) \in Nat /\ Len(g) \in Nat /\ Len(h) <= Len(g)
    /\ \A i \in 1..Len(h) : i \in 1..Len(g) /\ g[i].role = h[i].role /\ g[i].ids = h[i].ids
  BY DEF Extends
<1>1. \A i, j \in 1..Len(h) : Follows(h, i, j) <=> Follows(g, i, j)
  BY DEF Follows
<1>2. \A i \in 1..Len(h) : AnsweredAt(h, i) => AnsweredAt(g, i)
  BY <1>1 DEF AnsweredAt, ResultAfter
<1>3. \A j \in 1..Len(h) : DeclaredBefore(h, j) => DeclaredBefore(g, j)
  BY <1>1 DEF DeclaredBefore
<1>4. Declared(h) \subseteq Declared(g)
  BY DeclaredAt DEF IsCall
<1> QED
  BY <1>1, <1>2, <1>3, <1>4

(* A result stands after the message that declares its call. *)
LEMMA ResultOfItsCall ==
  ASSUME NEW h \in Seq(Msg), Anchored(h), DeclaredOnce(h),
         NEW i \in 1..Len(h), IsCall(h, i), NEW c \in h[i].ids,
         NEW j \in 1..Len(h), IsTool(h, j), c \in h[j].ids
  PROVE  Follows(h, i, j) /\ h[j].ids = {c}
<1>1. h[j].ids = {c}
  BY DEF Anchored
<1>2. PICK k \in 1..Len(h) : IsCall(h, k) /\ Follows(h, k, j) /\ h[j].ids \subseteq h[k].ids
  BY DEF Anchored, DeclaredBefore, IsCall
<1>3. k = i
  BY <1>2 DEF DeclaredOnce
<1> QED
  BY <1>1, <1>2, <1>3

(* A closable wire with every declaration answered is well paired. *)
LEMMA ClosedIsPaired ==
  ASSUME NEW h \in Seq(Msg), Anchored(h),
         \A i \in 1..Len(h) : IsCall(h, i) => AnsweredAt(h, i)
  PROVE  WellPaired(h)
BY DEF WellPaired, Anchored, IsCall, IsTool

(* The same roles and calls: notes and bodies do not matter. *)
LEMMA SameShape ==
  ASSUME NEW h \in Seq(Msg), NEW g \in Seq(Msg), Extends(h, g), Len(g) = Len(h)
  PROVE  /\ Closable(h) => Closable(g)
         /\ WellPaired(h) => WellPaired(g)
         /\ Declared(g) = Declared(h)
<1> /\ Len(h) \in Nat
    /\ \A i \in 1..Len(h) : g[i].role = h[i].role /\ g[i].ids = h[i].ids
  BY DEF Extends
<1>1. Declared(g) = Declared(h)
  <2>1. \A c : c \in Declared(g) <=> c \in Declared(h)
    BY DeclaredAt DEF IsCall
  <2> QED
    BY <2>1
<1>2. Anchored(h) => Anchored(g)
  BY Prefix DEF Anchored, IsTool
<1>3. DeclaredOnce(h) => DeclaredOnce(g)
  BY DEF DeclaredOnce, IsCall
<1>4. OpenOnlyLast(h) => OpenOnlyLast(g)
  BY Prefix DEF OpenOnlyLast, OnlyTools, IsCall, IsTool
<1>5. WellPaired(h) => WellPaired(g)
  BY Prefix DEF WellPaired
<1> QED
  BY <1>1, <1>2, <1>3, <1>4, <1>5 DEF Closable

(* A wire without tool calls. *)
LEMMA PlainIsPaired ==
  ASSUME NEW h \in Seq(Msg),
         \A i \in 1..Len(h) : h[i].role # "tool" /\ h[i].ids = {}
  PROVE  Closable(h) /\ WellPaired(h) /\ Declared(h) = {}
<1>1. Declared(h) = {}
  BY DeclaredAt DEF IsCall
<1>2. \A i \in 1..Len(h) : AnsweredAt(h, i)
  BY DEF AnsweredAt
<1> QED
  BY <1>1, <1>2 DEF Closable, WellPaired, Anchored, DeclaredOnce, OpenOnlyLast, IsTool, IsCall

-----------------------------------------------------------------------------
(* Results, each of a call of one message that only results follow, are added *)
(* at the end.                                                                *)
LEMMA AddResults ==
  ASSUME NEW h \in Seq(Msg), NEW g \in Seq(Msg), Extends(h, g), Closable(h),
         NEW i \in 1..Len(h), IsCall(h, i), OnlyTools(h, i),
         \A j \in 1..Len(g) : j > Len(h) =>
            IsTool(g, j) /\ \E c \in CallIds \cap h[i].ids : g[j].ids = {c}
  PROVE  /\ Closable(g)
         /\ IsCall(g, i) /\ OnlyTools(g, i)
         /\ Declared(g) = Declared(h)
         /\ AnsweredAt(g, i) => WellPaired(g)
<1> /\ Len(h) \in Nat /\ Len(g) \in Nat /\ Len(h) <= Len(g)
    /\ \A k \in 1..Len(h) : k \in 1..Len(g) /\ g[k].role = h[k].role /\ g[k].ids = h[k].ids
  BY DEF Extends
<1>1. \A k \in 1..Len(g) : IsCall(g, k) => k \in 1..Len(h) /\ IsCall(h, k)
  BY DEF IsCall, IsTool
<1>2. IsCall(g, i) /\ OnlyTools(g, i)
  BY DEF IsCall, OnlyTools, IsTool
<1>3. Declared(g) = Declared(h)
  <2>1. \A c : c \in Declared(g) <=> c \in Declared(h)
    BY <1>1, DeclaredAt DEF IsCall
  <2> QED
    BY <2>1
<1>4. Anchored(g)
  <2> SUFFICES ASSUME NEW j \in 1..Len(g), IsTool(g, j)
               PROVE  DeclaredBefore(g, j) /\ \E c \in CallIds : g[j].ids = {c}
    BY DEF Anchored
  <2>1. CASE j \in 1..Len(h)
    BY <2>1, Prefix DEF Anchored, Closable, IsTool
  <2>2. CASE j > Len(h)
    <3>1. Follows(g, i, j)
      BY <1>2, <2>2 DEF Follows, OnlyTools, IsTool
    <3>2. PICK c \in CallIds \cap h[i].ids : g[j].ids = {c}
      BY <2>2
    <3>3. g[j].ids \subseteq g[i].ids
      BY <3>2
    <3> QED
      BY <1>2, <3>1, <3>2, <3>3 DEF DeclaredBefore, IsCall
  <2> QED
    BY <2>1, <2>2
<1>5. DeclaredOnce(g)
  BY <1>1 DEF DeclaredOnce, Closable
<1>6. OpenOnlyLast(g)
  <2> SUFFICES ASSUME NEW k \in 1..Len(h), IsCall(h, k)
               PROVE  AnsweredAt(g, k) \/ OnlyTools(g, k)
    BY <1>1 DEF OpenOnlyLast
  <2>1. AnsweredAt(h, k) \/ OnlyTools(h, k)
    BY DEF Closable, OpenOnlyLast
  <2>2. CASE AnsweredAt(h, k)
    BY <2>2, Prefix
  <2>3. CASE OnlyTools(h, k)
    BY <2>3 DEF OnlyTools, IsTool
  <2> QED
    BY <2>1, <2>2, <2>3
<1>7. ASSUME AnsweredAt(g, i) PROVE WellPaired(g)
  <2>1. ASSUME NEW k \in 1..Len(h), IsCall(h, k), k # i PROVE AnsweredAt(g, k)
    <3>1. k < i
      BY <2>1 DEF OnlyTools, IsTool, IsCall
    <3>2. ~ OnlyTools(h, k)
      BY <3>1 DEF OnlyTools, IsTool, IsCall
    <3>3. AnsweredAt(h, k)
      BY <2>1, <3>2 DEF Closable, OpenOnlyLast
    <3> QED
      BY <3>3, Prefix
  <2> QED
    BY <1>1, <1>4, <1>7, <2>1, ClosedIsPaired
<1> QED
  BY <1>2, <1>3, <1>4, <1>5, <1>6, <1>7 DEF Closable

(* Messages without tool calls are added to a well paired wire. *)
LEMMA AddPlain ==
  ASSUME NEW h \in Seq(Msg), NEW g \in Seq(Msg), Extends(h, g),
         Closable(h), WellPaired(h),
         \A j \in 1..Len(g) : j > Len(h) => g[j].role = "user"
  PROVE  Closable(g) /\ WellPaired(g) /\ Declared(g) = Declared(h)
<1> /\ Len(h) \in Nat /\ Len(g) \in Nat /\ Len(h) <= Len(g)
    /\ \A k \in 1..Len(h) : k \in 1..Len(g) /\ g[k].role = h[k].role /\ g[k].ids = h[k].ids
  BY DEF Extends
<1>1. \A k \in 1..Len(g) : IsCall(g, k) => k \in 1..Len(h) /\ IsCall(h, k)
  BY DEF IsCall
<1>2. \A k \in 1..Len(g) : IsTool(g, k) => k \in 1..Len(h) /\ IsTool(h, k)
  BY DEF IsTool
<1>3. Declared(g) = Declared(h)
  <2>1. \A c : c \in Declared(g) <=> c \in Declared(h)
    BY <1>1, DeclaredAt DEF IsCall
  <2> QED
    BY <2>1
<1>4. \A k \in 1..Len(g) : IsCall(g, k) => AnsweredAt(g, k)
  BY <1>1, Prefix DEF WellPaired, IsCall
<1>5. Anchored(g)
  BY <1>2, Prefix DEF Anchored, Closable
<1>6. DeclaredOnce(g)
  BY <1>1 DEF DeclaredOnce, Closable
<1> QED
  BY <1>3, <1>4, <1>5, <1>6, ClosedIsPaired DEF Closable, OpenOnlyLast

(* A message that declares new calls is added to a well paired wire. *)
LEMMA AddCalls ==
  ASSUME NEW h \in Seq(Msg), NEW g \in Seq(Msg), Extends(h, g),
         Closable(h), WellPaired(h),
         Len(g) = Len(h) + 1, IsCall(g, Len(g)),
         g[Len(g)].ids \cap Declared(h) = {}
  PROVE  /\ Closable(g) /\ OnlyTools(g, Len(g))
         /\ Declared(g) = Declared(h) \cup g[Len(g)].ids
<1> /\ Len(h) \in Nat /\ Len(g) \in Nat /\ Len(g) \in 1..Len(g)
    /\ \A k \in 1..Len(h) : k \in 1..Len(g) /\ g[k].role = h[k].role /\ g[k].ids = h[k].ids
    /\ \A k \in 1..Len(g) : k # Len(g) => k \in 1..Len(h)
  BY DEF Extends
<1>1. Declared(g) = Declared(h) \cup g[Len(g)].ids
  <2>1. \A c : c \in Declared(g) <=> c \in Declared(h) \/ c \in g[Len(g)].ids
    BY DeclaredAt DEF IsCall
  <2> QED
    BY <2>1
<1>2. OnlyTools(g, Len(g))
  BY DEF OnlyTools
<1>3. Anchored(g)
  BY Prefix DEF Anchored, Closable, IsTool, IsCall
<1>4. \A k \in 1..Len(h) : IsCall(h, k) => h[k].ids \subseteq Declared(h)
  BY DeclaredAt
<1>5. DeclaredOnce(g)
  BY <1>4 DEF DeclaredOnce, Closable, IsCall
<1>6. OpenOnlyLast(g)
  BY <1>2, Prefix DEF OpenOnlyLast, WellPaired, IsCall
<1> QED
  BY <1>1, <1>2, <1>3, <1>5, <1>6 DEF Closable

-----------------------------------------------------------------------------
(* What concatenation adds, and where. *)
LEMMA ConcatExtends ==
  ASSUME NEW h \in Seq(Msg), NEW t \in Seq(Msg)
  PROVE  /\ h \o t \in Seq(Msg)
         /\ Len(h \o t) = Len(h) + Len(t)
         /\ Extends(h, h \o t)
         /\ \A j \in 1..Len(h \o t) : j > Len(h) =>
              j - Len(h) \in 1..Len(t) /\ (h \o t)[j] = t[j - Len(h)]
         /\ \A i \in 1..Len(t) :
              Len(h) + i \in 1..Len(h \o t) /\ (h \o t)[Len(h) + i] = t[i]
BY DEF Extends

(* What one push adds. *)
LEMMA AppendExtends ==
  ASSUME NEW h \in Seq(Msg), NEW m \in Msg
  PROVE  /\ Append(h, m) \in Seq(Msg)
         /\ Len(Append(h, m)) = Len(h) + 1
         /\ Extends(h, Append(h, m))
         /\ Append(h, m)[Len(h) + 1] = m
BY AppendProperties DEF Extends

(* g is h with one result each for calls of S, which message i of h declares *)
(* and only results follow.                                                  *)
ResultsPushed(h, i, S, b, g) ==
  /\ h \in Seq(Msg) /\ Closable(h)
  /\ i \in 1..Len(h) /\ IsCall(h, i) /\ OnlyTools(h, i)
  /\ S \subseteq CallIds /\ S \subseteq h[i].ids /\ b \in Bodies
  /\ g = h \o ToolMsgs(S, b)

(* The parallel branch and finalize_wire answer calls of the open declaration. *)
LEMMA PushResults ==
  ASSUME NEW h, NEW i, NEW S, NEW b, NEW g, ResultsPushed(h, i, S, b, g)
  PROVE  /\ g \in Seq(Msg) /\ Extends(h, g) /\ Closable(g)
         /\ IsCall(g, i) /\ OnlyTools(g, i)
         /\ Declared(g) = Declared(h)
         /\ AnsweredAt(g, i) => WellPaired(g)
         /\ \A c \in S : ResultAfter(g, i, c)
<1> /\ h \in Seq(Msg) /\ Closable(h)
    /\ i \in 1..Len(h) /\ IsCall(h, i) /\ OnlyTools(h, i)
    /\ S \in SUBSET CallIds /\ S \subseteq h[i].ids /\ b \in Bodies
    /\ g = h \o ToolMsgs(S, b)
  BY DEF ResultsPushed
<1> DEFINE t == ToolMsgs(S, b)
<1>1. /\ t \in Seq(Msg) /\ Len(t) \in Nat
      /\ \A k \in 1..Len(t) : \E c \in S : t[k] = ToolMsg(c, b)
      /\ \A c \in S : \E k \in 1..Len(t) : t[k] = ToolMsg(c, b)
  BY ToolMsgsProperties
<1>2. \A c : ToolMsg(c, b).role = "tool" /\ ToolMsg(c, b).ids = {c}
  BY DEF ToolMsg
<1> HIDE DEF t
<1>3. /\ g \in Seq(Msg) /\ Len(g) = Len(h) + Len(t) /\ Extends(h, g)
      /\ \A j \in 1..Len(g) : j > Len(h) =>
           j - Len(h) \in 1..Len(t) /\ g[j] = t[j - Len(h)]
      /\ \A k \in 1..Len(t) : Len(h) + k \in 1..Len(g) /\ g[Len(h) + k] = t[k]
  <2>1. g = h \o t
    BY DEF t
  <2> QED
    BY <1>1, <2>1, ConcatExtends
<1>4. \A j \in 1..Len(g) : j > Len(h) =>
         IsTool(g, j) /\ \E c \in CallIds \cap h[i].ids : g[j].ids = {c}
  <2> SUFFICES ASSUME NEW j \in 1..Len(g), j > Len(h)
               PROVE  IsTool(g, j) /\ \E c \in CallIds \cap h[i].ids : g[j].ids = {c}
    OBVIOUS
  <2>1. PICK c \in S : g[j] = ToolMsg(c, b)
    BY <1>1, <1>3
  <2> QED
    BY <1>2, <2>1 DEF IsTool
<1>5. /\ Closable(g) /\ IsCall(g, i) /\ OnlyTools(g, i)
      /\ Declared(g) = Declared(h)
      /\ AnsweredAt(g, i) => WellPaired(g)
  BY <1>3, <1>4, AddResults
<1>6. ASSUME NEW c \in S
      PROVE  ResultAfter(g, i, c)
  <2>1. PICK k \in 1..Len(t) : t[k] = ToolMsg(c, b)
    BY <1>1
  <2> DEFINE j == Len(h) + k
  <2>2. j \in 1..Len(g) /\ g[j] = ToolMsg(c, b)
    BY <1>3, <2>1
  <2>4. i < j
    BY <1>1
  <2>3. Follows(g, i, j)
    BY <1>3, <1>5, <2>2, <2>4 DEF Follows, OnlyTools, IsTool
  <2> QED
    BY <1>2, <2>2, <2>3 DEF ResultAfter
<1> QED
  BY <1>3, <1>5, <1>6

(* finalize_wire gives a list of messages. *)
LEMMA FinalizeType ==
  ASSUME NEW h \in Seq(Msg)
  PROVE  FinalizeWire(h) \in Seq(Msg)
<1>1. PICK t : t = ToolMsgs(Orphans(h), "interrupted")
  OBVIOUS
<1>2. Orphans(h) \in SUBSET CallIds /\ "interrupted" \in Bodies
  BY DeclaredType DEF Bodies, OwnBodies
<1>3. t \in Seq(Msg)
  BY <1>1, <1>2, ToolMsgsProperties
<1> QED
  BY <1>1, <1>3, ConcatProperties DEF FinalizeWire

(* finalize_wire makes a closable wire well paired. *)
LEMMA FinalizePairs ==
  ASSUME NEW h \in Seq(Msg), Closable(h), NEW g, g = FinalizeWire(h)
  PROVE  /\ g \in Seq(Msg) /\ Extends(h, g)
         /\ Closable(g) /\ WellPaired(g) /\ Declared(g) = Declared(h)
<1>0. "interrupted" \in Bodies /\ Orphans(h) \in SUBSET CallIds
  BY DeclaredType DEF Bodies, OwnBodies
<1>1. PICK S \in SUBSET CallIds, b \in Bodies : S = Orphans(h) /\ b = "interrupted"
  BY <1>0
<1>2. g = h \o ToolMsgs(S, b)
  BY <1>1 DEF FinalizeWire
<1>3. ASSUME NEW k \in 1..Len(h), IsCall(h, k), AnsweredAt(h, k)
      PROVE  h[k].ids \cap S = {}
  <2> SUFFICES ASSUME NEW c \in h[k].ids PROVE c \in Answered(h)
    BY <1>1 DEF Orphans
  <2>1. PICK j \in 1..Len(h) : Follows(h, k, j) /\ h[j].ids = {c}
    BY <1>3 DEF AnsweredAt, ResultAfter
  <2>2. IsTool(h, j)
    BY <2>1 DEF Follows, IsTool
  <2> QED
    BY <2>1, <2>2, DeclaredAt
<1>4. CASE \A k \in 1..Len(h) : IsCall(h, k) => AnsweredAt(h, k)
  <2>1. S = {}
    <3>1. \A c \in S : \E k \in 1..Len(h) : IsCall(h, k) /\ c \in h[k].ids
      BY <1>1, DeclaredAt DEF Orphans
    <3> QED
      BY <1>3, <1>4, <3>1
  <2>2. /\ ToolMsgs(S, b) \in Seq(Msg) /\ Len(ToolMsgs(S, b)) \in Nat
        /\ \A i \in 1..Len(ToolMsgs(S, b)) : \E c \in S : ToolMsgs(S, b)[i] = ToolMsg(c, b)
    BY <1>1, ToolMsgsProperties
  <2>3. Len(ToolMsgs(S, b)) = 0
    BY <2>1, <2>2
  <2>4. g \in Seq(Msg) /\ Extends(h, g) /\ Len(g) = Len(h)
    <3>1. PICK t \in Seq(Msg) : t = ToolMsgs(S, b)
      BY <2>2
    <3>2. g = h \o t /\ Len(t) = 0
      BY <1>2, <2>3, <3>1
    <3>3. /\ h \o t \in Seq(Msg) /\ Len(h \o t) = Len(h) + Len(t)
          /\ Extends(h, h \o t)
      BY ConcatExtends
    <3>4. Len(h) \in Nat
      OBVIOUS
    <3> QED
      BY <3>2, <3>3, <3>4
  <2>5. WellPaired(h)
    BY <1>4, ClosedIsPaired DEF Closable
  <2> QED
    BY <2>4, <2>5, SameShape
<1>5. CASE \E k \in 1..Len(h) : IsCall(h, k) /\ ~ AnsweredAt(h, k)
  <2>1. PICK i \in 1..Len(h) : IsCall(h, i) /\ ~ AnsweredAt(h, i)
    BY <1>5
  <2>2. OnlyTools(h, i)
    BY <2>1 DEF Closable, OpenOnlyLast
  <2>3. \A k \in 1..Len(h) : IsCall(h, k) /\ k # i => AnsweredAt(h, k)
    <3> SUFFICES ASSUME NEW k \in 1..Len(h), IsCall(h, k), k # i
                 PROVE  AnsweredAt(h, k)
      OBVIOUS
    <3>1. ~ OnlyTools(h, k)
      BY <2>1, <2>2 DEF OnlyTools, IsTool, IsCall
    <3> QED
      BY <3>1 DEF Closable, OpenOnlyLast
  <2>4. S \subseteq h[i].ids
    <3>1. \A c \in S : \E k \in 1..Len(h) : IsCall(h, k) /\ c \in h[k].ids
      BY <1>1, DeclaredAt DEF Orphans
    <3> QED
      BY <1>3, <2>3, <3>1
  <2>5. /\ g \in Seq(Msg) /\ Extends(h, g) /\ Closable(g)
        /\ Declared(g) = Declared(h)
        /\ AnsweredAt(g, i) => WellPaired(g)
        /\ \A c \in S : ResultAfter(g, i, c)
    <3>1. ResultsPushed(h, i, S, b, g)
      BY <1>2, <2>1, <2>2, <2>4 DEF ResultsPushed
    <3> QED
      BY <3>1, PushResults
  <2>6. AnsweredAt(g, i)
    <3> SUFFICES ASSUME NEW c \in h[i].ids, c \notin S
                 PROVE  ResultAfter(g, i, c)
      BY <2>5 DEF AnsweredAt, Extends
    <3>1. c \in Answered(h)
      BY <1>1, <2>1, DeclaredAt DEF Orphans
    <3>2. PICK j \in 1..Len(h) : IsTool(h, j) /\ c \in h[j].ids
      BY <3>1, DeclaredAt
    <3>3. Follows(h, i, j) /\ h[j].ids = {c}
      BY <2>1, <3>2, ResultOfItsCall DEF Closable
    <3> QED
      BY <2>5, <3>3, Prefix DEF Extends, ResultAfter
  <2> QED
    BY <2>5, <2>6
<1> QED
  BY <1>4, <1>5

-----------------------------------------------------------------------------
(* A nonempty set of positions has a last one. *)
LEMMA LastPosition ==
  ASSUME NEW n \in Nat, NEW S \in SUBSET (1..n), S # {}
  PROVE  \E c \in S : \A d \in S : d <= c
<1> DEFINE R == {ss \in Nat \X Nat : ss[1] < ss[2]}
           T == {n - c : c \in S}
<1>1. IsWellFoundedOn(R, Nat)
  BY NatLessThanWellFounded DEF OpToRel
<1>2. T \subseteq Nat /\ T # {}
  <2>1. \A c \in S : n - c \in Nat
    OBVIOUS
  <2> QED
    BY <2>1
<1>3. PICK x \in T : \A y \in T : ~ (<<y, x>> \in R)
  <2> HIDE DEF R, T
  <2> QED
    BY <1>1, <1>2, WFMin
<1>4. PICK c \in S : x = n - c
  BY <1>3
<1>5. ASSUME NEW d \in S PROVE d <= c
  <2>1. n - d \in T /\ n - d \in Nat /\ x \in Nat
    BY <1>2, <1>3
  <2>2. ~ (n - d < x)
    BY <1>3, <2>1
  <2> QED
    BY <1>4, <2>2
<1> QED
  BY <1>5

(* A well paired wire is cut before a message that is no result. *)
LEMMA CutPairs ==
  ASSUME NEW h \in Seq(Msg), NEW g \in Seq(Msg), Closable(h), WellPaired(h),
         NEW cut \in 1..Len(h), h[cut].role # "tool",
         Len(g) = Len(h) - cut + 1,
         \A i \in 1..Len(g) : /\ g[i].role = h[cut + i - 1].role
                             /\ g[i].ids = h[cut + i - 1].ids
  PROVE  Closable(g) /\ WellPaired(g) /\ Declared(g) \subseteq Declared(h)
<1> DEFINE at(i) == cut + i - 1
<1>1. /\ Len(h) \in Nat /\ Len(g) \in Nat /\ cut \in Nat
      /\ \A i, j \in 1..Len(g) : at(i) < at(j) <=> i < j
      /\ \A i \in 1..Len(g) : at(i) \in 1..Len(h) /\ at(i) >= cut
      /\ \A k \in cut..Len(h) : k - cut + 1 \in 1..Len(g) /\ at(k - cut + 1) = k
  <2>1. Len(h) \in Nat /\ Len(g) \in Nat /\ cut \in Nat /\ 1 <= cut /\ cut <= Len(h)
    OBVIOUS
  <2>2. \A i, j \in 1..Len(g) : at(i) < at(j) <=> i < j
    BY <2>1
  <2>3. \A i \in 1..Len(g) : at(i) \in 1..Len(h) /\ at(i) >= cut
    BY <2>1
  <2>4. \A k \in cut..Len(h) : k - cut + 1 \in 1..Len(g) /\ at(k - cut + 1) = k
    BY <2>1
  <2> QED
    BY <2>1, <2>2, <2>3, <2>4
<1>2. \A i \in 1..Len(g) : g[i].role = h[at(i)].role /\ g[i].ids = h[at(i)].ids
  OBVIOUS
<1>3. \A i, j \in 1..Len(g) : Follows(h, at(i), at(j)) <=> Follows(g, i, j)
  <2> SUFFICES ASSUME NEW i \in 1..Len(g), NEW j \in 1..Len(g)
               PROVE  Follows(h, at(i), at(j)) <=> Follows(g, i, j)
    OBVIOUS
  <2>1. i < j <=> at(i) < at(j)
    BY <1>1
  <2>0. i \in Nat /\ j \in Nat /\ i <= Len(g) /\ j <= Len(g) /\ i >= 1 /\ j >= 1
    BY <1>1
  <2>2. ASSUME \A k \in (i+1)..j : g[k].role = "tool", NEW k \in (at(i)+1)..at(j)
        PROVE  h[k].role = "tool"
    <3>1. k \in Nat /\ cut + i <= k /\ k <= cut + j - 1
      BY <1>1, <2>0
    <3>2. k \in cut..Len(h) /\ k - cut + 1 \in (i+1)..j
      BY <1>1, <2>0, <3>1
    <3> QED
      BY <1>1, <1>2, <2>2, <3>2
  <2>3. ASSUME \A k \in (at(i)+1)..at(j) : h[k].role = "tool", NEW k \in (i+1)..j
        PROVE  g[k].role = "tool"
    <3>1. k \in Nat /\ i + 1 <= k /\ k <= j
      BY <2>0
    <3>2. k \in 1..Len(g) /\ at(k) \in (at(i)+1)..at(j)
      BY <1>1, <2>0, <3>1
    <3> QED
      BY <1>2, <2>3, <3>2
  <2> QED
    BY <2>1, <2>2, <2>3 DEF Follows
<1>4. ASSUME NEW i \in 1..Len(h), NEW j \in cut..Len(h), Follows(h, i, j)
      PROVE  i \in cut..Len(h)
  <2>1. i \in Nat /\ j \in Nat /\ cut <= j /\ i <= Len(h)
    BY <1>1
  <2>2. ~ (i < cut)
    BY <1>1, <1>4, <2>1 DEF Follows
  <2> QED
    BY <1>1, <2>1, <2>2
<1> HIDE DEF at
<1>5. Declared(g) \subseteq Declared(h)
  <2>1. ASSUME NEW c \in Declared(g) PROVE c \in Declared(h)
    <3>1. PICK i \in 1..Len(g) : IsCall(g, i) /\ c \in g[i].ids
      BY DeclaredAt
    <3>2. at(i) \in 1..Len(h) /\ IsCall(h, at(i)) /\ c \in h[at(i)].ids
      BY <1>1, <1>2, <3>1 DEF IsCall
    <3> QED
      BY <3>2, DeclaredAt
  <2> QED
    BY <2>1
<1>6. Anchored(g)
  <2> SUFFICES ASSUME NEW j \in 1..Len(g), IsTool(g, j)
               PROVE  DeclaredBefore(g, j) /\ \E c \in CallIds : g[j].ids = {c}
    BY DEF Anchored
  <2>1. /\ \E c \in CallIds : h[at(j)].ids = {c}
        /\ DeclaredBefore(h, at(j))
    BY <1>1, <1>2 DEF Closable, Anchored, IsTool
  <2>2. PICK k \in 1..Len(h) : /\ h[k].role = "assistant"
                               /\ Follows(h, k, at(j))
                               /\ h[at(j)].ids \subseteq h[k].ids
    BY <2>1 DEF DeclaredBefore
  <2>3. PICK i \in 1..Len(g) : at(i) = k
    <3>1. at(j) \in cut..Len(h)
      BY <1>1
    <3> QED
      BY <1>1, <1>4, <2>2, <3>1
  <2> QED
    BY <1>2, <1>3, <2>1, <2>2, <2>3 DEF DeclaredBefore
<1>7. DeclaredOnce(g)
  <2> SUFFICES ASSUME NEW i \in 1..Len(g), NEW k \in 1..Len(g),
                      IsCall(g, i), IsCall(g, k), i # k
               PROVE  g[i].ids \cap g[k].ids = {}
    BY DEF DeclaredOnce
  <2>1. at(i) \in 1..Len(h) /\ at(k) \in 1..Len(h) /\ at(i) # at(k)
    BY <1>1
  <2>2. IsCall(h, at(i)) /\ IsCall(h, at(k))
    BY <1>2 DEF IsCall
  <2>3. h[at(i)].ids \cap h[at(k)].ids = {}
    BY <2>1, <2>2 DEF Closable, DeclaredOnce
  <2> QED
    BY <1>2, <2>3
<1>8. \A i \in 1..Len(g) : IsCall(g, i) => AnsweredAt(g, i)
  <2> SUFFICES ASSUME NEW i \in 1..Len(g), IsCall(g, i), NEW c \in g[i].ids
               PROVE  ResultAfter(g, i, c)
    BY DEF AnsweredAt
  <2>1. AnsweredAt(h, at(i)) /\ c \in h[at(i)].ids
    BY <1>1, <1>2 DEF WellPaired, IsCall
  <2>2. PICK k \in 1..Len(h) : Follows(h, at(i), k) /\ h[k].ids = {c}
    BY <2>1 DEF AnsweredAt, ResultAfter
  <2>3. k \in cut..Len(h)
    BY <1>1, <2>2 DEF Follows
  <2>4. PICK j \in 1..Len(g) : at(j) = k
    BY <1>1, <2>3
  <2> QED
    BY <1>2, <1>3, <2>2, <2>4 DEF ResultAfter
<1> QED
  BY <1>5, <1>6, <1>7, <1>8, ClosedIsPaired DEF Closable, OpenOnlyLast

(* The split point is 0, or the position of a message that is no result. *)
LEMMA SplitPointProperties ==
  ASSUME NEW w \in Wire
  PROVE  \/ SplitPoint(w) = 0
         \/ /\ SplitPoint(w) \in 1..Len(w.hist)
            /\ w.hist[SplitPoint(w)].role # "tool"
<1>1. w.hist \in Seq(Msg) /\ Len(w.hist) \in Nat /\ DOMAIN w.hist = 1..Len(w.hist)
  BY DEF Wire
<1>2. Cuts(w) \subseteq 1..Len(w.hist)
  BY <1>1 DEF Cuts
<1>3. ASSUME Cuts(w) # {} PROVE Max(Cuts(w)) \in Cuts(w)
  <2>1. PICK c \in Cuts(w) : \A d \in Cuts(w) : d <= c
    BY <1>1, <1>2, <1>3, LastPosition
  <2>2. \A d \in Cuts(w) : c >= d
    BY <1>2, <2>1
  <2> QED
    BY <2>1, <2>2 DEF Max
<1>4. CASE Cuts(w) # {} /\ Max(Cuts(w)) # 1
  <2>1. SplitPoint(w) \in Cuts(w) /\ SplitPoint(w) # 1
    BY <1>3, <1>4 DEF SplitPoint
  <2> QED
    BY <1>2, <2>1 DEF Cuts
<1> QED
  BY <1>4 DEF SplitPoint

(* summarize_wire_history keeps the pairs of what it keeps: it never cuts *)
(* between a declaration and its results.                                 *)
LEMMA SummarizeProperties ==
  ASSUME NEW w \in Wire
  PROVE  /\ Summarize(w) \in Wire
         /\ \E off \in Nat : \A i \in 1..Len(Summarize(w).hist) :
              /\ off + i \in 1..Len(w.hist)
              /\ Summarize(w).hist[i].role = w.hist[off + i].role
              /\ Summarize(w).hist[i].body = w.hist[off + i].body
         /\ Closable(w.hist) /\ WellPaired(w.hist) =>
              /\ Closable(Summarize(w).hist) /\ WellPaired(Summarize(w).hist)
              /\ Declared(Summarize(w).hist) \subseteq Declared(w.hist)
<1>1. PICK h \in Seq(Msg) : h = w.hist
  BY DEF Wire
<1>2. PICK cut : cut = SplitPoint(w)
  OBVIOUS
<1>3. CASE cut = 0
  <2>1. Summarize(w) = w
    BY <1>2, <1>3 DEF Summarize
  <2>2. 0 \in Nat /\ \A i \in 1..Len(h) : 0 + i \in 1..Len(h) /\ h[i] = h[0 + i]
    OBVIOUS
  <2> QED
    BY <1>1, <2>1, <2>2
<1>4. CASE cut \in 1..Len(h) /\ h[cut].role # "tool"
  <2> DEFINE n == Len(h)
             notes == w.hist[1].notes \cup
               (IF Weight(w.hist, cut, w.tail) = KeepRecent THEN w.hist[cut].notes ELSE {})
  <2>1. /\ n \in Nat /\ n >= 1 /\ cut \in 1..n /\ cut # 0
        /\ \A i \in 1..n : h[i] \in Msg
    BY <1>4, ElementOfSeq
  <2>2. PICK m : m = [h[cut] EXCEPT !.notes = notes]
    OBVIOUS
  <2>3. PICK rest : rest = SubSeq(h, cut + 1, n)
    OBVIOUS
  <2>4. PICK memo : memo = w.memo \cup Resolved(SubSeq(h, 1, cut - 1))
    OBVIOUS
  <2>5. Summarize(w) = [w EXCEPT !.memo = memo, !.hist = <<m>> \o rest]
    BY <1>1, <1>2, <2>1, <2>2, <2>3, <2>4 DEF Summarize
  <2>6. m \in Msg /\ m.role = h[cut].role /\ m.ids = h[cut].ids /\ m.body = h[cut].body
    <3>1. h[cut] \in Msg /\ h[1] \in Msg
      BY <2>1
    <3>2. notes \subseteq Notes
      BY <1>1, <3>1 DEF Msg
    <3> HIDE DEF notes
    <3> QED
      BY <2>2, <3>1, <3>2 DEF Msg
  <2>7. /\ rest \in Seq(Msg) /\ Len(rest) = n - cut
        /\ \A i \in 1..(n - cut) : rest[i] = h[cut + i]
    BY <2>1, <2>3, SubSeqProperties
  <2>8. /\ <<m>> \o rest \in Seq(Msg) /\ Len(<<m>> \o rest) = n - cut + 1
        /\ \A i \in 1..(n - cut + 1) :
             (<<m>> \o rest)[i] = IF i = 1 THEN m ELSE rest[i - 1]
    <3>1. <<m>> \in Seq(Msg) /\ Len(<<m>>) = 1 /\ <<m>>[1] = m
      BY <2>6
    <3>2. PICK t \in Seq(Msg) : t = <<m>> /\ Len(t) = 1 /\ t[1] = m
      BY <3>1
    <3>3. /\ t \o rest \in Seq(Msg) /\ Len(t \o rest) = n - cut + 1
          /\ \A i \in 1..(n - cut + 1) :
               (t \o rest)[i] = IF i = 1 THEN m ELSE rest[i - 1]
      <4>1. /\ t \o rest \in Seq(Msg) /\ Len(t \o rest) = Len(t) + Len(rest)
            /\ \A i \in 1..(Len(t) + Len(rest)) :
                 (t \o rest)[i] = IF i <= Len(t) THEN t[i] ELSE rest[i - Len(t)]
        BY <2>7, ConcatProperties
      <4> QED
        BY <2>1, <2>7, <3>2, <4>1
    <3> QED
      BY <3>2, <3>3
  <2>9. memo \subseteq CallIds
    <3>1. SubSeq(h, 1, cut - 1) \in Seq(Msg)
      BY <2>1, SubSeqProperties
    <3>2. \A q \in Seq(Msg) : Resolved(q) \subseteq CallIds
      <4>1. \A q \in Seq(Msg) : \A m1 \in OfRole(q, "tool") : m1 \in Msg
        BY ElementOfSeq DEF OfRole
      <4>2. \A m1 \in Msg : m1.ids \subseteq CallIds
        BY DEF Msg
      <4> QED
        BY <4>1, <4>2 DEF Resolved
    <3> QED
      BY <2>4, <3>1, <3>2 DEF Wire
  <2>10. PICK g : g = <<m>> \o rest
    OBVIOUS
  <2>11. Summarize(w) \in Wire /\ Summarize(w).hist = g
    BY <2>5, <2>8, <2>9, <2>10 DEF Wire
  <2>12. /\ g \in Seq(Msg) /\ Len(g) = n - cut + 1
         /\ \A i \in 1..Len(g) : /\ g[i].role = h[cut + i - 1].role
                                 /\ g[i].ids = h[cut + i - 1].ids
                                 /\ g[i].body = h[cut + i - 1].body
    <3>1. g \in Seq(Msg) /\ Len(g) = n - cut + 1
      BY <2>8, <2>10
    <3> SUFFICES ASSUME NEW i \in 1..Len(g)
                 PROVE  /\ g[i].role = h[cut + i - 1].role
                        /\ g[i].ids = h[cut + i - 1].ids
                        /\ g[i].body = h[cut + i - 1].body
      BY <3>1
    <3>2. CASE i = 1
      BY <2>1, <2>6, <2>8, <2>10, <3>1, <3>2
    <3>3. CASE i # 1
      <4>1. g[i] = rest[i - 1] /\ i - 1 \in 1..(n - cut)
        BY <2>1, <2>8, <2>10, <3>1, <3>3
      <4>2. rest[i - 1] = h[cut + (i - 1)] /\ cut + (i - 1) = cut + i - 1
        BY <2>1, <2>7, <4>1
      <4> QED
        BY <4>1, <4>2
    <3> QED
      BY <3>2, <3>3
  <2>13. ASSUME Closable(h), WellPaired(h)
         PROVE  Closable(g) /\ WellPaired(g) /\ Declared(g) \subseteq Declared(h)
    <3>1. h[cut].role # "tool"
      BY <1>4
    <3> QED
      BY <2>1, <2>12, <2>13, <3>1, CutPairs
  <2>14. /\ cut - 1 \in Nat
         /\ \A i \in 1..Len(g) : /\ (cut - 1) + i \in 1..n
                                 /\ g[i].role = h[(cut - 1) + i].role
                                 /\ g[i].body = h[(cut - 1) + i].body
    <3>1. \A i \in 1..(n - cut + 1) : (cut - 1) + i \in 1..n /\ (cut - 1) + i = cut + i - 1
      BY <2>1
    <3> QED
      BY <2>1, <2>12, <3>1
  <2> QED
    BY <1>1, <2>11, <2>13, <2>14
<1> QED
  BY <1>1, <1>2, <1>3, <1>4, SplitPointProperties

-----------------------------------------------------------------------------
(* Dropping the system messages keeps the shape. *)
LEMMA WithoutSystemShape ==
  ASSUME NEW h \in Seq(Msg)
  PROVE  /\ WithoutSystem(h) \in Seq(Msg) /\ Len(WithoutSystem(h)) = Len(h)
         /\ Extends(h, WithoutSystem(h))
         /\ \A i \in 1..Len(h) : /\ WithoutSystem(h)[i].body = h[i].body
                                 /\ WithoutSystem(h)[i].notes = {}
<1>1. Len(h) \in Nat /\ DOMAIN h = 1..Len(h)
  OBVIOUS
<1>2. PICK g : g = WithoutSystem(h)
  OBVIOUS
<1>3. \A m \in Msg : /\ [m EXCEPT !.notes = {}] \in Msg
                     /\ [m EXCEPT !.notes = {}].role = m.role
                     /\ [m EXCEPT !.notes = {}].ids = m.ids
                     /\ [m EXCEPT !.notes = {}].body = m.body
                     /\ [m EXCEPT !.notes = {}].notes = {}
  BY DEF Msg
<1>4. DOMAIN g = 1..Len(h) /\ \A i \in 1..Len(h) : g[i] = [h[i] EXCEPT !.notes = {}]
  BY <1>1, <1>2 DEF WithoutSystem
<1>5. \A i \in 1..Len(h) : h[i] \in Msg
  BY ElementOfSeq
<1>6. g \in [1..Len(h) -> Msg]
  BY <1>1, <1>2, <1>3, <1>5 DEF WithoutSystem
<1>7. g \in Seq(Msg) /\ Len(g) = Len(h)
  BY <1>1, <1>6, SeqDef, LenProperties
<1>8. Extends(h, g) /\ \A i \in 1..Len(h) : g[i].body = h[i].body /\ g[i].notes = {}
  <2> SUFFICES ASSUME NEW i \in 1..Len(h)
               PROVE  /\ g[i].role = h[i].role /\ g[i].ids = h[i].ids
                      /\ g[i].body = h[i].body /\ g[i].notes = {}
    BY <1>1, <1>7 DEF Extends
  <2>1. PICK m \in Msg : m = h[i]
    BY <1>5
  <2>2. g[i] = [m EXCEPT !.notes = {}]
    BY <1>4, <2>1
  <2> QED
    BY <1>3, <2>1, <2>2
<1> QED
  BY <1>2, <1>7, <1>8

(* The new turn's wire: user and assistant messages without calls. *)
Plain(h) == \A i \in 1..Len(h) : h[i].role # "tool" /\ h[i].ids = {}

(* A conversation that is summed up in a wire is a wire; from any closable *)
(* snapshot, assemble_resume_wire makes a well paired one.                 *)
LEMMA AssembleProperties ==
  ASSUME NEW s \in Wire, NEW f \in Wire, NEW w, w = AssembleResume(s, f)
  PROVE  /\ w \in Wire
         /\ Closable(s.hist) /\ Plain(f.hist) =>
              /\ Closable(w.hist) /\ WellPaired(w.hist)
              /\ Declared(w.hist) \subseteq Declared(s.hist)
<1>1. PICK old : old = WithoutSystem(s.hist)
  OBVIOUS
<1>2. PICK done : done = FinalizeWire(old)
  OBVIOUS
<1>3. PICK new : new = f.hist[Len(f.hist)]
  OBVIOUS
<1>4. s.hist \in Seq(Msg) /\ f.hist \in Seq(Msg)
  BY DEF Wire
<1>5. /\ old \in Seq(Msg) /\ Len(old) = Len(s.hist)
      /\ Closable(s.hist) => Closable(old)
      /\ Declared(old) = Declared(s.hist)
  BY <1>1, <1>4, WithoutSystemShape, SameShape
<1>6. /\ done \in Seq(Msg)
      /\ Closable(s.hist) => /\ Closable(done) /\ WellPaired(done)
                             /\ Declared(done) = Declared(s.hist)
  BY <1>2, <1>5, FinalizeType, FinalizePairs
<1>7. CASE w = f
  <2>1. Plain(f.hist) => Closable(f.hist) /\ WellPaired(f.hist) /\ Declared(f.hist) = {}
    BY <1>4, PlainIsPaired DEF Plain
  <2> QED
    BY <1>7, <2>1
<1>8. CASE f.hist # <<>> /\ new.role = "user"
           /\ w = [memo |-> {}, hist |-> done, tail |-> new.notes]
  <2>1. new \in Msg
    BY <1>3, <1>4, <1>8, EmptySeq, ElementOfSeq
  <2>2. w \in Wire /\ w.hist = done
    BY <1>6, <1>8, <2>1 DEF Wire, Msg
  <2> QED
    BY <1>6, <2>2
<1>9. CASE f.hist # <<>> /\ new.role = "user"
           /\ w = [memo |-> {}, hist |-> Append(done, new), tail |-> {}]
  <2>1. new \in Msg
    BY <1>3, <1>4, <1>9, EmptySeq, ElementOfSeq
  <2>2. PICK g : g = Append(done, new)
    OBVIOUS
  <2>3. /\ g \in Seq(Msg) /\ Extends(done, g) /\ Len(g) = Len(done) + 1
        /\ g[Len(done) + 1] = new
    BY <1>6, <2>1, <2>2, AppendExtends
  <2>4. \A j \in 1..Len(g) : j > Len(done) => g[j].role = "user"
    <3>1. Len(done) \in Nat
      BY <1>6
    <3> QED
      BY <1>9, <2>3, <3>1
  <2>5. Closable(s.hist) => Closable(g) /\ WellPaired(g) /\ Declared(g) = Declared(done)
    BY <1>6, <2>3, <2>4, AddPlain
  <2>6. w \in Wire /\ w.hist = g
    BY <1>9, <2>2, <2>3 DEF Wire
  <2> QED
    BY <1>6, <2>5, <2>6
<1>10. \/ w = f
       \/ /\ f.hist # <<>> /\ new.role = "user"
          /\ \/ w = [memo |-> {}, hist |-> done, tail |-> new.notes]
             \/ w = [memo |-> {}, hist |-> Append(done, new), tail |-> {}]
  BY <1>1, <1>2, <1>3 DEF AssembleResume
<1> QED
  BY <1>7, <1>8, <1>9, <1>10
-----------------------------------------------------------------------------
(* What is waiting, what is known and what instructs: orphans, results and   *)
(* notes.                                                                    *)

(* A result pushed for some calls leaves every other open call open. *)
LEMMA OrphansLeft ==
  ASSUME NEW h \in Seq(Msg), NEW g \in Seq(Msg), Extends(h, g), Len(g) = Len(h) + 1,
         NEW c \in Orphans(h), c \notin g[Len(g)].ids
  PROVE  c \in Orphans(g)
<1> /\ Len(h) \in Nat /\ Len(g) \in Nat
    /\ \A j \in 1..Len(g) : j # Len(g) =>
         j \in 1..Len(h) /\ g[j].role = h[j].role /\ g[j].ids = h[j].ids
  BY DEF Extends
<1>1. c \in Declared(g)
  BY Prefix DEF Orphans
<1>2. \A j \in 1..Len(g) : ~(IsTool(g, j) /\ c \in g[j].ids)
  BY DeclaredAt DEF Orphans, IsTool
<1> QED
  BY <1>1, <1>2, DeclaredAt DEF Orphans

(* Calls declared after a well paired history, under new ids, are all open. *)
LEMMA NewCallsOpen ==
  ASSUME NEW h \in Seq(Msg), NEW g \in Seq(Msg), Extends(h, g), Len(g) = Len(h) + 1,
         WellPaired(h), IsCall(g, Len(g)), g[Len(g)].ids \cap Declared(h) = {}
  PROVE  g[Len(g)].ids \subseteq Orphans(g)
<1> SUFFICES ASSUME NEW c \in g[Len(g)].ids PROVE c \in Orphans(g)
  OBVIOUS
<1> /\ Len(h) \in Nat /\ Len(g) \in 1..Len(g)
    /\ \A j \in 1..Len(g) : j # Len(g) =>
         j \in 1..Len(h) /\ g[j].role = h[j].role /\ g[j].ids = h[j].ids
  BY DEF Extends
<1>1. c \in Declared(g)
  BY DeclaredAt
<1>2. ASSUME NEW j \in 1..Len(h), IsTool(h, j), c \in h[j].ids PROVE FALSE
  <2>1. PICK i \in 1..Len(h) : IsCall(h, i) /\ h[j].ids \subseteq h[i].ids
    BY <1>2 DEF WellPaired, DeclaredBefore, IsTool, IsCall
  <2> QED
    BY <1>2, <2>1, DeclaredAt
<1>3. \A j \in 1..Len(g) : ~(IsTool(g, j) /\ c \in g[j].ids)
  BY <1>2 DEF IsTool, IsCall
<1> QED
  BY <1>1, <1>3, DeclaredAt DEF Orphans

(* g starts with the messages of h, their notes aside. *)
Begins(h, g) ==
  /\ Len(h) <= Len(g)
  /\ \A i \in 1..Len(h) :
       g[i].role = h[i].role /\ g[i].ids = h[i].ids /\ g[i].body = h[i].body

(* Adding messages loses neither a declaration nor an answer. *)
LEMMA CallsStay ==
  ASSUME NEW h \in Seq(Msg), NEW g \in Seq(Msg), Begins(h, g)
  PROVE  /\ Extends(h, g)
         /\ Declared(h) \subseteq Declared(g) /\ Answered(h) \subseteq Answered(g)
<1>1. Extends(h, g)
  BY DEF Begins, Extends
<1>2. ASSUME NEW c \in Answered(h) PROVE c \in Answered(g)
  <2>1. PICK j \in 1..Len(h) : IsTool(h, j) /\ c \in h[j].ids
    BY DeclaredAt
  <2>2. j \in 1..Len(g) /\ IsTool(g, j) /\ c \in g[j].ids
    BY <2>1 DEF Begins, IsTool
  <2> QED
    BY <2>2, DeclaredAt
<1> QED
  BY <1>1, <1>2, Prefix

(* Adding no declaration declares nothing. *)
LEMMA NothingDeclared ==
  ASSUME NEW h \in Seq(Msg), NEW g \in Seq(Msg), Extends(h, g),
         \A j \in 1..Len(g) : j > Len(h) => g[j].role # "assistant"
  PROVE  Declared(g) = Declared(h)
<1>1. Len(h) \in Nat /\ Len(g) \in Nat
  OBVIOUS
<1>2. ASSUME NEW c \in Declared(g) PROVE c \in Declared(h)
  <2>1. PICK i \in 1..Len(g) : IsCall(g, i) /\ c \in g[i].ids
    BY DeclaredAt
  <2>2. i \in 1..Len(h) /\ IsCall(h, i) /\ c \in h[i].ids
    BY <1>1, <2>1 DEF Extends, IsCall
  <2> QED
    BY <2>2, DeclaredAt
<1> QED
  BY <1>2, Prefix

(* Only declared calls are answered. *)
LEMMA AnsweredDeclared ==
  ASSUME NEW h \in Seq(Msg), Anchored(h)
  PROVE  Answered(h) \subseteq Declared(h)
<1> SUFFICES ASSUME NEW c \in Answered(h) PROVE c \in Declared(h)
  OBVIOUS
<1>1. PICK j \in 1..Len(h) : IsTool(h, j) /\ c \in h[j].ids
  BY DeclaredAt
<1>2. PICK i \in 1..Len(h) : IsCall(h, i) /\ h[j].ids \subseteq h[i].ids
  BY <1>1 DEF Anchored, DeclaredBefore, IsCall
<1> QED
  BY <1>1, <1>2, DeclaredAt

(* A well paired history has no open call. *)
LEMMA PairedIsSettled ==
  ASSUME NEW h \in Seq(Msg), WellPaired(h)
  PROVE  Orphans(h) = {}
<1> SUFFICES ASSUME NEW c \in Declared(h) PROVE c \in Answered(h)
  BY DEF Orphans
<1>1. PICK i \in 1..Len(h) : IsCall(h, i) /\ c \in h[i].ids
  BY DeclaredAt
<1>2. PICK j \in 1..Len(h) : Follows(h, i, j) /\ h[j].ids = {c}
  BY <1>1 DEF WellPaired, AnsweredAt, ResultAfter, IsCall
<1>3. IsTool(h, j)
  BY <1>2 DEF Follows, IsTool
<1> QED
  BY <1>2, <1>3, DeclaredAt

(* Resolved by positions. *)
LEMMA ResolvedAt ==
  ASSUME NEW h \in Seq(Msg), NEW c
  PROVE  c \in Resolved(h) <=>
           \E i \in 1..Len(h) : IsTool(h, i) /\ h[i].body = "result" /\ c \in h[i].ids
<1>1. DOMAIN h = 1..Len(h)
  OBVIOUS
<1> QED
  BY <1>1 DEF Resolved, OfRole, IsTool

(* Adding messages loses no result. *)
LEMMA ResultsStay ==
  ASSUME NEW h \in Seq(Msg), NEW g \in Seq(Msg), Begins(h, g)
  PROVE  Resolved(h) \subseteq Resolved(g)
<1> SUFFICES ASSUME NEW c \in Resolved(h) PROVE c \in Resolved(g)
  OBVIOUS
<1>1. PICK i \in 1..Len(h) : IsTool(h, i) /\ h[i].body = "result" /\ c \in h[i].ids
  BY ResolvedAt
<1>2. i \in 1..Len(g) /\ IsTool(g, i) /\ g[i].body = "result" /\ c \in g[i].ids
  BY <1>1 DEF Begins, IsTool
<1> QED
  BY <1>2, ResolvedAt

(* The system messages of a wire outside its leading block. *)
SentNotes(w) == w.tail \cup UNION {w.hist[i].notes : i \in DOMAIN w.hist}

(* The same notes, by positions. *)
LEMMA NotesAt ==
  ASSUME NEW w \in Wire, NEW n
  PROVE  n \in SentNotes(w) <=>
           n \in w.tail \/ \E i \in 1..Len(w.hist) : n \in w.hist[i].notes
<1>1. DOMAIN w.hist = 1..Len(w.hist)
  BY DEF Wire
<1> QED
  BY <1>1 DEF SentNotes

(* finalize_wire adds messages without notes and changes no other. *)
LEMMA FinalizeKeeps ==
  ASSUME NEW h \in Seq(Msg), NEW g, g = FinalizeWire(h)
  PROVE  /\ g \in Seq(Msg) /\ Begins(h, g)
         /\ \A i \in 1..Len(g) : IF i <= Len(h) THEN g[i] = h[i]
                               ELSE g[i].notes = {} /\ g[i].role = "tool"
<1>1. PICK t : t = ToolMsgs(Orphans(h), "interrupted")
  OBVIOUS
<1>2. /\ t \in Seq(Msg) /\ \A i \in 1..Len(t) : t[i].notes = {} /\ t[i].role = "tool"
  <2>1. Orphans(h) \in SUBSET CallIds /\ "interrupted" \in Bodies
    BY DeclaredType DEF Bodies, OwnBodies
  <2>2. PICK S \in SUBSET CallIds, b \in Bodies : t = ToolMsgs(S, b)
    BY <1>1, <2>1
  <2>3. t \in Seq(Msg) /\ \A i \in 1..Len(t) : \E c \in S : t[i] = ToolMsg(c, b)
    BY <2>2, ToolMsgsProperties
  <2>4. \A c \in S : ToolMsg(c, b).notes = {} /\ ToolMsg(c, b).role = "tool"
    BY DEF ToolMsg
  <2> QED
    BY <2>3, <2>4
<1>3. g = h \o t /\ Len(h) \in Nat /\ Len(t) \in Nat
  BY <1>1, <1>2 DEF FinalizeWire
<1>4. /\ g \in Seq(Msg) /\ Len(g) = Len(h) + Len(t)
      /\ \A i \in 1..Len(g) : g[i] = IF i <= Len(h) THEN h[i] ELSE t[i - Len(h)]
  BY <1>2, <1>3, ConcatProperties
<1>5. \A i \in 1..Len(g) : i <= Len(h) \/ i - Len(h) \in 1..Len(t)
  BY <1>3, <1>4
<1> QED
  BY <1>2, <1>3, <1>4, <1>5 DEF Begins

(* To begin with is transitive. *)
LEMMA BeginsTransitive ==
  ASSUME NEW h \in Seq(Msg), NEW g \in Seq(Msg), NEW k \in Seq(Msg),
         Begins(h, g), Begins(g, k)
  PROVE  Begins(h, k)
<1>1. Len(h) \in Nat /\ Len(g) \in Nat /\ Len(k) \in Nat
  OBVIOUS
<1>2. Len(h) <= Len(g) /\ Len(g) <= Len(k)
  BY DEF Begins
<1>3. \A i \in 1..Len(h) : i \in 1..Len(g)
  BY <1>1, <1>2
<1>4. Len(h) <= Len(k)
  BY <1>1, <1>2
<1> QED
  BY <1>3, <1>4 DEF Begins

(* A resume starts with what the snapshot says, and of the notes keeps only  *)
(* those of the new turn.                                                    *)
LEMMA AssembleKeeps ==
  ASSUME NEW s \in Wire, NEW f \in Wire, NEW w, w = AssembleResume(s, f),
         f.hist # <<>>, f.hist[Len(f.hist)].role = "user", f.tail = {},
         NEW N, f.hist[Len(f.hist)].notes = N, SentNotes(f) = N
  PROVE  /\ w.hist \in Seq(Msg) /\ Begins(s.hist, w.hist)
         /\ SentNotes(w) = N
         /\ \A i \in 1..Len(w.hist) : i \notin 1..Len(s.hist) /\ w.hist[i].role = "user"
              => \E k \in 1..Len(f.hist) : f.hist[k].role = "user" /\ w.hist[i].body = f.hist[k].body
<1>1. s.hist \in Seq(Msg) /\ f.hist \in Seq(Msg)
  BY DEF Wire
<1>2. CASE s.hist = <<>>
  <2>1. w = f
    BY <1>2 DEF AssembleResume
  <2>2. Len(s.hist) = 0 /\ Len(f.hist) \in Nat
    BY <1>1, <1>2, EmptySeq
  <2> QED
    BY <1>1, <2>1, <2>2 DEF Begins
<1>3. CASE s.hist # <<>>
  <2>1. PICK new \in Msg : /\ new = f.hist[Len(f.hist)] /\ new.notes = N /\ new.role = "user"
                          /\ \E k \in 1..Len(f.hist) : new = f.hist[k]
    <3>1. Len(f.hist) \in 1..Len(f.hist)
      BY <1>1, EmptySeq
    <3> QED
      BY <1>1, <3>1, ElementOfSeq
  <2>2. PICK old : old = WithoutSystem(s.hist)
    OBVIOUS
  <2>3. PICK done : done = FinalizeWire(old)
    OBVIOUS
  <2>4. /\ old \in Seq(Msg) /\ Len(old) = Len(s.hist) /\ Begins(s.hist, old)
        /\ \A i \in 1..Len(old) : old[i].notes = {}
    BY <1>1, <2>2, WithoutSystemShape DEF Extends, Begins
  <2>5. /\ done \in Seq(Msg) /\ Begins(old, done)
        /\ \A i \in 1..Len(done) : done[i].notes = {} /\ (i \notin 1..Len(old) => done[i].role = "tool")
    <3>1. /\ done \in Seq(Msg) /\ Begins(old, done)
          /\ \A i \in 1..Len(done) : IF i <= Len(old) THEN done[i] = old[i]
                                      ELSE done[i].notes = {} /\ done[i].role = "tool"
      BY <2>3, <2>4, FinalizeKeeps
    <3>2. Len(old) \in Nat
      BY <2>4
    <3> QED
      BY <2>4, <3>1, <3>2
  <2>6. Begins(s.hist, done)
    BY <1>1, <2>4, <2>5 DEF Begins
  <2>7. \/ w = [memo |-> {}, hist |-> done, tail |-> new.notes]
        \/ w = [memo |-> {}, hist |-> Append(done, new), tail |-> {}]
    BY <1>3, <2>1, <2>2, <2>3 DEF AssembleResume
  <2>8. CASE w = [memo |-> {}, hist |-> done, tail |-> new.notes]
    <3>1. w.hist = done /\ w.tail = N /\ w \in Wire
      BY <2>1, <2>5, <2>8 DEF Wire, Msg
    <3>2. \A n : n \in SentNotes(w) <=> n \in N
      BY <2>5, <3>1, NotesAt
    <3>3. \A i \in 1..Len(done) : i \notin 1..Len(s.hist) => done[i].role # "user"
      BY <2>4, <2>5
    <3> QED
      BY <2>5, <2>6, <3>1, <3>2, <3>3
  <2>9. CASE w = [memo |-> {}, hist |-> Append(done, new), tail |-> {}]
    <3>1. PICK g : g = Append(done, new)
      OBVIOUS
    <3>2. /\ g \in Seq(Msg) /\ Len(g) = Len(done) + 1 /\ Len(done) \in Nat
          /\ g[Len(done) + 1] = new
          /\ \A i \in 1..Len(done) : g[i] = done[i]
      BY <2>1, <2>5, <3>1, AppendProperties
    <3>3. w.hist = g /\ w.tail = {} /\ w \in Wire
      BY <2>9, <3>1, <3>2 DEF Wire
    <3>4. Begins(s.hist, g)
      <4>1. Begins(done, g)
        BY <3>2 DEF Begins
      <4> QED
        BY <1>1, <2>5, <2>6, <3>2, <4>1, BeginsTransitive
    <3>5. \A n : n \in SentNotes(w) <=> n \in N
      <4>1. \A i \in 1..Len(g) : IF i = Len(done) + 1 THEN g[i].notes = N ELSE g[i].notes = {}
        BY <2>1, <2>5, <3>2
      <4>2. Len(done) + 1 \in 1..Len(g)
        BY <3>2
      <4> QED
        BY <3>3, <4>1, <4>2, NotesAt
    <3>6. \A i \in 1..Len(g) : i \notin 1..Len(s.hist) /\ g[i].role = "user" => g[i] = new
      BY <2>4, <2>5, <3>2
    <3> QED
      BY <2>1, <3>2, <3>3, <3>4, <3>5, <3>6
  <2> QED
    BY <2>7, <2>8, <2>9
<1> QED
  BY <1>2, <1>3

(* A summary keeps notes or absorbs them, and makes none. *)
LEMMA SummarizeNotes ==
  ASSUME NEW w \in Wire
  PROVE  SentNotes(Summarize(w)) \subseteq SentNotes(w)
<1>1. PICK h \in Seq(Msg) : h = w.hist
  BY DEF Wire
<1>2. PICK cut : cut = SplitPoint(w)
  OBVIOUS
<1>3. CASE cut = 0
  BY <1>2, <1>3 DEF Summarize
<1>4. CASE cut \in 1..Len(h)
  <2> DEFINE n == Len(h)
             notes == w.hist[1].notes \cup
               (IF Weight(w.hist, cut, w.tail) = KeepRecent THEN w.hist[cut].notes ELSE {})
  <2>1. /\ n \in Nat /\ n >= 1 /\ cut \in 1..n /\ cut # 0
        /\ \A i \in 1..n : h[i] \in Msg
    BY <1>4, ElementOfSeq
  <2>2. PICK m : m = [h[cut] EXCEPT !.notes = notes]
    OBVIOUS
  <2>3. PICK rest : rest = SubSeq(h, cut + 1, n)
    OBVIOUS
  <2>4. PICK memo : memo = w.memo \cup Resolved(SubSeq(h, 1, cut - 1))
    OBVIOUS
  <2>5. Summarize(w) = [w EXCEPT !.memo = memo, !.hist = <<m>> \o rest]
    BY <1>1, <1>2, <2>1, <2>2, <2>3, <2>4 DEF Summarize
  <2>6. m \in Msg /\ m.notes \subseteq h[1].notes \cup h[cut].notes
    <3>1. h[cut] \in Msg /\ h[1] \in Msg
      BY <2>1
    <3>2. notes \subseteq h[1].notes \cup h[cut].notes
      BY <1>1
    <3>3. notes \subseteq Notes
      BY <3>1, <3>2 DEF Msg
    <3> HIDE DEF notes
    <3> QED
      BY <2>2, <3>1, <3>2, <3>3 DEF Msg
  <2>7. /\ rest \in Seq(Msg) /\ Len(rest) = n - cut
        /\ \A i \in 1..(n - cut) : rest[i] = h[cut + i]
    BY <2>1, <2>3, SubSeqProperties
  <2>8. PICK t \in Seq(Msg) : t = <<m>> /\ Len(t) = 1 /\ t[1] = m
    <3>1. <<m>> \in Seq(Msg) /\ Len(<<m>>) = 1 /\ <<m>>[1] = m
      BY <2>6
    <3> QED
      BY <3>1
  <2>9. PICK g : g = t \o rest
    OBVIOUS
  <2>10. /\ Len(g) = n - cut + 1
         /\ \A i \in 1..Len(g) : g[i] = IF i = 1 THEN m ELSE rest[i - 1]
    <3>1. /\ Len(t \o rest) = Len(t) + Len(rest)
          /\ \A i \in 1..(Len(t) + Len(rest)) :
               (t \o rest)[i] = IF i <= Len(t) THEN t[i] ELSE rest[i - Len(t)]
      BY <2>7, <2>8, ConcatProperties
    <3> QED
      BY <2>1, <2>7, <2>8, <2>9, <3>1
  <2>11. Summarize(w) \in Wire /\ Summarize(w).hist = g /\ Summarize(w).tail = w.tail
    BY <2>5, <2>8, <2>9, SummarizeProperties DEF Wire
  <2>12. \A i \in 1..Len(g) : \E k \in 1..n, l \in 1..n : g[i].notes \subseteq h[k].notes \cup h[l].notes
    <3> SUFFICES ASSUME NEW i \in 1..Len(g)
                 PROVE  \E k \in 1..n, l \in 1..n : g[i].notes \subseteq h[k].notes \cup h[l].notes
      OBVIOUS
    <3>1. CASE i = 1
      BY <2>1, <2>6, <2>10, <3>1
    <3>2. CASE i # 1
      <4>1. i - 1 \in 1..(n - cut) /\ cut + (i - 1) \in 1..n
        BY <2>1, <2>10, <3>2
      <4>2. g[i] = h[cut + (i - 1)]
        BY <2>7, <2>10, <3>2, <4>1
      <4> QED
        BY <4>1, <4>2
    <3> QED
      BY <3>1, <3>2
  <2>13. ASSUME NEW x \in SentNotes(Summarize(w)) PROVE x \in SentNotes(w)
    <3>1. x \in w.tail \/ \E i \in 1..Len(g) : x \in g[i].notes
      BY <2>11, <2>13, NotesAt
    <3>2. x \in w.tail \/ \E k \in 1..n : x \in h[k].notes
      BY <2>12, <3>1
    <3> QED
      BY <1>1, <3>2, NotesAt
  <2> QED
    BY <2>13
<1> QED
  BY <1>1, <1>2, <1>3, <1>4, SplitPointProperties

(* A result that is cut away is in the summary, and the cut falls before no *)
(* result: none is between what is summarized and what is kept.             *)
LEMMA SummarizeResults ==
  ASSUME NEW w \in Wire
  PROVE  Resolved(w.hist) \cup w.memo \subseteq Resolved(Summarize(w).hist) \cup Summarize(w).memo
<1>1. PICK h \in Seq(Msg) : h = w.hist
  BY DEF Wire
<1>2. PICK cut : cut = SplitPoint(w)
  OBVIOUS
<1>3. CASE cut = 0
  BY <1>2, <1>3 DEF Summarize
<1>4. CASE cut \in 1..Len(h) /\ h[cut].role # "tool"
  <2> DEFINE n == Len(h)
             notes == w.hist[1].notes \cup
               (IF Weight(w.hist, cut, w.tail) = KeepRecent THEN w.hist[cut].notes ELSE {})
  <2>1. n \in Nat /\ n >= 1 /\ cut \in 1..n /\ cut # 0 /\ \A i \in 1..n : h[i] \in Msg
    BY <1>4, ElementOfSeq
  <2>2. PICK m : m = [h[cut] EXCEPT !.notes = notes]
    OBVIOUS
  <2>3. PICK rest : rest = SubSeq(h, cut + 1, n)
    OBVIOUS
  <2>4. PICK old : old = SubSeq(h, 1, cut - 1)
    OBVIOUS
  <2>5. Summarize(w) = [w EXCEPT !.memo = w.memo \cup Resolved(old), !.hist = <<m>> \o rest]
    BY <1>1, <1>2, <2>1, <2>2, <2>3, <2>4 DEF Summarize
  <2>6. PICK g : g = <<m>> \o rest
    OBVIOUS
  <2>7. Summarize(w).hist = g /\ Summarize(w).memo = w.memo \cup Resolved(old)
    <3>1. w = [memo |-> w.memo, hist |-> w.hist, tail |-> w.tail]
      BY DEF Wire
    <3> QED
      BY <2>5, <2>6, <3>1
  <2>8. g \in Seq(Msg)
    BY <2>7, SummarizeProperties DEF Wire
  <2>9. /\ rest \in Seq(Msg) /\ Len(rest) = n - cut
        /\ \A i \in 1..(n - cut) : rest[i] = h[cut + i]
    BY <2>1, <2>3, SubSeqProperties
  <2>10. /\ old \in Seq(Msg) /\ Len(old) = cut - 1
         /\ \A i \in 1..(cut - 1) : old[i] = h[i]
    BY <2>1, <2>4, SubSeqProperties
  <2>11. \A i \in (cut + 1)..n : i - cut + 1 \in 1..Len(g) /\ g[i - cut + 1] = h[i]
    <3>1. m \in Msg
      <4>1. h[cut] \in Msg /\ h[1] \in Msg
        BY <2>1
      <4>2. notes \subseteq Notes
        BY <1>1, <4>1 DEF Msg
      <4> HIDE DEF notes
      <4> QED
        BY <2>2, <4>1, <4>2 DEF Msg
    <3>2. PICK t \in Seq(Msg) : t = <<m>> /\ Len(t) = 1 /\ t[1] = m
      <4>1. <<m>> \in Seq(Msg) /\ Len(<<m>>) = 1 /\ <<m>>[1] = m
        BY <3>1
      <4> QED
        BY <4>1
    <3>3. /\ Len(t \o rest) = Len(t) + Len(rest)
          /\ \A i \in 1..(Len(t) + Len(rest)) :
               (t \o rest)[i] = IF i <= Len(t) THEN t[i] ELSE rest[i - Len(t)]
      BY <2>9, <3>2, ConcatProperties
    <3>4. /\ Len(g) = n - cut + 1
          /\ \A j \in 1..(n - cut + 1) : j # 1 => g[j] = rest[j - 1]
      BY <2>1, <2>6, <2>9, <3>2, <3>3
    <3> SUFFICES ASSUME NEW i \in (cut + 1)..n
                 PROVE  i - cut + 1 \in 1..Len(g) /\ g[i - cut + 1] = h[i]
      OBVIOUS
    <3>5. /\ i - cut + 1 \in 1..(n - cut + 1) /\ i - cut + 1 # 1
          /\ i - cut \in 1..(n - cut) /\ (i - cut + 1) - 1 = i - cut /\ cut + (i - cut) = i
      BY <2>1
    <3> QED
      BY <2>9, <3>4, <3>5
  <2>12. ASSUME NEW c \in Resolved(h) PROVE c \in Resolved(g) \cup Resolved(old)
    <3>1. PICK i \in 1..n : IsTool(h, i) /\ h[i].body = "result" /\ c \in h[i].ids
      BY <2>12, ResolvedAt
    <3>2. i # cut
      BY <1>4, <3>1 DEF IsTool
    <3>3. CASE i < cut
      <4>1. i \in 1..Len(old) /\ old[i] = h[i]
        BY <2>1, <2>10, <3>3
      <4> QED
        BY <2>10, <3>1, <4>1, ResolvedAt DEF IsTool
    <3>4. CASE i > cut
      <4>1. PICK j \in 1..Len(g) : g[j] = h[i]
        BY <2>1, <2>11, <3>4
      <4> QED
        BY <2>8, <3>1, <4>1, ResolvedAt DEF IsTool
    <3> QED
      BY <2>1, <3>2, <3>3, <3>4
  <2> QED
    BY <1>1, <2>7, <2>12
<1> QED
  BY <1>1, <1>2, <1>3, <1>4, SplitPointProperties

-----------------------------------------------------------------------------
(* Answers, each once, and the placeholders of finalize_wire. *)

(* No two results are of the same call. *)
Once(h) ==
  \A i, j \in 1..Len(h) : IsTool(h, i) /\ IsTool(h, j) /\ h[i].ids = h[j].ids => i = j

(* Call c is answered by b; it is reported as interrupted. *)
Says(h, c, b)     == \E i \in 1..Len(h) : h[i] = ToolMsg(c, b)
Interrupted(h, c) == Says(h, c, "interrupted")

(* The results of g after those of h are each of another call, which had none. *)
NewAnswers(h, g) ==
  /\ \A j \in 1..Len(g) : j > Len(h) /\ IsTool(g, j) =>
       \E c : g[j].ids = {c} /\ c \notin Answered(h)
  /\ \A i, j \in 1..Len(g) :
       i > Len(h) /\ j > Len(h) /\ IsTool(g, i) /\ IsTool(g, j) /\ g[i].ids = g[j].ids => i = j

LEMMA OnceGrows ==
  ASSUME NEW h \in Seq(Msg), NEW g \in Seq(Msg), Extends(h, g), Once(h), NewAnswers(h, g)
  PROVE  Once(g)
<1> Len(h) \in Nat /\ Len(g) \in Nat
  OBVIOUS
<1> USE DEF NewAnswers
<1>1. ASSUME NEW i \in 1..Len(g), NEW j \in 1..Len(g), i <= Len(h), j > Len(h),
             IsTool(g, i), IsTool(g, j), g[i].ids = g[j].ids
      PROVE  FALSE
  <2>1. PICK c : g[j].ids = {c} /\ c \notin Answered(h)
    BY <1>1
  <2>2. i \in 1..Len(h) /\ IsTool(h, i) /\ c \in h[i].ids
    BY <1>1, <2>1 DEF Extends, IsTool
  <2> QED
    BY <2>1, <2>2, DeclaredAt
<1> SUFFICES ASSUME NEW i \in 1..Len(g), NEW j \in 1..Len(g),
                    IsTool(g, i), IsTool(g, j), g[i].ids = g[j].ids
             PROVE  i = j
  BY DEF Once
<1>2. CASE i <= Len(h) /\ j <= Len(h)
  BY <1>2 DEF Once, Extends, IsTool
<1>3. CASE i > Len(h) /\ j > Len(h)
  BY <1>3
<1> QED
  BY <1>1, <1>2, <1>3

(* g has the messages of h first, unchanged. *)
Keeps(h, g) == \A i \in 1..Len(h) : i \in 1..Len(g) /\ g[i] = h[i]

(* New answers to open calls: no call is answered twice, none is forgotten. *)
LEMMA KeptAnswers ==
  ASSUME NEW h \in Seq(Msg), NEW g \in Seq(Msg), Keeps(h, g), NewAnswers(h, g)
  PROVE  /\ Once(h) => Once(g)
         /\ \A c : Interrupted(h, c) => Interrupted(g, c)
<1>1. Extends(h, g)
  <2>1. Len(h) \in Nat /\ Len(g) \in Nat
    OBVIOUS
  <2>2. Len(h) <= Len(g)
    <3>1. CASE Len(h) = 0
      BY <2>1, <3>1
    <3>2. CASE Len(h) # 0
      <4>1. Len(h) \in 1..Len(h)
        BY <2>1, <3>2
      <4> QED
        BY <4>1 DEF Keeps
    <3> QED
      BY <3>1, <3>2
  <2> QED
    BY <2>2 DEF Keeps, Extends
<1>2. Once(h) => Once(g)
  BY <1>1, OnceGrows
<1> QED
  BY <1>2 DEF Keeps, Interrupted, Says

(* One answer each for calls that have none. *)
LEMMA AddAnswers ==
  ASSUME NEW h \in Seq(Msg), NEW S \in SUBSET CallIds, NEW b \in Bodies,
         \A c \in S : c \notin Answered(h),
         NEW g, g = h \o ToolMsgs(S, b)
  PROVE  /\ g \in Seq(Msg) /\ Keeps(h, g) /\ NewAnswers(h, g)
         /\ \A c \in S : Says(g, c, b)
<1>1. PICK t : t = ToolMsgs(S, b)
  OBVIOUS
<1>2. /\ t \in Seq(Msg) /\ Len(t) \in Nat
      /\ \A i \in 1..Len(t) : \E c \in S : t[i] = ToolMsg(c, b)
      /\ \A c \in S : \E i \in 1..Len(t) : t[i] = ToolMsg(c, b)
  <2>1. /\ ToolMsgs(S, b) \in Seq(Msg)
        /\ Len(ToolMsgs(S, b)) \in Nat
        /\ \A i \in 1..Len(ToolMsgs(S, b)) : \E c \in S : ToolMsgs(S, b)[i] = ToolMsg(c, b)
        /\ \A c \in S : \E i \in 1..Len(ToolMsgs(S, b)) : ToolMsgs(S, b)[i] = ToolMsg(c, b)
    BY ToolMsgsProperties
  <2> QED
    BY <1>1, <2>1, Zenon
<1>3. \A i, j \in 1..Len(t) : t[i].ids = t[j].ids => i = j
  <2>1. \A i, j \in 1..Len(ToolMsgs(S, b)) :
          ToolMsgs(S, b)[i].ids = ToolMsgs(S, b)[j].ids => i = j
    BY ToolMsgsOnce
  <2> QED
    BY <1>1, <2>1, Zenon
<1>4. g = h \o t
  BY <1>1
<1>5. /\ g \in Seq(Msg) /\ Len(g) = Len(h) + Len(t) /\ Len(h) \in Nat
      /\ \A i \in 1..Len(g) : g[i] = IF i <= Len(h) THEN h[i] ELSE t[i - Len(h)]
  BY <1>2, <1>4, ConcatProperties
<1>6. Keeps(h, g)
  BY <1>2, <1>5 DEF Keeps
<1>7. \A j \in 1..Len(g) : j > Len(h) => j - Len(h) \in 1..Len(t) /\ g[j] = t[j - Len(h)]
  BY <1>2, <1>5
<1>8. \A j \in 1..Len(g) : j > Len(h) => \E c : g[j].ids = {c} /\ c \notin Answered(h)
  <2>1. \A c \in S : ToolMsg(c, b).ids = {c} /\ c \notin Answered(h)
    BY DEF ToolMsg
  <2> SUFFICES ASSUME NEW j \in 1..Len(g), j > Len(h)
               PROVE  \E c : g[j].ids = {c} /\ c \notin Answered(h)
    OBVIOUS
  <2>2. PICK c \in S : g[j] = ToolMsg(c, b)
    BY <1>2, <1>7
  <2> QED
    BY <2>1, <2>2
<1>9. \A i, j \in 1..Len(g) : i > Len(h) /\ j > Len(h) /\ g[i].ids = g[j].ids => i = j
  <2> SUFFICES ASSUME NEW i \in 1..Len(g), NEW j \in 1..Len(g), i > Len(h), j > Len(h),
                      g[i].ids = g[j].ids
               PROVE  i = j
    OBVIOUS
  <2>1. /\ i - Len(h) \in 1..Len(t) /\ j - Len(h) \in 1..Len(t)
        /\ t[i - Len(h)].ids = t[j - Len(h)].ids
    BY <1>7
  <2>2. i - Len(h) = j - Len(h)
    BY <1>3, <2>1
  <2> QED
    BY <1>5, <2>2
<1>10. NewAnswers(h, g)
  BY <1>8, <1>9 DEF NewAnswers
<1>11. ASSUME NEW c \in S PROVE Says(g, c, b)
  <2>1. PICK i \in 1..Len(t) : t[i] = ToolMsg(c, b)
    BY <1>2
  <2>2. Len(h) + i \in 1..Len(g) /\ g[Len(h) + i] = t[i]
    BY <1>2, <1>4, ConcatExtends
  <2> QED
    BY <2>1, <2>2 DEF Says
<1> QED
  BY <1>5, <1>6, <1>10, <1>11

(* finalize_wire answers no call twice, and every open call as interrupted. *)
LEMMA FinalizeAnswers ==
  ASSUME NEW h \in Seq(Msg), NEW g, g = FinalizeWire(h)
  PROVE  /\ g \in Seq(Msg)
         /\ Once(h) => Once(g)
         /\ \A c : Interrupted(h, c) \/ c \in Orphans(h) => Interrupted(g, c)
<1>1. PICK S \in SUBSET CallIds, b \in Bodies : S = Orphans(h) /\ b = "interrupted"
  BY DeclaredType DEF Bodies, OwnBodies
<1>2. PICK k : k = h \o ToolMsgs(S, b)
  OBVIOUS
<1>3. \A c \in S : c \notin Answered(h)
  BY <1>1 DEF Orphans
<1>4. /\ k \in Seq(Msg) /\ Keeps(h, k) /\ NewAnswers(h, k)
      /\ \A c \in S : Says(k, c, b)
  BY <1>2, <1>3, AddAnswers
<1>5. g = k
  BY <1>1, <1>2 DEF FinalizeWire
<1>6. \A c \in Orphans(h) : Interrupted(k, c)
  BY <1>1, <1>4 DEF Interrupted
<1> QED
  BY <1>4, <1>5, <1>6, KeptAnswers

(* The same roles, calls and texts: notes aside, the same answers. *)
LEMMA SameAnswers ==
  ASSUME NEW h \in Seq(Msg), NEW g, g = WithoutSystem(h)
  PROVE  /\ g \in Seq(Msg)
         /\ Once(h) => Once(g)
         /\ Orphans(g) = Orphans(h)
         /\ \A c : Interrupted(h, c) => Interrupted(g, c)
<1>1. /\ g \in Seq(Msg) /\ Len(g) = Len(h) /\ Extends(h, g)
      /\ \A i \in 1..Len(h) : g[i].body = h[i].body /\ g[i].notes = {}
  BY WithoutSystemShape
<1>2. \A i \in 1..Len(h) : g[i].role = h[i].role /\ g[i].ids = h[i].ids
  BY <1>1 DEF Extends
<1>3. Once(h) => Once(g)
  BY <1>1, <1>2 DEF Once, IsTool
<1>4. \A c : c \in Orphans(g) <=> c \in Orphans(h)
  BY <1>1, <1>2, DeclaredAt DEF Orphans, IsCall, IsTool
<1>5. ASSUME NEW c, Interrupted(h, c) PROVE Interrupted(g, c)
  <2>1. PICK i \in 1..Len(h) : h[i] = ToolMsg(c, "interrupted")
    BY <1>5 DEF Interrupted, Says
  <2>2. i \in 1..Len(g) /\ g[i] = [h[i] EXCEPT !.notes = {}]
    <3>1. DOMAIN h = 1..Len(h)
      OBVIOUS
    <3> QED
      BY <1>1, <3>1 DEF WithoutSystem
  <2>3. /\ g[i] \in Msg /\ g[i].role = "tool" /\ g[i].body = "interrupted"
        /\ g[i].ids = {c} /\ g[i].notes = {}
    BY <1>1, <1>2, <2>1, <2>2 DEF ToolMsg
  <2>4. g[i] = ToolMsg(c, "interrupted")
    BY <2>3 DEF ToolMsg, Msg
  <2> QED
    BY <2>2, <2>4 DEF Interrupted, Says
<1> QED
  BY <1>1, <1>3, <1>4, <1>5

(* A resume answers no call twice, and reports as interrupted every call the *)
(* snapshot left open or reported so.                                        *)
LEMMA AssembleAnswers ==
  ASSUME NEW s \in Wire, NEW f \in Wire, NEW w, w = AssembleResume(s, f),
         f.hist # <<>>, f.hist[Len(f.hist)].role = "user", Plain(f.hist)
  PROVE  /\ Once(s.hist) => Once(w.hist)
         /\ \A c : Interrupted(s.hist, c) \/ c \in Orphans(s.hist) => Interrupted(w.hist, c)
<1>1. s.hist \in Seq(Msg) /\ f.hist \in Seq(Msg)
  BY DEF Wire
<1>2. CASE s.hist = <<>>
  <2>1. w = f
    BY <1>2 DEF AssembleResume
  <2>2. Orphans(s.hist) = {} /\ \A c : ~Interrupted(s.hist, c)
    <3>1. Orphans(s.hist) = {}
      BY <1>2 DEF Orphans, Declared, OfRole
    <3>2. Len(s.hist) = 0
      BY <1>2
    <3> QED
      BY <3>1, <3>2 DEF Interrupted, Says
  <2>3. Once(f.hist)
    BY DEF Once, Plain, IsTool
  <2> QED
    BY <2>1, <2>2, <2>3
<1>3. CASE s.hist # <<>>
  <2>1. PICK new \in Msg : new = f.hist[Len(f.hist)] /\ new.role = "user"
    BY <1>1, EmptySeq, ElementOfSeq
  <2>2. PICK old : old = WithoutSystem(s.hist)
    OBVIOUS
  <2>3. PICK done : done = FinalizeWire(old)
    OBVIOUS
  <2>4. /\ old \in Seq(Msg)
        /\ Once(s.hist) => Once(old)
        /\ Orphans(old) = Orphans(s.hist)
        /\ \A c : Interrupted(s.hist, c) => Interrupted(old, c)
    BY <1>1, <2>2, SameAnswers
  <2>5. /\ done \in Seq(Msg)
        /\ Once(old) => Once(done)
        /\ \A c : Interrupted(old, c) \/ c \in Orphans(old) => Interrupted(done, c)
    BY <2>3, <2>4, FinalizeAnswers
  <2>6. w.hist = done \/ w.hist = Append(done, new)
    <3>1. \/ w = [memo |-> {}, hist |-> done, tail |-> new.notes]
          \/ w = [memo |-> {}, hist |-> Append(done, new), tail |-> {}]
      BY <1>3, <2>1, <2>2, <2>3 DEF AssembleResume
    <3> QED
      BY <3>1
  <2>7. CASE w.hist = done
    BY <2>4, <2>5, <2>7
  <2>8. CASE w.hist = Append(done, new)
    <3>1. PICK g : g = Append(done, new)
      OBVIOUS
    <3>2. /\ g \in Seq(Msg) /\ Len(g) = Len(done) + 1 /\ Len(done) \in Nat
          /\ g[Len(done) + 1] = new
          /\ \A i \in 1..Len(done) : i \in 1..Len(g) /\ g[i] = done[i]
      BY <2>1, <2>5, <3>1, AppendProperties
    <3>3. \A c : Interrupted(done, c) => Interrupted(g, c)
      BY <3>2 DEF Interrupted, Says
    <3>4. \A i \in 1..Len(g) : IsTool(g, i) => i \in 1..Len(done) /\ IsTool(done, i) /\ g[i] = done[i]
      BY <2>1, <3>2 DEF IsTool
    <3>5. Once(done) => Once(g)
      BY <3>4 DEF Once
    <3> QED
      BY <2>4, <2>5, <2>8, <3>1, <3>3, <3>5
  <2> QED
    BY <2>6, <2>7, <2>8
<1> QED
  BY <1>2, <1>3
=============================================================================
