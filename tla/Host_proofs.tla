---------------------------- MODULE Host_proofs -----------------------------
(***************************************************************************)
(* Theorems about GitTools and ParallelSubtasks, the two that work on the  *)
(* user's repository, and about MCHost, which puts all parts that talk to  *)
(* the outside into one system.                                            *)
(***************************************************************************)
EXTENDS MCHost, Interaction_proofs, Processes_proofs, SequenceTheorems, TLAPS

-----------------------------------------------------------------------------
(***************************************************************************)
(* Theorems about GitTools, for any number of branches and changes: no step*)
(* of anyone loses a change that was kept somewhere, and what a push or a  *)
(* pull request reports is so.                                             *)
(*                                                                         *)
(* Both rest on Forward, which every step is, the user's and the           *)
(* colleagues' included: branches only grow, on the remote as well, pull   *)
(* requests stay, and every change stays in the working tree, the index or *)
(* a branch, but for a detached HEAD left behind. PushesReported speaks of *)
(* the last run of a call; RunOK adds what the run before it found.        *)
(***************************************************************************)
Histories == UNION {[D -> SUBSET Nat] : D \in SUBSET Refs}
World ==
  [head : Refs \cup {NoBranch}, at : SUBSET Nat, heads : Histories, index : SUBSET Nat, work : SUBSET Nat,
   fresh : SUBSET Nat, lock : BOOLEAN, remote : Histories, tracking : Histories, prs : SUBSET Refs, made : Nat]

(* The repository is in order: what GitTypeOK says of it. *)
WorldOK(w) ==
  /\ w.head \in DOMAIN w.heads \cup {NoBranch} /\ w.prs \subseteq DOMAIN w.remote
  /\ w.work \cap w.fresh = {} /\ w.index \cap (w.work \cup w.fresh) = {}
  /\ Kept(w) \subseteq 1..w.made
  /\ \A b \in DOMAIN w.tracking : b \in DOMAIN w.remote /\ w.tracking[b] \subseteq w.remote[b]

(* Every branch goes forward. *)
Grows(f, g) == DOMAIN f \subseteq DOMAIN g /\ \A b \in DOMAIN f : f[b] \subseteq g[b]

(* What any step may do to the repository, the remote included. *)
Forward(w, v) ==
  /\ v \in World /\ WorldOK(v)
  /\ Grows(w.heads, v.heads) /\ Grows(w.remote, v.remote) /\ w.prs \subseteq v.prs
  /\ \A u \in Kept(w) : u \in Kept(v) \/ (w.head = NoBranch /\ u \in w.at /\ v.head # NoBranch)

GitCall == [tool : {"status", "diff", "log", "list", "create", "switch", "add", "commit", "push", "pr", "none"},
            name : Refs \cup {"good", "bad"}, all : BOOLEAN]
Run == [pc : {"idle", "first", "second", "third", "exited1", "exited2", "exited3", "killed"}, call : GitCall,
        branch : Refs \cup {NoBranch, "none"}, seen : SUBSET (Nat \cup Refs)]

(* The branch a push was called for is there, when its second run begins;   *)
(* what that run found done is so.                                         *)
RunOK ==
  /\ run.call.tool = "push" /\ run.pc \in {"exited1", "second", "exited2"} =>
       run.branch \in DOMAIN world.heads \cup {NoBranch}
  /\ run.call.tool = "push" /\ run.pc = "second" => run.branch # NoBranch
  /\ run.call.tool = "push" /\ run.pc = "exited2" =>
       run.branch \in DOMAIN world.remote /\ run.seen \subseteq world.remote[run.branch]
  /\ run.call.tool = "pr" /\ run.pc = "exited2" => world.prs # {}
  /\ run.call.tool \in {"create", "switch"} => run.call.name \in Refs

GitInv == world \in World /\ run \in Run /\ WorldOK(world) /\ RunOK /\ PushesReported

-----------------------------------------------------------------------------
LEMMA History ==
  /\ \A f \in Histories : f \in [DOMAIN f -> SUBSET Nat] /\ DOMAIN f \subseteq Refs
  /\ \A D \in SUBSET Refs : \A f \in [D -> SUBSET Nat] : f \in Histories
BY DEF Histories

(* A branch added or moved. *)
Placed(f, b, units, g) ==
  /\ g \in Histories /\ DOMAIN g = DOMAIN f \cup {b} /\ g[b] = units
  /\ \A c \in DOMAIN f : c # b => g[c] = f[c]
  /\ b \notin DOMAIN f \/ f[b] \subseteq units => Grows(f, g)

LEMMA WithBranch ==
  ASSUME NEW f \in Histories, NEW b \in Refs, NEW units \in SUBSET Nat
  PROVE  Placed(f, b, units, With(f, b, units))
<1>1. f \in [DOMAIN f -> SUBSET Nat] /\ DOMAIN f \subseteq Refs
  BY History
<1>2. /\ DOMAIN With(f, b, units) = DOMAIN f \cup {b} /\ With(f, b, units)[b] = units
      /\ \A c \in DOMAIN f : c # b => With(f, b, units)[c] = f[c]
  BY DEF With
<1>3. With(f, b, units) \in [DOMAIN f \cup {b} -> SUBSET Nat]
  BY <1>1 DEF With
<1>4. DOMAIN f \cup {b} \in SUBSET Refs
  BY <1>1
<1>5. With(f, b, units) \in Histories
  BY <1>3, <1>4, History
<1> QED BY <1>2, <1>5 DEF Grows, Placed

LEMMA MovedBranch ==
  ASSUME NEW f \in Histories, NEW b \in DOMAIN f, NEW units \in SUBSET Nat, f[b] \subseteq units
  PROVE  /\ [f EXCEPT ![b] = units] \in Histories
         /\ DOMAIN [f EXCEPT ![b] = units] = DOMAIN f
         /\ \A c \in DOMAIN f : [f EXCEPT ![b] = units][c] = IF c = b THEN units ELSE f[c]
         /\ Grows(f, [f EXCEPT ![b] = units])
<1>1. f \in [DOMAIN f -> SUBSET Nat] /\ DOMAIN f \subseteq Refs
  BY History
<1>2. /\ DOMAIN [f EXCEPT ![b] = units] = DOMAIN f
      /\ \A c \in DOMAIN f : [f EXCEPT ![b] = units][c] = IF c = b THEN units ELSE f[c]
  BY <1>1
<1>3. [f EXCEPT ![b] = units] \in [DOMAIN f -> SUBSET Nat]
  BY <1>1
<1>4. [f EXCEPT ![b] = units] \in Histories
  BY <1>1, <1>3, History
<1>5. Grows(f, [f EXCEPT ![b] = units])
  BY <1>2 DEF Grows
<1> QED BY <1>2, <1>4, <1>5

LEMMA KeptIs ==
  ASSUME NEW w
  PROVE  \A u : u \in Kept(w) <=>
           \/ u \in w.work \/ u \in w.fresh \/ u \in w.index \/ u \in At(w)
           \/ \E b \in DOMAIN w.heads : u \in w.heads[b]
           \/ \E b \in DOMAIN w.remote : u \in w.remote[b]
<1>1. \A u : u \in UNION Range(w.heads) <=> \E b \in DOMAIN w.heads : u \in w.heads[b]
  BY DEF Range
<1>2. \A u : u \in UNION Range(w.remote) <=> \E b \in DOMAIN w.remote : u \in w.remote[b]
  BY DEF Range
<1>3. \A u : u \in Kept(w) <=>
        \/ u \in w.work \/ u \in w.fresh \/ u \in w.index \/ u \in At(w)
        \/ u \in UNION Range(w.heads) \/ u \in UNION Range(w.remote)
  BY DEF Kept
<1> QED BY <1>1, <1>2, <1>3

(* No change is from the future. *)
Parts(w, S) ==
  /\ w.work \subseteq S /\ w.fresh \subseteq S /\ w.index \subseteq S
  /\ w.head = NoBranch => w.at \subseteq S
  /\ \A b \in DOMAIN w.heads : w.heads[b] \subseteq S
  /\ \A b \in DOMAIN w.remote : w.remote[b] \subseteq S

LEMMA KeptParts ==
  ASSUME NEW w, NEW S, w.head \in DOMAIN w.heads \cup {NoBranch}
  PROVE  Kept(w) \subseteq S <=> Parts(w, S)
<1>1. ASSUME Kept(w) \subseteq S PROVE Parts(w, S)
  BY <1>1, KeptIs DEF Parts, At
<1>2. ASSUME Parts(w, S) PROVE Kept(w) \subseteq S
  <2> SUFFICES ASSUME NEW u \in Kept(w) PROVE u \in S
    OBVIOUS
  <2>1. u \in At(w) => u \in S
    BY <1>2 DEF Parts, At
  <2> QED BY <1>2, <2>1, KeptIs DEF Parts
<1> QED BY <1>1, <1>2

(* A step loses nothing if branches go forward and what was changed, or     *)
(* committed on a detached HEAD, is still somewhere.                       *)
LEMMA NothingGone ==
  ASSUME NEW w, NEW v, WorldOK(w), Grows(w.heads, v.heads), Grows(w.remote, v.remote),
         \A u \in w.work \cup w.fresh \cup w.index : u \in Kept(v),
         w.head = NoBranch /\ v.head = NoBranch => \A u \in w.at : u \in Kept(v)
  PROVE  \A u \in Kept(w) : u \in Kept(v) \/ (w.head = NoBranch /\ u \in w.at /\ v.head # NoBranch)
<1> SUFFICES ASSUME NEW u \in Kept(w) PROVE u \in Kept(v) \/ (w.head = NoBranch /\ u \in w.at /\ v.head # NoBranch)
  OBVIOUS
<1>1. ASSUME NEW b \in DOMAIN w.heads, u \in w.heads[b] PROVE u \in Kept(v)
  BY <1>1, KeptIs DEF Grows
<1>2. ASSUME NEW b \in DOMAIN w.remote, u \in w.remote[b] PROVE u \in Kept(v)
  BY <1>2, KeptIs DEF Grows
<1>3. CASE u \in At(w)
  <2>1. CASE w.head = NoBranch
    BY <1>3, <2>1 DEF At
  <2>2. CASE w.head # NoBranch
    BY <1>1, <1>3, <2>2 DEF At, WorldOK
  <2> QED BY <2>1, <2>2
<1> QED BY <1>1, <1>2, <1>3, KeptIs

LEMMA GrowsSame == \A f : Grows(f, f)
BY DEF Grows

LEMMA AtType ==
  ASSUME NEW w \in World, WorldOK(w)
  PROVE  At(w) \in SUBSET Nat /\ At(w) \subseteq 1..w.made /\ Parts(w, 1..w.made)
<1>1. Parts(w, 1..w.made)
  BY KeptParts DEF WorldOK
<1>2. w.made \in Nat
  BY DEF World
<1> QED BY <1>1, <1>2 DEF Parts, At, WorldOK

-----------------------------------------------------------------------------
(* What each command does. *)
LEMMA ReadsForward ==
  ASSUME NEW w \in World, WorldOK(w)
  PROVE  Forward(w, w)
BY GrowsSame DEF Forward

LEMMA LockForward ==
  ASSUME NEW w \in World, WorldOK(w), NEW lock \in BOOLEAN
  PROVE  Forward(w, [w EXCEPT !.lock = lock])
<1> DEFINE v == [w EXCEPT !.lock = lock]
<1>1. v \in World /\ v.head = w.head /\ v.at = w.at /\ v.heads = w.heads /\ v.index = w.index /\ v.work = w.work
       /\ v.fresh = w.fresh /\ v.remote = w.remote /\ v.tracking = w.tracking /\ v.prs = w.prs /\ v.made = w.made
  BY DEF World
<1> HIDE DEF v
<1>2. Kept(v) = Kept(w)
  BY <1>1 DEF Kept, At
<1> QED BY <1>1, <1>2, GrowsSame DEF Forward, WorldOK, v

LEMMA AddsForward ==
  ASSUME NEW w \in World, WorldOK(w), NEW all \in BOOLEAN, NEW v \in Adds(w, all)
  PROVE  Forward(w, v)
<1>1. PICK S \in SUBSET (w.work \cup w.fresh) : v = [w EXCEPT !.index = @ \cup S, !.work = @ \ S, !.fresh = @ \ S]
  BY DEF Adds
<1>2. v \in World /\ v.head = w.head /\ v.at = w.at /\ v.heads = w.heads /\ v.index = w.index \cup S /\ v.work = w.work \ S
       /\ v.fresh = w.fresh \ S /\ v.remote = w.remote /\ v.tracking = w.tracking /\ v.prs = w.prs /\ v.made = w.made
  BY <1>1 DEF World
<1>3. Kept(v) \subseteq 1..v.made
  <2>1. Parts(w, 1..w.made)
    BY AtType
  <2>2. Parts(v, 1..v.made)
    BY <1>2, <2>1 DEF Parts
  <2> QED BY <1>2, <2>2, KeptParts DEF WorldOK
<1>4. WorldOK(v)
  BY <1>2, <1>3 DEF WorldOK
<1>5. \A u \in Kept(w) : u \in Kept(v) \/ (w.head = NoBranch /\ u \in w.at /\ v.head # NoBranch)
  <2>1. \A u \in w.work \cup w.fresh \cup w.index : u \in Kept(v)
    BY <1>2, KeptIs
  <2>2. w.head = NoBranch => \A u \in w.at : u \in Kept(v)
    BY <1>2, KeptIs DEF At
  <2>3. Grows(w.heads, v.heads) /\ Grows(w.remote, v.remote)
    BY <1>2, GrowsSame
  <2> QED BY <2>1, <2>2, <2>3, NothingGone
<1> QED BY <1>2, <1>4, <1>5, GrowsSame DEF Forward

LEMMA CommitsForward ==
  ASSUME NEW w \in World, WorldOK(w), NEW all \in BOOLEAN, NEW v \in Commits(w, all)
  PROVE  Forward(w, v)
<1> DEFINE S == w.index \cup IF all THEN w.work ELSE {}
           moved == [w EXCEPT !.index = {}, !.work = @ \ S]
<1>1. \/ w.head = NoBranch /\ v = [moved EXCEPT !.at = @ \cup S]
      \/ w.head # NoBranch /\ v = [moved EXCEPT !.heads[w.head] = @ \cup S]
  BY DEF Commits
<1>2. S \in SUBSET Nat /\ w.index \subseteq S /\ S \subseteq w.index \cup w.work
  BY DEF World
<1> HIDE DEF S
<1>3. moved \in World /\ moved.head = w.head /\ moved.at = w.at /\ moved.heads = w.heads /\ moved.index = {}
       /\ moved.work = w.work \ S /\ moved.fresh = w.fresh /\ moved.remote = w.remote /\ moved.tracking = w.tracking
       /\ moved.prs = w.prs /\ moved.made = w.made
  BY <1>2 DEF World
<1> HIDE DEF moved
<1>4. w.at \in SUBSET Nat /\ w.heads \in Histories
  BY DEF World
<1>5. /\ v \in World /\ v.head = w.head /\ v.index = {} /\ v.work = w.work \ S
      /\ v.fresh = w.fresh /\ v.remote = w.remote /\ v.tracking = w.tracking /\ v.prs = w.prs /\ v.made = w.made
      /\ Grows(w.heads, v.heads) /\ DOMAIN v.heads = DOMAIN w.heads
      /\ \A b \in DOMAIN w.heads : v.heads[b] \subseteq w.heads[b] \cup S
      /\ v.at = w.at \/ v.at = w.at \cup S
      /\ At(v) = At(w) \cup S
  <2>1. CASE w.head = NoBranch /\ v = [moved EXCEPT !.at = @ \cup S]
    <3>1. w.at \cup S \in SUBSET Nat
      BY <1>2, <1>4
    <3>2. /\ v \in World /\ v.head = w.head /\ v.index = {} /\ v.work = w.work \ S
          /\ v.fresh = w.fresh /\ v.remote = w.remote /\ v.tracking = w.tracking /\ v.prs = w.prs /\ v.made = w.made
          /\ v.heads = w.heads /\ v.at = w.at \cup S
      BY <1>3, <2>1, <3>1 DEF World
    <3> QED BY <2>1, <3>2, GrowsSame DEF At
  <2>2. CASE w.head # NoBranch /\ v = [moved EXCEPT !.heads[w.head] = @ \cup S]
    <3>1. w.head \in DOMAIN w.heads
      BY <2>2 DEF WorldOK
    <3>2. w.heads[w.head] \cup S \in SUBSET Nat
      BY <1>2, <1>4, <3>1, History
    <3> DEFINE to == [w.heads EXCEPT ![w.head] = w.heads[w.head] \cup S]
    <3>3. /\ to \in Histories /\ DOMAIN to = DOMAIN w.heads /\ Grows(w.heads, to)
          /\ \A c \in DOMAIN w.heads : to[c] = IF c = w.head THEN w.heads[w.head] \cup S ELSE w.heads[c]
      BY <1>4, <3>1, <3>2, MovedBranch
    <3>4. v = [moved EXCEPT !.heads = to]
      BY <1>3, <2>2
    <3> HIDE DEF to
    <3>5. /\ v \in World /\ v.head = w.head /\ v.index = {} /\ v.work = w.work \ S
          /\ v.fresh = w.fresh /\ v.remote = w.remote /\ v.tracking = w.tracking /\ v.prs = w.prs /\ v.made = w.made
          /\ v.heads = to /\ v.at = w.at
      BY <1>3, <3>3, <3>4 DEF World
    <3>6. At(v) = At(w) \cup S
      BY <2>2, <3>1, <3>3, <3>5 DEF At
    <3>7. \A b \in DOMAIN w.heads : v.heads[b] \subseteq w.heads[b] \cup S
      BY <3>3, <3>5
    <3> QED BY <3>3, <3>5, <3>6, <3>7
  <2> QED BY <1>1, <2>1, <2>2
<1>6. Kept(v) \subseteq 1..v.made
  <2>1. Parts(w, 1..w.made)
    BY AtType
  <2>2. S \subseteq 1..w.made
    BY <1>2, <2>1 DEF Parts
  <2>3. Parts(v, 1..v.made)
    BY <1>5, <2>1, <2>2 DEF Parts
  <2> QED BY <1>5, <2>3, KeptParts DEF WorldOK
<1>7. WorldOK(v)
  BY <1>5, <1>6 DEF WorldOK
<1>8. \A u \in Kept(w) : u \in Kept(v) \/ (w.head = NoBranch /\ u \in w.at /\ v.head # NoBranch)
  <2>1. \A u \in w.work \cup w.fresh \cup w.index : u \in Kept(v)
    BY <1>2, <1>5, KeptIs
  <2>2. w.head = NoBranch => \A u \in w.at : u \in Kept(v)
    BY <1>5, KeptIs DEF At
  <2>3. Grows(w.heads, v.heads) /\ Grows(w.remote, v.remote)
    BY <1>5, GrowsSame
  <2> QED BY <2>1, <2>2, <2>3, NothingGone
<1> QED BY <1>5, <1>7, <1>8, GrowsSame DEF Forward

(* HEAD goes to a branch: one that is there, or a new one. *)
LEMMA HeadMoves ==
  ASSUME NEW w \in World, WorldOK(w), NEW b \in Refs, NEW to \in Histories,
         b \in DOMAIN to, DOMAIN to \subseteq DOMAIN w.heads \cup {b}, Grows(w.heads, to),
         \A c \in DOMAIN to : to[c] \subseteq 1..w.made
  PROVE  Forward(w, [w EXCEPT !.head = b, !.at = {}, !.heads = to])
<1> DEFINE v == [w EXCEPT !.head = b, !.at = {}, !.heads = to]
<1>1. v \in World /\ v.head = b /\ v.at = {} /\ v.heads = to /\ v.index = w.index /\ v.work = w.work
       /\ v.fresh = w.fresh /\ v.remote = w.remote /\ v.tracking = w.tracking /\ v.prs = w.prs /\ v.made = w.made
  BY DEF World
<1> HIDE DEF v
<1>2. b # NoBranch
  BY GitAssumption
<1>3. Kept(v) \subseteq 1..v.made
  <2>1. Parts(w, 1..w.made)
    BY AtType
  <2>2. Parts(v, 1..v.made)
    BY <1>1, <1>2, <2>1 DEF Parts
  <2> QED BY <1>1, <2>2, KeptParts
<1>4. WorldOK(v)
  BY <1>1, <1>3 DEF WorldOK
<1>5. \A u \in Kept(w) : u \in Kept(v) \/ (w.head = NoBranch /\ u \in w.at /\ v.head # NoBranch)
  <2>1. \A u \in w.work \cup w.fresh \cup w.index : u \in Kept(v)
    BY <1>1, KeptIs
  <2>2. Grows(w.heads, v.heads) /\ Grows(w.remote, v.remote)
    BY <1>1, GrowsSame
  <2> QED BY <1>1, <1>2, <2>1, <2>2, NothingGone
<1> QED BY <1>1, <1>4, <1>5, GrowsSame DEF Forward, v

LEMMA SwitchesForward ==
  ASSUME NEW w \in World, WorldOK(w), NEW b \in Refs, NEW v \in Switches(w, b)
  PROVE  Forward(w, v)
<1> DEFINE to == IF b \in DOMAIN w.heads THEN w.heads ELSE With(w.heads, b, w.tracking[b])
<1>1. b \in DOMAIN w.heads \cup DOMAIN w.tracking /\ v = [w EXCEPT !.head = b, !.at = {}, !.heads = to]
  BY DEF Switches
<1>2. w.heads \in Histories /\ w.tracking \in Histories /\ Parts(w, 1..w.made)
  BY AtType DEF World
<1>3. /\ to \in Histories /\ b \in DOMAIN to /\ DOMAIN to \subseteq DOMAIN w.heads \cup {b} /\ Grows(w.heads, to)
      /\ \A c \in DOMAIN to : to[c] \subseteq 1..w.made
  <2>1. CASE b \in DOMAIN w.heads
    BY <1>2, <2>1, GrowsSame DEF Parts
  <2>2. CASE b \notin DOMAIN w.heads
    <3>1. w.tracking[b] \in SUBSET Nat /\ w.tracking[b] \subseteq 1..w.made
      BY <1>1, <1>2, <2>2, History DEF WorldOK, Parts
    <3>2. to = With(w.heads, b, w.tracking[b])
      BY <2>2
    <3> HIDE DEF to
    <3>3. Placed(w.heads, b, w.tracking[b], to)
      BY <1>2, <3>1, <3>2, WithBranch
    <3> QED BY <1>2, <2>2, <3>1, <3>3 DEF Parts, Placed
  <2> QED BY <2>1, <2>2
<1> HIDE DEF to
<1> QED BY <1>1, <1>3, HeadMoves

LEMMA CreatesForward ==
  ASSUME NEW w \in World, WorldOK(w), NEW b \in Refs, NEW v \in Creates(w, b)
  PROVE  Forward(w, v)
<1> DEFINE to == With(w.heads, b, At(w))
<1>1. b \notin DOMAIN w.heads /\ v = [w EXCEPT !.head = b, !.at = {}, !.heads = to]
  BY DEF Creates
<1>2. w.heads \in Histories /\ At(w) \in SUBSET Nat /\ At(w) \subseteq 1..w.made /\ Parts(w, 1..w.made)
  BY AtType DEF World
<1>3. Placed(w.heads, b, At(w), to)
  BY <1>2, WithBranch
<1> HIDE DEF to
<1>4. \A c \in DOMAIN to : to[c] \subseteq 1..w.made
  BY <1>2, <1>3 DEF Parts, Placed
<1>5. to \in Histories /\ b \in DOMAIN to /\ DOMAIN to \subseteq DOMAIN w.heads \cup {b} /\ Grows(w.heads, to)
  BY <1>1, <1>3 DEF Placed
<1> QED BY <1>1, <1>4, <1>5, HeadMoves

(* A push is never forced. *)
LEMMA PushesForward ==
  ASSUME NEW w \in World, WorldOK(w), NEW b \in DOMAIN w.heads, NEW v \in Pushes(w, b)
  PROVE  Forward(w, v) /\ b \in DOMAIN v.remote
<1> DEFINE to    == With(w.remote, b, w.heads[b])
           known == With(w.tracking, b, w.heads[b])
<1>1. (b \notin DOMAIN w.remote \/ w.remote[b] \subseteq w.heads[b]) /\ v = [w EXCEPT !.remote = to, !.tracking = known]
  BY DEF Pushes
<1>2. w.heads \in Histories /\ w.remote \in Histories /\ w.tracking \in Histories /\ Parts(w, 1..w.made)
  BY AtType DEF World
<1>3. b \in Refs /\ w.heads[b] \in SUBSET Nat /\ w.heads[b] \subseteq 1..w.made
  BY <1>2, History DEF Parts
<1>4. Placed(w.remote, b, w.heads[b], to)
  BY <1>2, <1>3, WithBranch
<1>5. Placed(w.tracking, b, w.heads[b], known)
  BY <1>2, <1>3, WithBranch
<1> HIDE DEF to, known
<1>6. v \in World /\ v.head = w.head /\ v.at = w.at /\ v.heads = w.heads /\ v.index = w.index /\ v.work = w.work
       /\ v.fresh = w.fresh /\ v.remote = to /\ v.tracking = known /\ v.prs = w.prs /\ v.made = w.made
  BY <1>1, <1>4, <1>5 DEF World, Placed
<1>7. Kept(v) \subseteq 1..v.made
  <2>1. Parts(v, 1..v.made)
    BY <1>2, <1>3, <1>4, <1>6 DEF Parts, Placed
  <2> QED BY <1>6, <2>1, KeptParts DEF WorldOK
<1>8. \A c \in DOMAIN v.tracking : c \in DOMAIN v.remote /\ v.tracking[c] \subseteq v.remote[c]
  <2> SUFFICES ASSUME NEW c \in DOMAIN v.tracking PROVE c \in DOMAIN v.remote /\ v.tracking[c] \subseteq v.remote[c]
    OBVIOUS
  <2>1. CASE c = b
    BY <1>4, <1>5, <1>6, <2>1 DEF Placed
  <2>2. CASE c # b
    BY <1>4, <1>5, <1>6, <2>2 DEF WorldOK, Placed
  <2> QED BY <2>1, <2>2
<1>9. WorldOK(v)
  BY <1>4, <1>6, <1>7, <1>8 DEF WorldOK, Placed
<1>10. Grows(w.remote, v.remote)
  BY <1>1, <1>4, <1>6 DEF Placed
<1>11. \A u \in Kept(w) : u \in Kept(v) \/ (w.head = NoBranch /\ u \in w.at /\ v.head # NoBranch)
  <2>1. \A u \in w.work \cup w.fresh \cup w.index : u \in Kept(v)
    BY <1>6, KeptIs
  <2>2. w.head = NoBranch => \A u \in w.at : u \in Kept(v)
    BY <1>6, KeptIs DEF At
  <2>3. Grows(w.heads, v.heads) /\ Grows(w.remote, v.remote)
    BY <1>6, <1>10, GrowsSame
  <2> QED BY <2>1, <2>2, <2>3, NothingGone
<1> QED BY <1>4, <1>6, <1>9, <1>10, <1>11, GrowsSame DEF Forward, Placed

LEMMA OpensForward ==
  ASSUME NEW w \in World, WorldOK(w), NEW v \in OpensPr(w)
  PROVE  Forward(w, v) /\ v.prs # {}
<1>1. v = [w EXCEPT !.prs = @ \cup {w.head}] /\ w.head \in DOMAIN w.tracking
  BY DEF OpensPr
<1>2. w.head \in DOMAIN w.remote /\ w.head \in Refs
  <2>1. w.remote \in Histories
    BY DEF World
  <2> QED BY <1>1, <2>1, History DEF WorldOK
<1>3. v \in World /\ v.head = w.head /\ v.at = w.at /\ v.heads = w.heads /\ v.index = w.index /\ v.work = w.work
       /\ v.fresh = w.fresh /\ v.remote = w.remote /\ v.tracking = w.tracking /\ v.prs = w.prs \cup {w.head} /\ v.made = w.made
  BY <1>1, <1>2 DEF World
<1>4. Kept(v) = Kept(w)
  BY <1>3 DEF Kept, At
<1>5. WorldOK(v)
  BY <1>2, <1>3, <1>4 DEF WorldOK
<1> QED BY <1>3, <1>4, <1>5, GrowsSame DEF Forward

-----------------------------------------------------------------------------
(* What the user and the colleague do. *)
LEMMA FilesForward ==
  ASSUME GitInv, NEW where \in {"tracked", "new"}, FileChanges(where)
  PROVE  Forward(world, world') /\ UNCHANGED <<run, told>>
<1>1. world \in World /\ WorldOK(world) /\ world.made \in Nat
  BY DEF GitInv, World
<1> DEFINE u == world.made + 1
<1>2. /\ UNCHANGED <<run, told>>
      /\ \/ world' = [world EXCEPT !.made = u, !.work = @ \cup {u}]
         \/ world' = [world EXCEPT !.made = u, !.fresh = @ \cup {u}]
  BY DEF FileChanges, Moves
<1>3. u \in Nat /\ u \notin 1..world.made /\ 1..u = 1..world.made \cup {u}
  BY <1>1
<1> HIDE DEF u
<1>4. /\ world' \in World /\ world'.head = world.head /\ world'.at = world.at /\ world'.heads = world.heads
      /\ world'.index = world.index /\ world'.remote = world.remote /\ world'.tracking = world.tracking
      /\ world'.prs = world.prs /\ world'.made = u
      /\ \/ world'.work = world.work \cup {u} /\ world'.fresh = world.fresh
         \/ world'.fresh = world.fresh \cup {u} /\ world'.work = world.work
  <2>1. world.work \cup {u} \in SUBSET Nat /\ world.fresh \cup {u} \in SUBSET Nat
    BY <1>1, <1>3 DEF World
  <2>2. CASE world' = [world EXCEPT !.made = u, !.work = @ \cup {u}]
    BY <1>1, <1>3, <2>1, <2>2 DEF World
  <2>3. CASE world' = [world EXCEPT !.made = u, !.fresh = @ \cup {u}]
    BY <1>1, <1>3, <2>1, <2>3 DEF World
  <2> QED BY <1>2, <2>2, <2>3
<1>5. Parts(world, 1..world.made)
  BY <1>1, AtType
<1>6. Kept(world') \subseteq 1..world'.made
  <2>1. Parts(world', 1..world'.made)
    BY <1>3, <1>4, <1>5 DEF Parts
  <2> QED BY <1>1, <1>4, <2>1, KeptParts DEF WorldOK
<1>7. WorldOK(world')
  <2>1. u \notin world.work /\ u \notin world.fresh /\ u \notin world.index
    BY <1>3, <1>5 DEF Parts
  <2>2. world'.work \cap world'.fresh = {} /\ world'.index \cap (world'.work \cup world'.fresh) = {}
    BY <1>1, <1>4, <2>1 DEF WorldOK
  <2> QED BY <1>1, <1>4, <1>6, <2>2 DEF WorldOK
<1>8. \A x \in Kept(world) : x \in Kept(world') \/ (world.head = NoBranch /\ x \in world.at /\ world'.head # NoBranch)
  <2>1. \A x \in world.work \cup world.fresh \cup world.index : x \in Kept(world')
    BY <1>4, KeptIs
  <2>2. world.head = NoBranch => \A x \in world.at : x \in Kept(world')
    BY <1>4, KeptIs DEF At
  <2>3. Grows(world.heads, world'.heads) /\ Grows(world.remote, world'.remote)
    BY <1>4, GrowsSame
  <2> QED BY <1>1, <2>1, <2>2, <2>3, NothingGone
<1> QED BY <1>2, <1>4, <1>7, <1>8, GrowsSame DEF Forward

LEMMA DetachForward ==
  ASSUME GitInv, UserDetaches
  PROVE  Forward(world, world') /\ UNCHANGED <<run, told>>
<1>1. world \in World /\ WorldOK(world) /\ At(world) \in SUBSET Nat /\ At(world) \subseteq 1..world.made /\ Parts(world, 1..world.made)
  BY AtType DEF GitInv
<1>2. UNCHANGED <<run, told>> /\ world' = [world EXCEPT !.head = NoBranch, !.at = At(world)] /\ world.head # NoBranch
  BY DEF UserDetaches, Moves
<1>3. /\ world' \in World /\ world'.head = NoBranch /\ world'.at = At(world) /\ world'.heads = world.heads
      /\ world'.index = world.index /\ world'.remote = world.remote /\ world'.tracking = world.tracking
      /\ world'.prs = world.prs /\ world'.made = world.made /\ world'.work = world.work /\ world'.fresh = world.fresh
  BY <1>1, <1>2 DEF World
<1>4. Kept(world') \subseteq 1..world'.made
  <2>1. Parts(world', 1..world'.made)
    BY <1>1, <1>3 DEF Parts
  <2> QED BY <1>3, <2>1, KeptParts
<1>5. WorldOK(world')
  BY <1>1, <1>3, <1>4 DEF WorldOK
<1>6. \A x \in Kept(world) : x \in Kept(world') \/ (world.head = NoBranch /\ x \in world.at /\ world'.head # NoBranch)
  <2>1. \A x \in world.work \cup world.fresh \cup world.index : x \in Kept(world')
    BY <1>3, KeptIs
  <2>2. Grows(world.heads, world'.heads) /\ Grows(world.remote, world'.remote)
    BY <1>3, GrowsSame
  <2> QED BY <1>1, <1>2, <2>1, <2>2, NothingGone
<1> QED BY <1>2, <1>3, <1>5, <1>6, GrowsSame DEF Forward

LEMMA FetchForward ==
  ASSUME GitInv, UserFetches
  PROVE  Forward(world, world') /\ UNCHANGED <<run, told>>
<1>1. world \in World /\ WorldOK(world)
  BY DEF GitInv
<1>2. UNCHANGED <<run, told>> /\ world' = [world EXCEPT !.tracking = world.remote]
  BY DEF UserFetches, Moves
<1>3. /\ world' \in World /\ world'.head = world.head /\ world'.at = world.at /\ world'.heads = world.heads
      /\ world'.index = world.index /\ world'.remote = world.remote /\ world'.tracking = world.remote
      /\ world'.prs = world.prs /\ world'.made = world.made /\ world'.work = world.work /\ world'.fresh = world.fresh
  BY <1>1, <1>2 DEF World
<1>4. Kept(world') = Kept(world)
  BY <1>3 DEF Kept, At
<1>5. WorldOK(world')
  BY <1>1, <1>3, <1>4 DEF WorldOK
<1> QED BY <1>2, <1>3, <1>4, <1>5, GrowsSame DEF Forward

LEMMA PullForward ==
  ASSUME GitInv, UserPulls
  PROVE  Forward(world, world') /\ UNCHANGED <<run, told>>
<1>1. world \in World /\ WorldOK(world) /\ Parts(world, 1..world.made) /\ world.heads \in Histories /\ world.remote \in Histories
  BY AtType DEF GitInv, World
<1> DEFINE b  == world.head
           to == [world.heads EXCEPT ![b] = world.heads[b] \cup world.remote[b]]
<1>2. b \in DOMAIN world.remote /\ UNCHANGED <<run, told>> /\ world' = [world EXCEPT !.tracking = world.remote, !.heads = to]
  BY <1>1 DEF UserPulls, Moves, World
<1>3. b \in DOMAIN world.heads /\ b # NoBranch
  BY <1>1, <1>2, History, GitAssumption DEF WorldOK
<1>4. world.heads[b] \in SUBSET Nat /\ world.remote[b] \in SUBSET Nat
  BY <1>1, <1>2, <1>3, History
<1> DEFINE units == world.heads[b] \cup world.remote[b]
<1>5. units \in SUBSET Nat /\ world.heads[b] \subseteq units /\ units \subseteq 1..world.made
  BY <1>1, <1>2, <1>3, <1>4 DEF Parts
<1> HIDE DEF units
<1>6. to = [world.heads EXCEPT ![b] = units]
  BY DEF units
<1> HIDE DEF to
<1>7. /\ to \in Histories /\ DOMAIN to = DOMAIN world.heads /\ Grows(world.heads, to)
      /\ \A c \in DOMAIN world.heads : to[c] = IF c = b THEN units ELSE world.heads[c]
  BY <1>1, <1>3, <1>5, <1>6, MovedBranch
<1> HIDE DEF b
<1>8. /\ world' \in World /\ world'.head = world.head /\ world'.at = world.at /\ world'.heads = to
      /\ world'.index = world.index /\ world'.remote = world.remote /\ world'.tracking = world.remote
      /\ world'.prs = world.prs /\ world'.made = world.made /\ world'.work = world.work /\ world'.fresh = world.fresh
  BY <1>1, <1>2, <1>7 DEF World
<1>9. Kept(world') \subseteq 1..world'.made
  <2>1. Parts(world', 1..world'.made)
    BY <1>1, <1>5, <1>7, <1>8 DEF Parts
  <2> QED BY <1>1, <1>7, <1>8, <2>1, KeptParts DEF WorldOK
<1>10. WorldOK(world')
  BY <1>1, <1>7, <1>8, <1>9 DEF WorldOK
<1>11. \A x \in Kept(world) : x \in Kept(world') \/ (world.head = NoBranch /\ x \in world.at /\ world'.head # NoBranch)
  <2>1. \A x \in world.work \cup world.fresh \cup world.index : x \in Kept(world')
    BY <1>8, KeptIs
  <2>2. world.head # NoBranch
    BY <1>3 DEF b
  <2>3. Grows(world.heads, world'.heads) /\ Grows(world.remote, world'.remote)
    BY <1>7, <1>8, GrowsSame
  <2> QED BY <1>1, <2>1, <2>2, <2>3, NothingGone
<1> QED BY <1>2, <1>7, <1>8, <1>10, <1>11, GrowsSame DEF Forward

LEMMA ColleagueForward ==
  ASSUME GitInv, NEW b \in Refs, ColleaguePushes(b)
  PROVE  Forward(world, world') /\ UNCHANGED <<run, told>>
<1>1. /\ world \in World /\ WorldOK(world) /\ Parts(world, 1..world.made) /\ world.remote \in Histories /\ world.made \in Nat
      /\ b \in DOMAIN world.remote
  BY AtType DEF GitInv, World, ColleaguePushes
<1> DEFINE u  == world.made + 1
           to == [world.remote EXCEPT ![b] = world.remote[b] \cup {u}]
<1>2. UNCHANGED <<run, told>> /\ world' = [world EXCEPT !.made = u, !.remote = to]
  BY <1>1 DEF ColleaguePushes, Moves, World
<1>3. u \in Nat /\ 1..u = 1..world.made \cup {u}
  BY <1>1
<1> HIDE DEF u
<1> DEFINE units == world.remote[b] \cup {u}
<1>4. units \in SUBSET Nat /\ world.remote[b] \subseteq units /\ units \subseteq 1..u
  <2>1. world.remote[b] \in SUBSET Nat
    BY <1>1, History
  <2> QED BY <1>1, <1>3, <2>1 DEF Parts
<1>5. to = [world.remote EXCEPT ![b] = units]
  OBVIOUS
<1> HIDE DEF units, to
<1>6. /\ to \in Histories /\ DOMAIN to = DOMAIN world.remote /\ Grows(world.remote, to)
      /\ \A c \in DOMAIN world.remote : to[c] = IF c = b THEN units ELSE world.remote[c]
  BY <1>1, <1>4, <1>5, MovedBranch
<1>7. /\ world' \in World /\ world'.head = world.head /\ world'.at = world.at /\ world'.heads = world.heads
      /\ world'.index = world.index /\ world'.remote = to /\ world'.tracking = world.tracking
      /\ world'.prs = world.prs /\ world'.made = u /\ world'.work = world.work /\ world'.fresh = world.fresh
  BY <1>1, <1>2, <1>3, <1>6 DEF World
<1>8. Kept(world') \subseteq 1..world'.made
  <2>1. Parts(world', 1..world'.made)
    BY <1>1, <1>3, <1>4, <1>6, <1>7 DEF Parts
  <2> QED BY <1>1, <1>7, <2>1, KeptParts DEF WorldOK
<1>9. \A c \in DOMAIN world.tracking : c \in DOMAIN to /\ world.tracking[c] \subseteq to[c]
  BY <1>1, <1>6 DEF WorldOK, Grows
<1>10. WorldOK(world')
  BY <1>1, <1>6, <1>7, <1>8, <1>9 DEF WorldOK
<1>11. \A x \in Kept(world) : x \in Kept(world') \/ (world.head = NoBranch /\ x \in world.at /\ world'.head # NoBranch)
  <2>1. \A x \in world.work \cup world.fresh \cup world.index : x \in Kept(world')
    BY <1>7, KeptIs
  <2>2. world.head = NoBranch => \A x \in world.at : x \in Kept(world')
    BY <1>7, KeptIs DEF At
  <2>3. Grows(world.heads, world'.heads) /\ Grows(world.remote, world'.remote)
    BY <1>6, <1>7, GrowsSame
  <2> QED BY <1>1, <2>1, <2>2, <2>3, NothingGone
<1> QED BY <1>2, <1>6, <1>7, <1>10, <1>11, GrowsSame DEF Forward

-----------------------------------------------------------------------------
(* The run a call has come to goes forward; a push leaves its branch on the *)
(* remote, and a pull request is there.                                    *)
LEMMA EffectForward ==
  ASSUME GitInv, GitRunning, NEW v \in Effect(run)
  PROVE  /\ Forward(world, v)
         /\ run.call.tool = "push" /\ run.pc = "second" => run.branch \in DOMAIN v.remote
         /\ run.call.tool = "pr" /\ run.pc = "second" => v.prs # {}
<1>1. world \in World /\ WorldOK(world) /\ run \in Run /\ run.call \in GitCall /\ run.call.all \in BOOLEAN
  BY DEF GitInv, Run, GitCall
<1>2. CASE run.call.tool = "add"
  <2>1. v \in Adds(world, run.call.all) \/ v = world
    BY <1>2 DEF Effect, Reads
  <2> QED BY <1>1, <1>2, <2>1, AddsForward, ReadsForward
<1>3. CASE run.call.tool = "commit"
  <2>1. v \in Commits(world, run.call.all) \/ v = world
    BY <1>3 DEF Effect, Reads
  <2> QED BY <1>1, <1>3, <2>1, CommitsForward, ReadsForward
<1>4. CASE run.call.tool = "create"
  <2>1. v \in Creates(world, run.call.name) /\ run.call.name \in Refs
    BY <1>4 DEF Effect, GitInv, RunOK
  <2> QED BY <1>1, <1>4, <2>1, CreatesForward
<1>5. CASE run.call.tool = "switch"
  <2>1. v \in Switches(world, run.call.name) /\ run.call.name \in Refs
    BY <1>5 DEF Effect, GitInv, RunOK
  <2> QED BY <1>1, <1>5, <2>1, SwitchesForward
<1>6. CASE run.call.tool = "push"
  <2>1. CASE run.pc = "second"
    <3>1. v \in Pushes(world, run.branch) /\ run.branch \in DOMAIN world.heads
      BY <1>6, <2>1 DEF Effect, GitInv, RunOK
    <3> QED BY <1>1, <1>6, <3>1, PushesForward
  <2>2. CASE run.pc # "second"
    <3>1. v = world
      BY <1>6, <2>2 DEF Effect, Reads
    <3> QED BY <1>1, <1>6, <2>2, <3>1, ReadsForward
  <2> QED BY <2>1, <2>2
<1>7. CASE run.call.tool = "pr"
  <2>1. CASE run.pc = "second"
    <3>1. v \in OpensPr(world)
      BY <1>7, <2>1 DEF Effect
    <3> QED BY <1>1, <1>7, <3>1, OpensForward
  <2>2. CASE run.pc # "second"
    <3>1. v = world
      BY <1>7, <2>2 DEF Effect, Reads
    <3> QED BY <1>1, <1>7, <2>2, <3>1, ReadsForward
  <2> QED BY <2>1, <2>2
<1>8. CASE run.call.tool \in {"status", "diff", "log", "list", "none"}
  <2>1. v = world
    BY <1>8 DEF Effect, Reads
  <2> QED BY <1>1, <1>8, <2>1, ReadsForward
<1> QED BY <1>1, <1>2, <1>3, <1>4, <1>5, <1>6, <1>7, <1>8 DEF GitCall

-----------------------------------------------------------------------------
(* Whoever moves, what was reported and what a call has found stays so. *)
LEMMA StaysSo ==
  ASSUME GitInv, Forward(world, world')
  PROVE  /\ UNCHANGED told => PushesReported'
         /\ UNCHANGED run => RunOK'
<1>1. /\ Grows(world.heads, world'.heads) /\ Grows(world.remote, world'.remote) /\ world.prs \subseteq world'.prs
      /\ RunOK /\ PushesReported
  BY DEF Forward, GitInv
<1>2. ASSUME UNCHANGED told PROVE PushesReported'
  <2>1. ASSUME told.ok, told.tool = "push"
        PROVE  told.branch \in DOMAIN world'.remote /\ told.units \subseteq world'.remote[told.branch]
    BY <1>1, <2>1 DEF PushesReported, Grows
  <2>2. ASSUME told.ok, told.tool = "pr" PROVE world'.prs # {}
    BY <1>1, <2>2 DEF PushesReported
  <2> QED BY <1>2, <2>1, <2>2 DEF PushesReported
<1>3. ASSUME UNCHANGED run PROVE RunOK'
  <2>1. ASSUME run.call.tool = "push", run.pc \in {"exited1", "second", "exited2"}
        PROVE  run.branch \in DOMAIN world'.heads \cup {NoBranch}
    BY <1>1, <2>1 DEF RunOK, Grows
  <2>2. ASSUME run.call.tool = "push", run.pc = "exited2"
        PROVE  run.branch \in DOMAIN world'.remote /\ run.seen \subseteq world'.remote[run.branch]
    BY <1>1, <2>2 DEF RunOK, Grows
  <2>3. ASSUME run.call.tool = "pr", run.pc = "exited2" PROVE world'.prs # {}
    BY <1>1, <2>3 DEF RunOK
  <2> QED BY <1>1, <1>3, <2>1, <2>2, <2>3 DEF RunOK
<1> QED BY <1>2, <1>3

LEMMA WorldMoves ==
  ASSUME GitInv, Forward(world, world'), UNCHANGED <<run, told>>
  PROVE  GitInv'
BY StaysSo DEF Forward, GitInv

(* A call ends with an error, or is refused. *)
LEMMA EndsInError ==
  ASSUME GitInv, Forward(world, world'), Answer(Error)
  PROVE  GitInv'
<1>1. run' = NoGit /\ told' = Error
  BY DEF Answer
<1>2. NoGit \in Run
  BY DEF NoGit, Run, GitCall
<1>3. RunOK'
  BY <1>1 DEF RunOK, NoGit
<1>4. PushesReported'
  BY <1>1 DEF PushesReported, Error
<1>5. run' \in Run
  BY <1>1, <1>2
<1> QED BY <1>3, <1>4, <1>5 DEF GitInv, Forward

LEMMA StepCall ==
  ASSUME GitInv, NEW c \in GitCalls, CallGit(c)
  PROVE  GitInv' /\ Forward(world, world')
<1>1. world \in World /\ WorldOK(world) /\ UNCHANGED world /\ Forward(world, world')
  BY ReadsForward DEF GitInv, CallGit
<1>2. CASE Refused(c)
  BY <1>1, <1>2, EndsInError DEF CallGit
<1>3. CASE ~Refused(c)
  <2>1. run' = [NoGit EXCEPT !.pc = "first", !.call = c] /\ told' = Error
    BY <1>3 DEF CallGit
  <2>2. c \in GitCall /\ (c.tool \in {"create", "switch"} => c.name \in Refs)
    BY <1>3 DEF GitCalls, GitCall, Refused
  <2>3. run'.pc = "first" /\ run'.call = c /\ run' \in Run
    BY <2>1, <2>2 DEF NoGit, Run
  <2>4. RunOK'
    BY <2>2, <2>3 DEF RunOK
  <2>5. PushesReported'
    BY <2>1 DEF PushesReported, Error
  <2> QED BY <1>1, <2>3, <2>4, <2>5 DEF GitInv, Forward
<1> QED BY <1>1, <1>2, <1>3

(* What is read from the output is of the repository as it then is. *)
LEMMA SeenType ==
  ASSUME NEW v \in World, WorldOK(v), run \in Run,
         run.call.tool = "push" /\ run.pc = "second" => run.branch \in DOMAIN v.remote
  PROVE  Seen(run, v) \in SUBSET (Nat \cup Refs)
<1>1. /\ At(v) \in SUBSET Nat /\ v.work \in SUBSET Nat /\ v.fresh \in SUBSET Nat /\ v.index \in SUBSET Nat
      /\ DOMAIN v.heads \subseteq Refs /\ DOMAIN v.tracking \subseteq Refs
      /\ \A b \in DOMAIN v.remote : v.remote[b] \in SUBSET Nat
  <2>1. v.heads \in Histories /\ v.tracking \in Histories /\ v.remote \in Histories
    BY DEF World
  <2> QED BY <2>1, AtType, History DEF World
<1>2. Status(v) \in SUBSET (Nat \cup Refs) /\ Diff(v) \in SUBSET (Nat \cup Refs)
       /\ BranchList(v) \in SUBSET (Nat \cup Refs) /\ Log(v) \in SUBSET (Nat \cup Refs)
  BY <1>1 DEF Status, Diff, BranchList, Log
<1>3. v.index \in SUBSET (Nat \cup Refs)
  BY <1>1
<1>4. run.call.tool = "push" => Seen(run, v) \in SUBSET (Nat \cup Refs)
  BY <1>1 DEF Seen
<1> QED BY <1>2, <1>3, <1>4 DEF Seen

LEMMA StepExits ==
  ASSUME GitInv, NEW v \in Effect(run), GitExits(v)
  PROVE  GitInv' /\ Forward(world, world')
<1>1. GitRunning /\ world' = v /\ UNCHANGED told /\ run \in Run /\ RunOK
  BY DEF GitExits, GitInv
<1> DEFINE pc     == CASE run.pc = "first" -> "exited1" [] run.pc = "second" -> "exited2" [] OTHER -> "exited3"
           branch == IF run.pc = "first" THEN v.head ELSE run.branch
           seen   == Seen(run, v)
<1>2. run' = [run EXCEPT !.pc = pc, !.branch = branch, !.seen = seen]
  BY DEF GitExits
<1>3. /\ Forward(world, v) /\ v \in World /\ WorldOK(v)
      /\ run.call.tool = "push" /\ run.pc = "second" => run.branch \in DOMAIN v.remote
      /\ run.call.tool = "pr" /\ run.pc = "second" => v.prs # {}
  BY <1>1, EffectForward DEF Forward
<1>4. seen \in SUBSET (Nat \cup Refs)
  BY <1>1, <1>3, SeenType
<1>5. branch \in Refs \cup {NoBranch, "none"} /\ pc \in {"exited1", "exited2", "exited3"}
  BY <1>1, <1>3 DEF World, Run
<1>6. run.pc = "second" /\ run.call.tool = "push" => seen = v.remote[run.branch]
  BY DEF Seen
<1>7. /\ run.pc = "first" => pc = "exited1" /\ branch = v.head
      /\ run.pc = "second" => pc = "exited2" /\ branch = run.branch
      /\ run.pc = "third" => pc = "exited3"
      /\ run.pc \in {"first", "second", "third"}
  BY <1>1 DEF GitRunning
<1> HIDE DEF pc, branch, seen
<1>8. run' \in Run /\ run'.pc = pc /\ run'.branch = branch /\ run'.seen = seen /\ run'.call = run.call
  BY <1>1, <1>2, <1>4, <1>5 DEF Run
<1>9. RunOK'
  <2>1. CASE run.pc = "first"
    <3>1. v.head \in DOMAIN v.heads \cup {NoBranch}
      BY <1>3 DEF WorldOK
    <3> QED BY <1>1, <1>7, <1>8, <2>1, <3>1 DEF RunOK
  <2>2. CASE run.pc = "second"
    <3>1. run.call.tool = "push" => run.branch \in DOMAIN v.heads \cup {NoBranch}
      BY <1>1, <1>3, <2>2 DEF RunOK, Forward, Grows
    <3>2. run.call.tool = "push" => run.branch \in DOMAIN v.remote /\ seen \subseteq v.remote[run.branch]
      BY <1>3, <1>6, <2>2
    <3> QED BY <1>1, <1>3, <1>7, <1>8, <2>2, <3>1, <3>2 DEF RunOK
  <2>3. CASE run.pc = "third"
    BY <1>1, <1>7, <1>8, <2>3 DEF RunOK
  <2> QED BY <1>7, <2>1, <2>2, <2>3
<1>10. Forward(world, world')
  BY <1>1, <1>3
<1>11. PushesReported'
  BY <1>1, <1>10, StaysSo
<1> QED BY <1>8, <1>9, <1>10, <1>11 DEF GitInv, Forward

LEMMA StepReturns ==
  ASSUME GitInv, GitReturns
  PROVE  GitInv' /\ Forward(world, world')
<1>1. UNCHANGED world /\ Forward(world, world') /\ run \in Run /\ RunOK /\ world \in World /\ WorldOK(world)
  BY ReadsForward DEF GitInv, GitReturns
<1>2. CASE Answer(Error)
  BY <1>1, <1>2, EndsInError
<1>3. CASE Answer(Done(run.call, run.branch, run.seen)) /\ run.pc = LastRun(run.call.tool)
  <2>1. run' = NoGit /\ told' = Done(run.call, run.branch, run.seen)
    BY <1>3 DEF Answer
  <2>2. NoGit \in Run /\ RunOK'
    BY <2>1 DEF NoGit, Run, GitCall, RunOK
  <2>3. told'.tool = run.call.tool /\ told'.branch = run.branch /\ told'.units = run.seen
    BY <2>1 DEF Done
  <2>4. run.call.tool \in {"push", "pr"} => run.pc = "exited2"
    BY <1>3 DEF LastRun
  <2>5. PushesReported'
    BY <1>1, <2>3, <2>4 DEF PushesReported, RunOK
  <2>6. run' \in Run
    BY <2>1, <2>2
  <2> QED BY <1>1, <2>2, <2>5, <2>6 DEF GitInv
<1>4. CASE /\ run' = [run EXCEPT !.pc = IF run.pc = "exited1" THEN "second" ELSE "third"] /\ UNCHANGED told
           /\ ~(run.call.tool = "push" /\ run.branch = NoBranch) /\ run.pc \in {"exited1", "exited2", "exited3"}
  <2>1. run' \in Run /\ run'.call = run.call /\ run'.branch = run.branch /\ run'.seen = run.seen
         /\ run'.pc = (IF run.pc = "exited1" THEN "second" ELSE "third")
    BY <1>1, <1>4 DEF Run
  <2>2. RunOK'
    BY <1>1, <1>4, <2>1 DEF RunOK
  <2>3. PushesReported'
    BY <1>1, <1>4, StaysSo
  <2> QED BY <1>1, <2>1, <2>2, <2>3 DEF GitInv
<1> QED BY <1>1, <1>2, <1>3, <1>4 DEF GitReturns

LEMMA StepTimesOut ==
  ASSUME GitInv, NEW v, GitTimesOut(v)
  PROVE  GitInv' /\ Forward(world, world')
<1>1. GitRunning /\ world' = v /\ run' = [run EXCEPT !.pc = "killed"] /\ UNCHANGED told /\ run \in Run /\ RunOK
       /\ world \in World /\ WorldOK(world)
  BY DEF GitTimesOut, GitInv
<1>2. v \in Effect(run) \/ v = world \/ v = [world EXCEPT !.lock = TRUE]
  BY DEF GitTimesOut
<1>3. Forward(world, v)
  BY <1>1, <1>2, EffectForward, ReadsForward, LockForward
<1>4. run' \in Run /\ run'.pc = "killed" /\ run'.call = run.call
  BY <1>1 DEF Run
<1>5. RunOK'
  BY <1>1, <1>4 DEF RunOK
<1>6. Forward(world, world')
  BY <1>1, <1>3
<1>7. PushesReported'
  BY <1>1, <1>6, StaysSo
<1> QED BY <1>4, <1>5, <1>6, <1>7 DEF GitInv, Forward

LEMMA GitInitInv == GitInit => GitInv
<1> SUFFICES ASSUME GitInit PROVE GitInv
  OBVIOUS
<1> DEFINE none == [b \in {"main"} |-> {}]
<1>1. none \in Histories /\ DOMAIN none = {"main"} /\ none["main"] = {}
  <2>1. none \in [{"main"} -> SUBSET Nat] /\ {"main"} \in SUBSET Refs
    BY GitAssumption
  <2> QED BY <2>1, History
<1>2. world = [head |-> "main", at |-> {}, heads |-> none, index |-> {}, work |-> {}, fresh |-> {},
              lock |-> FALSE, remote |-> none, tracking |-> none, prs |-> {}, made |-> 0]
  BY DEF GitInit
<1> HIDE DEF none
<1>3. /\ world \in World /\ world.head = "main" /\ world.at = {} /\ world.heads = none /\ world.index = {} /\ world.work = {}
      /\ world.fresh = {} /\ world.remote = none /\ world.tracking = none /\ world.prs = {} /\ world.made = 0
  BY <1>1, <1>2, GitAssumption DEF World
<1>4. Kept(world) \subseteq 1..world.made
  <2>1. Parts(world, 1..world.made)
    BY <1>1, <1>3 DEF Parts
  <2> QED BY <1>1, <1>3, <2>1, KeptParts
<1>5. WorldOK(world)
  BY <1>1, <1>3, <1>4 DEF WorldOK
<1>6. run \in Run /\ RunOK /\ PushesReported
  BY DEF GitInit, NoGit, Error, Run, GitCall, RunOK, PushesReported
<1> QED BY <1>3, <1>5, <1>6 DEF GitInv

(* Every step of anyone keeps the invariant and only moves the repository   *)
(* forward.                                                                *)
LEMMA GitStep == GitInv /\ [GitNext]_gitvars => GitInv' /\ Forward(world, world')
<1> SUFFICES ASSUME GitInv, [GitNext]_gitvars PROVE GitInv' /\ Forward(world, world')
  OBVIOUS
<1>0. world \in World /\ WorldOK(world)
  BY DEF GitInv
<1>1. ASSUME NEW c \in GitCalls, CallGit(c) PROVE GitInv' /\ Forward(world, world')
  BY <1>1, StepCall
<1>2. ASSUME NEW v \in Effect(run), GitExits(v) PROVE GitInv' /\ Forward(world, world')
  BY <1>2, StepExits
<1>3. ASSUME NEW v, GitTimesOut(v) PROVE GitInv' /\ Forward(world, world')
  BY <1>3, StepTimesOut
<1>4. CASE GitReturns
  BY <1>4, StepReturns
<1>5. CASE GitFails \/ PipesClosed
  <2>1. UNCHANGED world /\ Answer(Error)
    BY <1>5 DEF GitFails, PipesClosed
  <2> QED BY <1>0, <2>1, ReadsForward, EndsInError
<1>6. ASSUME NEW where \in {"tracked", "new"}, FileChanges(where) PROVE GitInv' /\ Forward(world, world')
  BY <1>6, FilesForward, WorldMoves
<1>7. CASE UserCommits
  <2>1. PICK v \in Commits(world, FALSE) : Moves(v)
    BY <1>7 DEF UserCommits
  <2>2. Forward(world, world') /\ UNCHANGED <<run, told>>
    BY <1>0, <2>1, CommitsForward DEF Moves
  <2> QED BY <2>2, WorldMoves
<1>8. CASE UserDetaches
  BY <1>8, DetachForward, WorldMoves
<1>9. CASE UserUnlocks
  BY <1>0, <1>9, LockForward, WorldMoves DEF UserUnlocks, Moves
<1>10. CASE UserFetches
  BY <1>10, FetchForward, WorldMoves
<1>11. CASE UserPulls
  BY <1>11, PullForward, WorldMoves
<1>12. ASSUME NEW b \in Refs, UserSwitches(b) PROVE GitInv' /\ Forward(world, world')
  <2>1. PICK v \in Switches(world, b) : Moves(v)
    BY <1>12 DEF UserSwitches
  <2>2. Forward(world, world') /\ UNCHANGED <<run, told>>
    BY <1>0, <2>1, SwitchesForward DEF Moves
  <2> QED BY <2>2, WorldMoves
<1>13. ASSUME NEW b \in Refs, ColleaguePushes(b) PROVE GitInv' /\ Forward(world, world')
  BY <1>13, ColleagueForward, WorldMoves
<1>14. CASE UNCHANGED gitvars
  <2>1. Forward(world, world') /\ UNCHANGED <<run, told>>
    BY <1>0, <1>14, ReadsForward DEF gitvars
  <2> QED BY <2>1, WorldMoves
<1>15. CASE GitNext
  BY <1>1, <1>2, <1>3, <1>4, <1>5, <1>6, <1>7, <1>8, <1>9, <1>10, <1>11, <1>12, <1>13, <1>15 DEF GitNext
<1> QED BY <1>14, <1>15

LEMMA GitMeans == GitInv => GitTypeOK /\ PushesReported
BY DEF GitInv, WorldOK, GitTypeOK, Run

(* What the agent is told of a push or of a pull request is so, and stays  *)
(* so, whatever the user and colleagues do between the runs of the call.    *)
THEOREM PushIsReported == GitSpec => []PushesReported
<1>1. GitInv => PushesReported
  BY GitMeans
<1> QED BY <1>1, GitInitInv, GitStep, PTL DEF GitSpec

(* No step of anyone, killed half way or not, loses a change that was kept  *)
(* somewhere, for any number of branches and changes.                      *)
THEOREM NoChangeLost == GitSpec => NothingLost
<1>1. GitInv /\ [GitNext]_gitvars =>
        [\A u \in Kept(world) : u \in Kept(world') \/ (world.head = NoBranch /\ u \in world.at /\ world'.head # NoBranch)]_gitvars
  BY GitStep DEF Forward
<1> QED BY <1>1, GitInitInv, GitStep, PTL DEF GitSpec, NothingLost

-----------------------------------------------------------------------------
(***************************************************************************)
(* Theorems about ParallelSubtasks, for any number of subtasks, files,     *)
(* branches and commits: what a subtask changed and the call committed can *)
(* be reached from a branch for ever after, and the report of the call is  *)
(* true.                                                                   *)
(*                                                                         *)
(* Neither says why. PmInv does: WorkKept says where the work is, in the   *)
(* branch it was merged into, which is the target unless the workspace left*)
(* it (OnTarget), or else in the subtask's own; Settled says which subtasks*)
(* were dealt with; Progress ties the phase of the call to the worktrees   *)
(* there are; MergeOpen says who has a merge open. History only grows: a   *)
(* commit comes after its parents, and a commit added changes the ancestors*)
(* of no other (NewAncestors).                                             *)
(***************************************************************************)
Commit    == [tree : Trees, from : SUBSET Nat]
Workspace == [branch : Branches \cup {Detached}, index : Trees, work : Trees, unmerged : SUBSET GitFiles, merge : SUBSET Nat]
Worktree  == [tip : Nat, work : Trees, busy : BOOLEAN]
ItemState == [committed : BOOLEAN, tip : Nat, merge : {"none", "clean", "conflict"}, retained : BOOLEAN]
InMerge   == {"merging", "list", "abort", "undo"}
OrchCall  == [phase : {"idle", "create", "work", "merge", "failed", "reported", "lost"} \cup InMerge,
              target : Branches \cup {Detached}, n : 0..MaxSubtasks, at : Nat, stop : {"no", "conflict", "error"},
              moved : SUBSET Nat]

(* A commit comes after its parents. *)
Numbered(cs) == cs \in Seq(Commit) /\ \A c \in 1..Len(cs) : cs[c].from \subseteq 1..c-1

InShape ==
  /\ Numbered(commits)
  /\ refs \in [DOMAIN refs -> 1..Len(commits)] /\ DOMAIN refs \subseteq Branches \cup {Detached}
  /\ parent \in Workspace /\ parent.branch \in DOMAIN refs /\ parent.merge \subseteq 1..Len(commits)
  /\ parent.merge = {} => parent.unmerged = {}
  /\ isolated \in [DOMAIN isolated -> Worktree] /\ \A s \in DOMAIN isolated : isolated[s].tip \in 1..Len(commits)
  /\ items \in [DOMAIN items -> ItemState]
  /\ orch \in OrchCall /\ orch.target \in DOMAIN refs

(* Ancestors, of a history that is a value. *)
Anc(cs, c) == {i \in 1..c : \A S \in SUBSET (1..c) : c \in S /\ (\A j \in S : cs[j].from \subseteq S) => i \in S}

(* How far the call is. *)
Progress ==
  /\ orch.phase = "idle" => DOMAIN isolated = {} /\ orch.at = 0 /\ orch.stop = "no"
  /\ orch.phase \in {"idle", "create", "failed"} => DOMAIN items = {}
  /\ orch.phase = "create" => DOMAIN isolated = 1..orch.at-1 /\ orch.at \in 1..orch.n
  /\ orch.phase = "work" => DOMAIN isolated = 1..orch.n /\ DOMAIN items = 1..orch.at-1 /\ orch.at \in 1..orch.n
  /\ orch.phase \in {"create", "work", "merging"} => orch.stop = "no"
  /\ orch.phase \in {"merge", "reported"} \cup InMerge => DOMAIN items = 1..orch.n /\ orch.at \in 1..orch.n + 1
  /\ orch.phase \in InMerge => orch.at \in 1..orch.n /\ items[orch.at].committed
  /\ DOMAIN isolated \subseteq 1..orch.n /\ orch.at \in 0..orch.n + 1

(* What the call committed is in the subtask's own branch, or merged. *)
InSome(cs, rs, c) == \E b \in DOMAIN rs : c \in Anc(cs, rs[b])
WorkKept ==
  \A s \in DOMAIN items :
    /\ items[s].merge = "clean" => InSome(commits, refs, items[s].tip)
    /\ items[s].merge = "clean" /\ s \notin orch.moved => items[s].tip \in Anc(commits, refs[orch.target])
    /\ items[s].committed /\ items[s].merge # "clean" =>
         s \in DOMAIN isolated /\ items[s].tip \in Anc(commits, isolated[s].tip)

(* Who merges is on the target branch, or the workspace left it since. *)
OnTarget == orch.phase = "merging" /\ orch.at \notin orch.moved => parent.branch = orch.target

(* The subtasks that were dealt with, and those that were not. *)
Settled ==
  /\ orch.phase = "work" => \A s \in DOMAIN items : items[s].merge = "none" /\ ~items[s].retained
  /\ orch.phase \in {"merge", "reported"} \cup InMerge =>
       \A s \in 1..orch.n :
         /\ s < orch.at => (items[s].retained => s \in DOMAIN isolated)
                           /\ (items[s].committed => items[s].merge = "clean" \/ items[s].retained)
         /\ s >= orch.at => s \in DOMAIN isolated /\ ~items[s].retained /\ items[s].merge = "none"

(* A merge left open is being undone, or the call says that it went wrong.  *)
MergeOpen == parent.merge # {} => orch.phase \in {"list", "abort", "undo", "lost"} \/ orch.stop = "error"

PmInv == InShape /\ Progress /\ WorkKept /\ OnTarget /\ Settled /\ MergeOpen

-----------------------------------------------------------------------------
LEMMA AncIs == \A c : Ancestors(c) = Anc(commits, c)
BY DEF Ancestors, Closed, Anc

(* A commit is its own ancestor, and has its parents' ancestors. *)
LEMMA AncSelf ==
  ASSUME NEW cs, NEW c \in Nat \ {0}
  PROVE  c \in Anc(cs, c)
BY DEF Anc

LEMMA AncParent ==
  ASSUME NEW cs, Numbered(cs), NEW c \in 1..Len(cs), NEW p \in cs[c].from
  PROVE  Anc(cs, p) \subseteq Anc(cs, c)
<1>1. Len(cs) \in Nat /\ p \in 1..c-1 /\ p \in 1..Len(cs) /\ c \in Nat /\ p \in Nat
  BY DEF Numbered
<1> SUFFICES ASSUME NEW i \in Anc(cs, p), NEW S \in SUBSET (1..c), c \in S, \A j \in S : cs[j].from \subseteq S
             PROVE  i \in S /\ i \in 1..c
  BY <1>1 DEF Anc
<1> DEFINE T == S \cap (1..p)
<1>2. T \in SUBSET (1..p) /\ p \in T
  BY <1>1
<1>3. \A j \in T : cs[j].from \subseteq T
  <2> SUFFICES ASSUME NEW j \in T, NEW k \in cs[j].from PROVE k \in S /\ k \in 1..p
    OBVIOUS
  <2>1. j \in 1..Len(cs) /\ j \in 1..p
    BY <1>1
  <2>2. k \in 1..j-1
    BY <2>1 DEF Numbered
  <2> QED BY <1>1, <2>1, <2>2
<1>4. i \in 1..p
  BY DEF Anc
<1> HIDE DEF T
<1>5. i \in T
  BY <1>2, <1>3 DEF Anc
<1> QED BY <1>1, <1>4, <1>5 DEF T

(* A new commit changes nothing for those before it. *)
LEMMA AncAppend ==
  ASSUME NEW cs, Numbered(cs), NEW x \in Commit, NEW c \in 1..Len(cs)
  PROVE  Anc(Append(cs, x), c) = Anc(cs, c)
<1>1. cs \in Seq(Commit) /\ Len(cs) \in Nat
  BY DEF Numbered
<1>2. \A j \in 1..c : Append(cs, x)[j] = cs[j]
  BY <1>1
<1>3. \A S \in SUBSET (1..c) : (\A j \in S : Append(cs, x)[j].from \subseteq S) <=> (\A j \in S : cs[j].from \subseteq S)
  BY <1>2
<1> QED BY <1>3 DEF Anc

LEMMA NewAncestors ==
  ASSUME NEW cs, Numbered(cs), NEW x \in Commit, x.from \subseteq 1..Len(cs)
  PROVE  /\ Numbered(Append(cs, x)) /\ Len(Append(cs, x)) = Len(cs) + 1 /\ Len(cs) \in Nat
         /\ Len(cs) + 1 \in Anc(Append(cs, x), Len(cs) + 1)
         /\ \A p \in x.from : Anc(cs, p) \subseteq Anc(Append(cs, x), Len(cs) + 1)
         /\ \A c \in 1..Len(cs) : Anc(Append(cs, x), c) = Anc(cs, c)
<1>1. cs \in Seq(Commit) /\ Len(cs) \in Nat
  BY DEF Numbered
<1>2. /\ Append(cs, x) \in Seq(Commit) /\ Len(Append(cs, x)) = Len(cs) + 1
      /\ Append(cs, x)[Len(cs) + 1] = x /\ \A c \in 1..Len(cs) : Append(cs, x)[c] = cs[c]
  BY <1>1
<1>3. Numbered(Append(cs, x))
  <2>1. ASSUME NEW c \in 1..Len(cs) + 1 PROVE Append(cs, x)[c].from \subseteq 1..c-1
    <3>1. CASE c \in 1..Len(cs)
      BY <1>2, <3>1 DEF Numbered
    <3>2. CASE c = Len(cs) + 1
      <4>1. c - 1 = Len(cs)
        BY <1>1, <3>2
      <4> QED BY <1>2, <3>2, <4>1
    <3> QED BY <1>1, <3>1, <3>2
  <2> QED BY <1>2, <2>1 DEF Numbered
<1>4. Len(cs) + 1 \in 1..Len(Append(cs, x)) /\ Len(cs) + 1 \in Nat \ {0}
  BY <1>1, <1>2
<1>5. \A c \in 1..Len(cs) : Anc(Append(cs, x), c) = Anc(cs, c)
  BY AncAppend
<1>6. ASSUME NEW p \in x.from PROVE Anc(cs, p) \subseteq Anc(Append(cs, x), Len(cs) + 1)
  <2>1. Anc(Append(cs, x), p) \subseteq Anc(Append(cs, x), Len(cs) + 1)
    BY <1>2, <1>3, <1>4, AncParent
  <2> QED BY <1>5, <2>1
<1>7. Len(cs) + 1 \in Anc(Append(cs, x), Len(cs) + 1)
  BY <1>4, AncSelf
<1> QED BY <1>1, <1>2, <1>3, <1>5, <1>6, <1>7

(* What a commit does to the history. *)
LEMMA CommitMade ==
  ASSUME InShape, NEW tree \in Trees, NEW from, from \subseteq 1..Len(commits), NewCommit(tree, from)
  PROVE  /\ Numbered(commits') /\ Len(commits') = Len(commits) + 1 /\ Len(commits) \in Nat
         /\ Len(commits) + 1 \in Anc(commits', Len(commits) + 1)
         /\ \A p \in from : Anc(commits, p) \subseteq Anc(commits', Len(commits) + 1)
         /\ \A c \in 1..Len(commits) : Anc(commits', c) = Anc(commits, c)
<1> DEFINE x == [tree |-> tree, from |-> from]
<1>1. Numbered(commits) /\ Len(commits) \in Nat
  BY DEF InShape, Numbered
<1>2. x \in Commit /\ x.from = from
  BY <1>1 DEF Commit
<1>3. commits' = Append(commits, x)
  BY DEF NewCommit
<1> HIDE DEF x
<1> QED BY <1>1, <1>2, <1>3, NewAncestors

-----------------------------------------------------------------------------
(* Trees. *)
LEMMA TreeTypes ==
  ASSUME InShape
  PROVE  /\ Len(commits) \in Nat
         /\ \A c \in 1..Len(commits) : Tree(c) \in Trees
         /\ \A b \in DOMAIN refs : HeadOf(b) \in Trees /\ refs[b] \in 1..Len(commits)
         /\ Ours \in Trees /\ parent.index \in Trees /\ parent.work \in Trees
         /\ \A t, u \in Trees : \A files : Over(t, files, u) \in Trees
<1>1. Len(commits) \in Nat /\ \A c \in 1..Len(commits) : commits[c] \in Commit
  BY DEF InShape, Numbered
<1>2. \A c \in 1..Len(commits) : Tree(c) \in Trees
  BY <1>1 DEF Tree, Commit
<1>3. \A b \in DOMAIN refs : refs[b] \in 1..Len(commits)
  BY DEF InShape
<1>4. \A b \in DOMAIN refs : HeadOf(b) \in Trees
  BY <1>2, <1>3 DEF HeadOf
<1>5. \A t, u \in Trees : \A files : Over(t, files, u) \in Trees
  BY DEF Trees, Over
<1>6. parent.branch \in DOMAIN refs /\ parent.index \in Trees /\ parent.work \in Trees
  BY DEF InShape, Workspace
<1> QED BY <1>1, <1>2, <1>3, <1>4, <1>5, <1>6 DEF Ours

(* What the user does leaves the call alone: branches go forward, and no    *)
(* merge is opened.                                                        *)
LEMMA UserStep ==
  ASSUME PmInv, InShape', UNCHANGED <<isolated, items>>, OnTarget',
         /\ orch'.phase = orch.phase /\ orch'.target = orch.target /\ orch'.n = orch.n
         /\ orch'.at = orch.at /\ orch'.stop = orch.stop /\ orch.moved \subseteq orch'.moved,
         \A c \in 1..Len(commits) : Anc(commits', c) = Anc(commits, c),
         \A b \in DOMAIN refs : b \in DOMAIN refs' /\ Anc(commits, refs[b]) \subseteq Anc(commits', refs'[b]),
         parent.merge = {} => parent'.merge = {}
  PROVE  PmInv'
<1>1. orch.target \in DOMAIN refs /\ \A s \in DOMAIN isolated : isolated[s].tip \in 1..Len(commits)
  BY DEF PmInv, InShape
<1>2. WorkKept'
  <2> SUFFICES ASSUME NEW s \in DOMAIN items
               PROVE  /\ items[s].merge = "clean" => InSome(commits', refs', items[s].tip)
                      /\ items[s].merge = "clean" /\ s \notin orch'.moved =>
                           items[s].tip \in Anc(commits', refs'[orch.target])
                      /\ items[s].committed /\ items[s].merge # "clean" =>
                           s \in DOMAIN isolated /\ items[s].tip \in Anc(commits', isolated[s].tip)
    BY DEF WorkKept
  <2>1. items[s].merge = "clean" => InSome(commits', refs', items[s].tip)
    BY DEF PmInv, WorkKept, InSome
  <2> QED BY <1>1, <2>1 DEF PmInv, WorkKept
<1>3. Progress' /\ Settled'
  BY DEF PmInv, Progress, Settled
<1>4. MergeOpen'
  BY DEF PmInv, MergeOpen
<1> QED BY <1>2, <1>3, <1>4 DEF PmInv

(* The call alone, or the mark that the workspace left the branch. *)
LEMMA LeavesIs ==
  ASSUME orch \in OrchCall, Leaves
  PROVE  /\ orch' \in OrchCall
         /\ orch'.phase = orch.phase /\ orch'.target = orch.target /\ orch'.n = orch.n
         /\ orch'.at = orch.at /\ orch'.stop = orch.stop /\ orch.moved \subseteq orch'.moved
         /\ orch.phase = "merging" => orch.at \in orch'.moved
<1> DEFINE more == orch.moved \cup {orch.at}
<1>1. more \in SUBSET Nat
  BY DEF OrchCall
<1>2. orch' = IF orch.phase = "merging" THEN [orch EXCEPT !.moved = more] ELSE orch
  BY DEF Leaves
<1> HIDE DEF more
<1>3. CASE orch.phase = "merging"
  <2>1. orch' = [orch EXCEPT !.moved = more]
    BY <1>2, <1>3
  <2>2. orch' \in OrchCall /\ orch'.moved = more
    BY <1>1, <2>1 DEF OrchCall
  <2> QED BY <2>1, <2>2 DEF OrchCall, more
<1>4. CASE orch.phase # "merging"
  BY <1>2, <1>4
<1> QED BY <1>3, <1>4

LEMMA StepEdit ==
  ASSUME PmInv, NEW f \in GitFiles, NEW text \in Contents, EditFile(f, text)
  PROVE  PmInv'
<1>1. /\ InShape /\ parent \in Workspace /\ parent' = [parent EXCEPT !.work[f] = text]
      /\ UNCHANGED <<commits, refs, isolated, orch, items>>
  BY DEF PmInv, EditFile, InShape
<1>2. [parent.work EXCEPT ![f] = text] \in Trees
  BY <1>1 DEF Workspace, Trees
<1>3. /\ parent' \in Workspace /\ parent'.branch = parent.branch /\ parent'.merge = parent.merge
      /\ parent'.unmerged = parent.unmerged
  BY <1>1, <1>2 DEF Workspace
<1>4. InShape'
  BY <1>1, <1>3 DEF InShape
<1>10. OnTarget'
  BY <1>1, <1>3 DEF PmInv, OnTarget
<1> QED BY <1>1, <1>3, <1>4, <1>10, UserStep

LEMMA StepAdd ==
  ASSUME PmInv, NEW files \in SUBSET GitFiles, GitAdd(files)
  PROVE  PmInv'
<1> DEFINE index == [f \in GitFiles |-> IF f \in files THEN parent.work[f] ELSE parent.index[f]]
<1>1. /\ InShape /\ parent \in Workspace /\ parent' = [parent EXCEPT !.index = index, !.unmerged = @ \ files]
      /\ UNCHANGED <<commits, refs, isolated, orch, items>>
  BY DEF PmInv, GitAdd, InShape
<1>2. index \in Trees
  BY <1>1 DEF Workspace, Trees
<1> HIDE DEF index
<1>3. /\ parent' \in Workspace /\ parent'.branch = parent.branch /\ parent'.merge = parent.merge
      /\ parent'.unmerged = parent.unmerged \ files
  BY <1>1, <1>2 DEF Workspace
<1>4. InShape'
  BY <1>1, <1>3 DEF InShape
<1>10. OnTarget'
  BY <1>1, <1>3 DEF PmInv, OnTarget
<1> QED BY <1>1, <1>3, <1>4, <1>10, UserStep

LEMMA StepCommit ==
  ASSUME PmInv, NEW all \in BOOLEAN, GitCommit(all)
  PROVE  PmInv'
<1> DEFINE index == [f \in GitFiles |-> IF all /\ parent.index[f] # "gone" THEN parent.work[f] ELSE parent.index[f]]
           from  == {refs[parent.branch]} \cup parent.merge
           b     == parent.branch
<1>1. /\ InShape /\ parent \in Workspace /\ parent' = [parent EXCEPT !.index = index, !.unmerged = {}, !.merge = {}]
      /\ NewCommit(index, from) /\ refs' = [refs EXCEPT ![b] = Len(commits) + 1]
      /\ UNCHANGED <<isolated, orch, items>>
  BY DEF PmInv, GitCommit, InShape
<1>2. index \in Trees
  BY <1>1 DEF Workspace, Trees
<1> HIDE DEF index
<1>3. from \subseteq 1..Len(commits) /\ b \in DOMAIN refs /\ refs[b] \in from
  BY <1>1 DEF InShape
<1> HIDE DEF from
<1>4. /\ Numbered(commits') /\ Len(commits') = Len(commits) + 1 /\ Len(commits) \in Nat
      /\ \A p \in from : Anc(commits, p) \subseteq Anc(commits', Len(commits) + 1)
      /\ \A c \in 1..Len(commits) : Anc(commits', c) = Anc(commits, c)
  BY <1>1, <1>2, <1>3, CommitMade
<1>5. /\ parent' \in Workspace /\ parent'.branch = parent.branch /\ parent'.merge = {} /\ parent'.unmerged = {}
  BY <1>1, <1>2 DEF Workspace
<1>6. 1..Len(commits) \subseteq 1..Len(commits') /\ Len(commits) + 1 \in 1..Len(commits')
  BY <1>4
<1>7. /\ DOMAIN refs' = DOMAIN refs /\ refs' \in [DOMAIN refs' -> 1..Len(commits')]
      /\ \A c \in DOMAIN refs : refs'[c] = IF c = b THEN Len(commits) + 1 ELSE refs[c]
  BY <1>1, <1>3, <1>6 DEF InShape
<1>8. InShape'
  BY <1>1, <1>4, <1>5, <1>6, <1>7 DEF InShape
<1>9. \A c \in DOMAIN refs : c \in DOMAIN refs' /\ Anc(commits, refs[c]) \subseteq Anc(commits', refs'[c])
  BY <1>1, <1>3, <1>4, <1>7 DEF InShape
<1>10. OnTarget'
  BY <1>1, <1>5 DEF PmInv, OnTarget
<1> QED BY <1>1, <1>4, <1>5, <1>8, <1>9, <1>10, UserStep

LEMMA StepBranch ==
  ASSUME PmInv, NEW b \in Branches, GitBranchCreate(b)
  PROVE  PmInv'
<1>1. /\ InShape /\ parent \in Workspace /\ parent' = [parent EXCEPT !.branch = b] /\ b \notin DOMAIN refs
      /\ refs' = [c \in DOMAIN refs \cup {b} |-> IF c = b THEN refs[parent.branch] ELSE refs[c]]
      /\ orch \in OrchCall /\ Leaves /\ UNCHANGED <<commits, isolated, items>>
  BY DEF PmInv, GitBranchCreate, InShape
<1>2. /\ parent' \in Workspace /\ parent'.branch = b /\ parent'.merge = parent.merge /\ parent'.unmerged = parent.unmerged
  BY <1>1 DEF Workspace
<1>3. /\ DOMAIN refs' = DOMAIN refs \cup {b} /\ refs' \in [DOMAIN refs' -> 1..Len(commits)]
      /\ \A c \in DOMAIN refs : refs'[c] = refs[c]
  BY <1>1 DEF InShape
<1>4. /\ orch' \in OrchCall
      /\ orch'.phase = orch.phase /\ orch'.target = orch.target /\ orch'.n = orch.n
      /\ orch'.at = orch.at /\ orch'.stop = orch.stop /\ orch.moved \subseteq orch'.moved
      /\ orch.phase = "merging" => orch.at \in orch'.moved
  BY <1>1, LeavesIs
<1>5. InShape'
  BY <1>1, <1>2, <1>3, <1>4 DEF InShape
<1>6. OnTarget'
  BY <1>4 DEF OnTarget
<1> QED BY <1>1, <1>2, <1>3, <1>4, <1>5, <1>6, UserStep

LEMMA StepSwitch ==
  ASSUME PmInv, NEW b \in Branches, GitBranchSwitch(b)
  PROVE  PmInv'
<1> DEFINE files == Differ(HeadOf(parent.branch), HeadOf(b))
<1>1. /\ InShape /\ parent \in Workspace /\ b \in DOMAIN refs
      /\ parent' = [branch |-> b, unmerged |-> {}, merge |-> {},
                    index |-> Over(parent.index, files, HeadOf(b)), work |-> Over(parent.work, files, HeadOf(b))]
      /\ orch \in OrchCall /\ Leaves /\ UNCHANGED <<commits, refs, isolated, items>>
  BY DEF PmInv, GitBranchSwitch, InShape
<1> HIDE DEF files
<1>2. Over(parent.index, files, HeadOf(b)) \in Trees /\ Over(parent.work, files, HeadOf(b)) \in Trees
  BY <1>1, TreeTypes
<1>3. /\ parent' \in Workspace /\ parent'.branch = b /\ parent'.merge = {} /\ parent'.unmerged = {}
  BY <1>1, <1>2 DEF Workspace
<1>4. /\ orch' \in OrchCall
      /\ orch'.phase = orch.phase /\ orch'.target = orch.target /\ orch'.n = orch.n
      /\ orch'.at = orch.at /\ orch'.stop = orch.stop /\ orch.moved \subseteq orch'.moved
      /\ orch.phase = "merging" => orch.at \in orch'.moved
  BY <1>1, LeavesIs
<1>5. InShape'
  BY <1>1, <1>3, <1>4 DEF InShape
<1>6. OnTarget'
  BY <1>4 DEF OnTarget
<1> QED BY <1>1, <1>3, <1>4, <1>5, <1>6, UserStep

-----------------------------------------------------------------------------
(* The call. *)
LEMMA KnownIs ==
  ASSUME InShape, NEW s, NEW item \in ItemState, Known(s, item)
  PROVE  /\ DOMAIN items' = DOMAIN items \cup {s} /\ items'[s] = item /\ items' \in [DOMAIN items' -> ItemState]
         /\ \A t \in DOMAIN items : t # s => items'[t] = items[t]
BY DEF InShape, Known

LEMMA CleanUpIs ==
  ASSUME InShape, NEW S, CleanUp(S)
  PROVE  /\ DOMAIN isolated' \subseteq DOMAIN isolated /\ DOMAIN isolated \ S \subseteq DOMAIN isolated'
         /\ isolated' \in [DOMAIN isolated' -> Worktree]
         /\ \A t \in DOMAIN isolated' : isolated'[t] = isolated[t]
<1>1. PICK gone \in SUBSET S : isolated' = [s \in DOMAIN isolated \ gone |-> isolated[s]]
  BY DEF CleanUp
<1>2. /\ DOMAIN isolated' = DOMAIN isolated \ gone
      /\ \A t \in DOMAIN isolated' : isolated'[t] = isolated[t]
  BY <1>1
<1>3. isolated' \in [DOMAIN isolated' -> Worktree]
  BY <1>1, <1>2 DEF InShape
<1> QED BY <1>2, <1>3

(* The next subtask, or the next phase of the call. *)
LEMMA NextItem ==
  ASSUME orch \in OrchCall, NEW phase \in {"work", "merge"},
         orch' = IF orch.at = orch.n THEN [orch EXCEPT !.phase = phase, !.at = 1] ELSE [orch EXCEPT !.at = @ + 1]
  PROVE  /\ orch' \in OrchCall /\ orch'.target = orch.target /\ orch'.n = orch.n /\ orch'.stop = orch.stop
         /\ orch'.moved = orch.moved
         /\ \/ orch'.phase = phase /\ orch'.at = 1 /\ orch.at = orch.n
            \/ orch'.phase = orch.phase /\ orch'.at = orch.at + 1 /\ orch.at # orch.n
<1>1. orch.at + 1 \in Nat /\ 1 \in Nat
  BY DEF OrchCall
<1>2. CASE orch.at = orch.n
  <2>1. orch' = [orch EXCEPT !.phase = phase, !.at = 1]
    BY <1>2
  <2> QED BY <1>1, <1>2, <2>1 DEF OrchCall
<1>3. CASE orch.at # orch.n
  <2>1. orch' = [orch EXCEPT !.at = orch.at + 1]
    BY <1>3
  <2> QED BY <1>1, <1>3, <2>1 DEF OrchCall
<1> QED BY <1>2, <1>3

LEMMA StepRun ==
  ASSUME PmInv, NEW n \in Subtasks, RunParallel(n)
  PROVE  PmInv'
<1>1. /\ InShape /\ Progress /\ parent.branch \in DOMAIN refs /\ orch.phase = "idle" /\ DOMAIN items = {} /\ orch \in OrchCall
      /\ orch' = [phase |-> "create", target |-> parent.branch, n |-> n, at |-> 1, stop |-> "no", moved |-> {}]
      /\ UNCHANGED <<commits, refs, parent, isolated, items>> /\ n \in 1..MaxSubtasks
  BY DEF PmInv, RunParallel, Phase, InShape, Subtasks
<1>2. DOMAIN isolated = {} /\ parent.merge = {}
  BY <1>1 DEF Progress, PmInv, MergeOpen
<1>3. /\ orch' \in OrchCall /\ orch'.target = parent.branch /\ orch'.phase = "create" /\ orch'.n = n /\ orch'.at = 1 /\ orch'.stop = "no"
  BY <1>1, ParallelAssumption DEF OrchCall, InShape
<1>4. InShape'
  BY <1>1, <1>3 DEF InShape
<1>5. Progress'
  BY <1>1, <1>2, <1>3, ParallelAssumption DEF Progress, InMerge
<1>6. WorkKept' /\ OnTarget' /\ Settled' /\ MergeOpen'
  BY <1>1, <1>2, <1>3 DEF WorkKept, OnTarget, Settled, MergeOpen, InMerge
<1> QED BY <1>4, <1>5, <1>6 DEF PmInv

LEMMA StepCreate ==
  ASSUME PmInv, CreateWorktree
  PROVE  PmInv'
<1>1. /\ InShape /\ Progress /\ orch \in OrchCall /\ orch.phase = "create" /\ UNCHANGED <<commits, refs, parent, items>>
      /\ DOMAIN items = {} /\ DOMAIN isolated = 1..orch.at-1 /\ orch.at \in 1..orch.n /\ orch.stop = "no" /\ orch.n \in Nat
      /\ parent.merge = {}
  BY ParallelAssumption DEF PmInv, CreateWorktree, Phase, InShape, Progress, OrchCall, MergeOpen
<1> DEFINE new == [tip |-> refs[parent.branch], work |-> HeadOf(parent.branch), busy |-> TRUE]
<1>2. CASE /\ isolated' = [s \in DOMAIN isolated \cup {orch.at} |-> IF s = orch.at THEN new ELSE isolated[s]]
           /\ orch' = IF orch.at = orch.n THEN [orch EXCEPT !.phase = "work", !.at = 1] ELSE [orch EXCEPT !.at = @ + 1]
  <2>1. new \in Worktree /\ new.tip \in 1..Len(commits)
    BY <1>1, TreeTypes DEF InShape, Worktree
  <2> HIDE DEF new
  <2>2. /\ DOMAIN isolated' = DOMAIN isolated \cup {orch.at} /\ isolated' \in [DOMAIN isolated' -> Worktree]
        /\ \A s \in DOMAIN isolated' : isolated'[s].tip \in 1..Len(commits)
    BY <1>1, <1>2, <2>1 DEF InShape
  <2>3. DOMAIN isolated' = 1..orch.at
    BY <1>1, <2>2
  <2>4. /\ orch' \in OrchCall /\ orch'.target = orch.target /\ orch'.n = orch.n /\ orch'.stop = orch.stop
        /\ \/ orch'.phase = "work" /\ orch'.at = 1 /\ orch.at = orch.n
           \/ orch'.phase = "create" /\ orch'.at = orch.at + 1 /\ orch.at # orch.n
    BY <1>1, <1>2, NextItem
  <2>5. InShape'
    BY <1>1, <2>2, <2>4 DEF InShape
  <2>6. Progress'
    <3>1. CASE orch'.phase = "work" /\ orch'.at = 1 /\ orch.at = orch.n
      BY <1>1, <2>3, <2>4, <3>1 DEF Progress, InMerge
    <3>2. CASE orch'.phase = "create" /\ orch'.at = orch.at + 1 /\ orch.at # orch.n
      <4>1. orch'.at \in 1..orch.n /\ 1..orch'.at-1 = 1..orch.at /\ 1..orch.at \subseteq 1..orch.n /\ orch'.at \in 0..orch.n+1
        BY <1>1, <3>2
      <4> QED BY <1>1, <2>3, <2>4, <3>2, <4>1 DEF Progress
    <3> QED BY <2>4, <3>1, <3>2
  <2>7. WorkKept' /\ OnTarget' /\ Settled' /\ MergeOpen'
    BY <1>1, <2>4 DEF WorkKept, OnTarget, Settled, MergeOpen, InMerge
  <2> QED BY <2>5, <2>6, <2>7 DEF PmInv
<1>3. CASE CleanUp(DOMAIN isolated) /\ Goto("failed")
  <2>1. /\ DOMAIN isolated' \subseteq DOMAIN isolated /\ isolated' \in [DOMAIN isolated' -> Worktree]
        /\ \A t \in DOMAIN isolated' : isolated'[t] = isolated[t]
    BY <1>1, <1>3, CleanUpIs
  <2>2. /\ orch' \in OrchCall /\ orch'.target = orch.target /\ orch'.n = orch.n /\ orch'.stop = orch.stop
        /\ orch'.phase = "failed" /\ orch'.at = orch.at
    BY <1>1, <1>3 DEF OrchCall, Goto
  <2>3. InShape'
    BY <1>1, <2>1, <2>2 DEF InShape
  <2>4. Progress' /\ WorkKept' /\ OnTarget' /\ Settled' /\ MergeOpen'
    BY <1>1, <2>1, <2>2 DEF Progress, WorkKept, OnTarget, Settled, MergeOpen, InMerge
  <2> QED BY <2>3, <2>4 DEF PmInv
<1> QED BY <1>2, <1>3 DEF CreateWorktree

(* A subtask works in its own worktree: its branch goes forward. *)
LEMMA WorktreeStep ==
  ASSUME PmInv, UNCHANGED <<refs, parent, orch, items>>, InShape',
         DOMAIN isolated' = DOMAIN isolated,
         \A c \in 1..Len(commits) : Anc(commits', c) = Anc(commits, c),
         \A s \in DOMAIN isolated : Anc(commits, isolated[s].tip) \subseteq Anc(commits', isolated'[s].tip)
  PROVE  PmInv'
<1>1. \A b \in DOMAIN refs : refs[b] \in 1..Len(commits)
  BY DEF PmInv, InShape
<1>2. WorkKept'
  <2> SUFFICES ASSUME NEW s \in DOMAIN items
               PROVE  /\ items[s].merge = "clean" => InSome(commits', refs, items[s].tip)
                      /\ items[s].merge = "clean" /\ s \notin orch.moved =>
                           items[s].tip \in Anc(commits', refs[orch.target])
                      /\ items[s].committed /\ items[s].merge # "clean" =>
                           s \in DOMAIN isolated' /\ items[s].tip \in Anc(commits', isolated'[s].tip)
    BY DEF WorkKept
  <2>1. items[s].merge = "clean" => InSome(commits', refs, items[s].tip)
    BY <1>1 DEF PmInv, WorkKept, InSome
  <2> QED BY <1>1, <2>1 DEF PmInv, WorkKept, InShape
<1>3. Progress' /\ OnTarget' /\ Settled' /\ MergeOpen'
  BY DEF PmInv, Progress, OnTarget, Settled, MergeOpen
<1> QED BY <1>2, <1>3 DEF PmInv

LEMMA IsolatedCommit ==
  ASSUME InShape, NEW s \in DOMAIN isolated, CommitsIsolated(s)
  PROVE  /\ Numbered(commits') /\ Len(commits') = Len(commits) + 1 /\ Len(commits) \in Nat
         /\ Len(commits) + 1 \in Anc(commits', Len(commits) + 1)
         /\ \A c \in 1..Len(commits) : Anc(commits', c) = Anc(commits, c)
         /\ DOMAIN isolated' = DOMAIN isolated /\ isolated' \in [DOMAIN isolated' -> Worktree]
         /\ isolated'[s].tip = Len(commits) + 1
         /\ \A t \in DOMAIN isolated : t # s => isolated'[t] = isolated[t]
         /\ \A t \in DOMAIN isolated : /\ isolated'[t].tip \in 1..Len(commits')
                                       /\ Anc(commits, isolated[t].tip) \subseteq Anc(commits', isolated'[t].tip)
<1>1. /\ isolated \in [DOMAIN isolated -> Worktree] /\ isolated[s].work \in Trees /\ isolated[s].tip \in 1..Len(commits)
      /\ NewCommit(isolated[s].work, {isolated[s].tip}) /\ isolated' = [isolated EXCEPT ![s].tip = Len(commits) + 1]
      /\ \A t \in DOMAIN isolated : isolated[t].tip \in 1..Len(commits)
  BY DEF CommitsIsolated, InShape, Worktree
<1>2. /\ Numbered(commits') /\ Len(commits') = Len(commits) + 1 /\ Len(commits) \in Nat
      /\ Len(commits) + 1 \in Anc(commits', Len(commits) + 1)
      /\ Anc(commits, isolated[s].tip) \subseteq Anc(commits', Len(commits) + 1)
      /\ \A c \in 1..Len(commits) : Anc(commits', c) = Anc(commits, c)
  BY <1>1, CommitMade
<1>3. /\ DOMAIN isolated' = DOMAIN isolated /\ isolated'[s] = [isolated[s] EXCEPT !.tip = Len(commits) + 1]
      /\ \A t \in DOMAIN isolated : t # s => isolated'[t] = isolated[t]
  BY <1>1
<1>4. isolated'[s] \in Worktree /\ isolated'[s].tip = Len(commits) + 1
  BY <1>1, <1>2, <1>3 DEF Worktree
<1>5. isolated' \in [DOMAIN isolated' -> Worktree]
  BY <1>1, <1>3, <1>4
<1>6. ASSUME NEW t \in DOMAIN isolated
      PROVE  isolated'[t].tip \in 1..Len(commits') /\ Anc(commits, isolated[t].tip) \subseteq Anc(commits', isolated'[t].tip)
  <2>1. CASE t = s
    BY <1>2, <1>4, <2>1
  <2>2. CASE t # s
    BY <1>1, <1>2, <1>3, <2>2
  <2> QED BY <2>1, <2>2
<1> QED BY <1>2, <1>3, <1>4, <1>5, <1>6

(* A longer history, with what else was there. *)
LEMMA LongerShape ==
  ASSUME InShape, Numbered(commits'), Len(commits') = Len(commits) + 1, Len(commits) \in Nat
  PROVE  /\ 1..Len(commits) \subseteq 1..Len(commits')
         /\ UNCHANGED refs => refs' \in [DOMAIN refs' -> 1..Len(commits')]
         /\ UNCHANGED parent => parent'.merge \subseteq 1..Len(commits')
<1>1. 1..Len(commits) \subseteq 1..Len(commits')
  OBVIOUS
<1> QED BY <1>1 DEF InShape

LEMMA StepSubtaskCommits ==
  ASSUME PmInv, NEW s \in DOMAIN isolated, SubtaskCommits(s)
  PROVE  PmInv'
<1>1. InShape /\ CommitsIsolated(s) /\ UNCHANGED <<refs, parent, orch, items>>
  BY DEF PmInv, SubtaskCommits
<1>2. /\ Numbered(commits') /\ Len(commits') = Len(commits) + 1 /\ Len(commits) \in Nat
      /\ \A c \in 1..Len(commits) : Anc(commits', c) = Anc(commits, c)
      /\ DOMAIN isolated' = DOMAIN isolated /\ isolated' \in [DOMAIN isolated' -> Worktree]
      /\ \A t \in DOMAIN isolated : /\ isolated'[t].tip \in 1..Len(commits')
                                    /\ Anc(commits, isolated[t].tip) \subseteq Anc(commits', isolated'[t].tip)
  BY <1>1, IsolatedCommit
<1>3. refs' \in [DOMAIN refs' -> 1..Len(commits')] /\ parent'.merge \subseteq 1..Len(commits')
  BY <1>1, <1>2, LongerShape
<1>4. InShape'
  BY <1>1, <1>2, <1>3 DEF InShape
<1> QED BY <1>1, <1>2, <1>4, WorktreeStep

LEMMA StepSubtask ==
  ASSUME PmInv, NEW s \in DOMAIN isolated,
         SubtaskEnds(s) \/ \E f \in GitFiles, text \in Contents : SubtaskEdits(s, f, text)
  PROVE  PmInv'
<1>1. InShape /\ isolated \in [DOMAIN isolated -> Worktree] /\ isolated[s] \in Worktree
       /\ UNCHANGED <<commits, refs, parent, orch, items>>
  BY DEF PmInv, InShape, SubtaskEnds, SubtaskEdits
<1>2. PICK new \in Worktree : new.tip = isolated[s].tip /\ isolated' = [isolated EXCEPT ![s] = new]
  <2>1. CASE SubtaskEnds(s)
    <3> DEFINE new == [isolated[s] EXCEPT !.busy = FALSE]
    <3>1. new \in Worktree /\ new.tip = isolated[s].tip
      BY <1>1 DEF Worktree
    <3>2. isolated' = [isolated EXCEPT ![s] = new]
      BY <2>1 DEF SubtaskEnds
    <3> QED BY <3>1, <3>2
  <2>2. ASSUME NEW f \in GitFiles, NEW text \in Contents, SubtaskEdits(s, f, text)
        PROVE  \E new \in Worktree : new.tip = isolated[s].tip /\ isolated' = [isolated EXCEPT ![s] = new]
    <3> DEFINE work == [isolated[s].work EXCEPT ![f] = text]
               new  == [isolated[s] EXCEPT !.work = work]
    <3>1. work \in Trees
      BY <1>1 DEF Worktree, Trees
    <3>2. isolated' = [isolated EXCEPT ![s] = new]
      BY <2>2 DEF SubtaskEdits
    <3> HIDE DEF work
    <3>3. new \in Worktree /\ new.tip = isolated[s].tip
      BY <1>1, <3>1 DEF Worktree
    <3> QED BY <3>2, <3>3
  <2> QED BY <2>1, <2>2
<1>3. /\ DOMAIN isolated' = DOMAIN isolated /\ isolated' \in [DOMAIN isolated' -> Worktree]
      /\ \A t \in DOMAIN isolated : isolated'[t].tip = isolated[t].tip
  BY <1>1, <1>2
<1>4. InShape'
  BY <1>1, <1>3 DEF InShape
<1>5. \A t \in DOMAIN isolated : Anc(commits, isolated[t].tip) \subseteq Anc(commits', isolated'[t].tip)
  BY <1>1, <1>3
<1> QED BY <1>1, <1>3, <1>4, <1>5, WorktreeStep

LEMMA StepCommitAll ==
  ASSUME PmInv, CommitAll
  PROVE  PmInv'
<1> DEFINE s == orch.at
<1>1. /\ InShape /\ Progress /\ orch \in OrchCall /\ orch.phase = "work" /\ UNCHANGED <<refs, parent>>
      /\ DOMAIN isolated = 1..orch.n /\ DOMAIN items = 1..s-1 /\ s \in 1..orch.n /\ s \in DOMAIN isolated
      /\ orch.stop = "no" /\ orch.n \in Nat
      /\ orch' = IF s = orch.n THEN [orch EXCEPT !.phase = "merge", !.at = 1] ELSE [orch EXCEPT !.at = @ + 1]
      /\ \/ CommitsIsolated(s) /\ Known(s, [Item EXCEPT !.committed = TRUE, !.tip = Len(commits) + 1])
         \/ Known(s, Item) /\ UNCHANGED <<commits, isolated>>
  BY ParallelAssumption DEF PmInv, CommitAll, Phase, InShape, Progress, OrchCall
<1> HIDE DEF s
<1>2. PICK item \in ItemState :
        /\ Known(s, item) /\ item.merge = "none" /\ ~item.retained
        /\ \/ ~item.committed /\ UNCHANGED <<commits, isolated>>
           \/ CommitsIsolated(s) /\ item.committed /\ item.tip = Len(commits) + 1
  <2>1. Item \in ItemState /\ Item.merge = "none" /\ ~Item.retained /\ ~Item.committed
    BY DEF Item, ItemState
  <2> DEFINE item == [Item EXCEPT !.committed = TRUE, !.tip = Len(commits) + 1]
  <2>2. Len(commits) + 1 \in Nat
    BY <1>1, TreeTypes
  <2>3. /\ item \in ItemState /\ item.merge = "none" /\ ~item.retained
        /\ item.committed /\ item.tip = Len(commits) + 1
    BY <2>1, <2>2 DEF ItemState
  <2>4. \/ CommitsIsolated(s) /\ Known(s, item)
        \/ Known(s, Item) /\ UNCHANGED <<commits, isolated>>
    BY <1>1
  <2> HIDE DEF item
  <2> QED BY <2>1, <2>3, <2>4
<1>3. /\ Numbered(commits') /\ 1..Len(commits) \subseteq 1..Len(commits')
      /\ \A c \in 1..Len(commits) : Anc(commits', c) = Anc(commits, c)
      /\ DOMAIN isolated' = DOMAIN isolated /\ isolated' \in [DOMAIN isolated' -> Worktree]
      /\ \A t \in DOMAIN isolated : /\ isolated'[t].tip \in 1..Len(commits')
                                    /\ Anc(commits, isolated[t].tip) \subseteq Anc(commits', isolated'[t].tip)
      /\ item.committed => item.tip \in Anc(commits', isolated'[s].tip)
  <2>1. CASE ~item.committed /\ UNCHANGED <<commits, isolated>>
    BY <1>1, <2>1 DEF InShape
  <2>2. CASE CommitsIsolated(s) /\ item.tip = Len(commits) + 1
    <3>1. /\ Numbered(commits') /\ Len(commits') = Len(commits) + 1 /\ Len(commits) \in Nat
          /\ Len(commits) + 1 \in Anc(commits', Len(commits) + 1)
          /\ \A c \in 1..Len(commits) : Anc(commits', c) = Anc(commits, c)
          /\ DOMAIN isolated' = DOMAIN isolated /\ isolated' \in [DOMAIN isolated' -> Worktree]
          /\ isolated'[s].tip = Len(commits) + 1
          /\ \A t \in DOMAIN isolated : /\ isolated'[t].tip \in 1..Len(commits')
                                        /\ Anc(commits, isolated[t].tip) \subseteq Anc(commits', isolated'[t].tip)
      BY <1>1, <2>2, IsolatedCommit
    <3>2. 1..Len(commits) \subseteq 1..Len(commits')
      BY <3>1
    <3> QED BY <2>2, <3>1, <3>2
  <2> QED BY <1>2, <2>1, <2>2
<1>4. /\ DOMAIN items' = DOMAIN items \cup {s} /\ items'[s] = item /\ items' \in [DOMAIN items' -> ItemState]
      /\ \A t \in DOMAIN items : t # s => items'[t] = items[t]
  BY <1>1, <1>2, KnownIs
<1>5. /\ orch' \in OrchCall /\ orch'.target = orch.target /\ orch'.n = orch.n /\ orch'.stop = orch.stop
      /\ \/ orch'.phase = "merge" /\ orch'.at = 1 /\ s = orch.n
         \/ orch'.phase = "work" /\ orch'.at = s + 1 /\ s # orch.n
  BY <1>1, NextItem DEF s
<1>6. InShape'
  BY <1>1, <1>3, <1>4, <1>5 DEF InShape
<1>7. DOMAIN items' = 1..s /\ s \in Nat /\ \A t \in DOMAIN items : t # s
  BY <1>1, <1>4
<1>8. Progress'
  <2>1. CASE orch'.phase = "merge" /\ orch'.at = 1 /\ s = orch.n
    BY <1>1, <1>3, <1>5, <1>7, <2>1 DEF Progress, InMerge
  <2>2. CASE orch'.phase = "work" /\ orch'.at = s + 1 /\ s # orch.n
    <3>1. orch'.at \in 1..orch.n /\ 1..orch'.at-1 = 1..s /\ orch'.at \in 0..orch.n+1
      BY <1>1, <2>2
    <3> QED BY <1>1, <1>3, <1>5, <1>7, <2>2, <3>1 DEF Progress
  <2> QED BY <1>5, <2>1, <2>2
<1>9. WorkKept'
  <2> SUFFICES ASSUME NEW t \in DOMAIN items'
               PROVE  /\ items'[t].merge = "clean" => InSome(commits', refs, items'[t].tip)
                      /\ items'[t].merge = "clean" /\ t \notin orch'.moved =>
                           items'[t].tip \in Anc(commits', refs[orch.target])
                      /\ items'[t].committed /\ items'[t].merge # "clean" =>
                           t \in DOMAIN isolated' /\ items'[t].tip \in Anc(commits', isolated'[t].tip)
    BY <1>1, <1>5 DEF WorkKept
  <2>1. CASE t = s
    BY <1>1, <1>2, <1>3, <1>4, <2>1
  <2>2. CASE t # s
    <3>1. t \in DOMAIN items /\ items'[t] = items[t] /\ items[t].merge = "none"
      BY <1>1, <1>4, <2>2 DEF PmInv, Settled
    <3> QED BY <1>3, <3>1 DEF PmInv, WorkKept
  <2> QED BY <2>1, <2>2
<1>10. \A t \in DOMAIN items' : items'[t].merge = "none" /\ ~items'[t].retained
  BY <1>1, <1>2, <1>4 DEF PmInv, Settled
<1>11. Settled'
  <2>1. CASE orch'.phase = "merge" /\ orch'.at = 1 /\ s = orch.n
    <3>1. \A t \in 1..orch.n : ~(t < 1) /\ t \in DOMAIN items' /\ t \in DOMAIN isolated'
      BY <1>1, <1>3, <1>7, <2>1
    <3> QED BY <1>5, <1>10, <2>1, <3>1 DEF Settled
  <2>2. CASE orch'.phase = "work" /\ orch'.at = s + 1 /\ s # orch.n
    BY <1>10, <2>2 DEF Settled, InMerge
  <2> QED BY <1>5, <2>1, <2>2
<1>12. MergeOpen' /\ OnTarget'
  BY <1>1, <1>5 DEF PmInv, MergeOpen, OnTarget
<1> QED BY <1>6, <1>8, <1>9, <1>11, <1>12 DEF PmInv

-----------------------------------------------------------------------------
(* The merges.  One more subtask is dealt with: what it committed is in the *)
(* target branch, or its worktree stays.                                    *)
DealtWith(item) ==
  /\ item.committed = items[Current].committed /\ item.tip = items[Current].tip
  /\ item.retained => Current \in DOMAIN isolated'
  /\ item.committed => item.merge = "clean" \/ item.retained
  /\ item.merge = "clean" => InSome(commits', refs', item.tip)
  /\ item.merge = "clean" /\ Current \notin orch.moved => item.tip \in Anc(commits', refs'[orch.target])

Onward ==
  /\ Numbered(commits') /\ 1..Len(commits) \subseteq 1..Len(commits')
  /\ \A c \in 1..Len(commits) : Anc(commits', c) = Anc(commits, c)
  /\ refs' \in [DOMAIN refs' -> 1..Len(commits')] /\ DOMAIN refs' = DOMAIN refs
  /\ \A b \in DOMAIN refs : Anc(commits, refs[b]) \subseteq Anc(commits', refs'[b])
  /\ parent' \in Workspace /\ parent'.branch = parent.branch /\ parent'.merge \subseteq 1..Len(commits)
  /\ parent'.merge = {} => parent'.unmerged = {}

AtMostDropped ==
  /\ isolated' \in [DOMAIN isolated' -> Worktree]
  /\ DOMAIN isolated' \subseteq DOMAIN isolated /\ DOMAIN isolated \ {Current} \subseteq DOMAIN isolated'
  /\ \A t \in DOMAIN isolated' : isolated'[t] = isolated[t]

LEMMA Stays ==
  ASSUME InShape
  PROVE  /\ UNCHANGED <<commits, refs, parent>> => Onward
         /\ UNCHANGED isolated => AtMostDropped
         /\ CleanUp({Current}) => AtMostDropped
<1>1. UNCHANGED <<commits, refs, parent>> => Onward
  BY DEF InShape, Onward
<1>2. UNCHANGED isolated => AtMostDropped
  BY DEF InShape, AtMostDropped
<1>3. CleanUp({Current}) => AtMostDropped
  BY CleanUpIs DEF AtMostDropped
<1> QED BY <1>1, <1>2, <1>3

LEMMA SettleStep ==
  ASSUME PmInv, orch.phase \in {"merge"} \cup InMerge, Current \in 1..orch.n,
         NEW item \in ItemState, NEW how \in {"no", "conflict", "error"}, Settle(item, how),
         Onward, AtMostDropped, DealtWith(item),
         parent'.merge # {} => how = "error" \/ (how = "no" /\ orch.stop = "error")
  PROVE  PmInv'
<1> DEFINE s == Current
<1>1. /\ InShape /\ Progress /\ orch \in OrchCall /\ orch.target \in DOMAIN refs /\ orch.n \in Nat /\ s = orch.at
      /\ DOMAIN items = 1..orch.n /\ s \in DOMAIN items /\ s \in 1..orch.n /\ DOMAIN isolated \subseteq 1..orch.n
      /\ orch' = [orch EXCEPT !.phase = "merge", !.at = orch.at + 1, !.stop = IF how = "no" THEN orch.stop ELSE how]
      /\ Known(s, item)
  BY ParallelAssumption DEF PmInv, InShape, Progress, Settle, OrchCall, Current, InMerge
<1>2. /\ s \in DOMAIN isolated /\ items[s].merge = "none"
      /\ items[s].committed => items[s].tip \in Anc(commits, isolated[s].tip)
  BY <1>1 DEF PmInv, Settled, WorkKept
<1>3. /\ orch' \in OrchCall /\ orch'.target = orch.target /\ orch'.n = orch.n /\ orch'.phase = "merge" /\ orch'.at = s + 1
      /\ orch'.stop = (IF how = "no" THEN orch.stop ELSE how) /\ orch'.moved = orch.moved
  <2>1. s + 1 \in Nat /\ (IF how = "no" THEN orch.stop ELSE how) \in {"no", "conflict", "error"}
    BY <1>1 DEF OrchCall
  <2> QED BY <1>1, <2>1 DEF OrchCall
<1>4. /\ DOMAIN items' = 1..orch.n /\ items'[s] = item /\ items' \in [DOMAIN items' -> ItemState]
      /\ \A t \in DOMAIN items : t # s => items'[t] = items[t]
  <2>1. /\ DOMAIN items' = DOMAIN items \cup {s} /\ items'[s] = item /\ items' \in [DOMAIN items' -> ItemState]
        /\ \A t \in DOMAIN items : t # s => items'[t] = items[t]
    BY <1>1, KnownIs
  <2> QED BY <1>1, <2>1
<1> HIDE DEF s
<1>5. \A t \in DOMAIN isolated' : isolated'[t].tip \in 1..Len(commits) /\ Anc(commits', isolated'[t].tip) = Anc(commits, isolated[t].tip)
  BY <1>1 DEF AtMostDropped, Onward, InShape
<1>6. InShape'
  <2>1. /\ isolated' \in [DOMAIN isolated' -> Worktree] /\ \A t \in DOMAIN isolated' : isolated'[t].tip \in 1..Len(commits')
    BY <1>5 DEF AtMostDropped, Onward
  <2>2. parent'.merge \subseteq 1..Len(commits') /\ parent'.branch \in DOMAIN refs' /\ DOMAIN refs' \subseteq Branches \cup {Detached}
    BY <1>1 DEF Onward, InShape
  <2> QED BY <1>1, <1>3, <1>4, <2>1, <2>2 DEF InShape, Onward
<1>7. Progress'
  <2>1. s + 1 \in 1..orch.n + 1 /\ s + 1 \in 0..orch.n + 1
    BY <1>1
  <2>2. DOMAIN isolated' \subseteq 1..orch.n
    BY <1>1 DEF AtMostDropped
  <2> QED BY <1>3, <1>4, <2>1, <2>2 DEF Progress, InMerge
<1>8. WorkKept'
  <2> SUFFICES ASSUME NEW t \in DOMAIN items'
               PROVE  /\ items'[t].merge = "clean" => InSome(commits', refs', items'[t].tip)
                      /\ items'[t].merge = "clean" /\ t \notin orch'.moved =>
                           items'[t].tip \in Anc(commits', refs'[orch.target])
                      /\ items'[t].committed /\ items'[t].merge # "clean" =>
                           t \in DOMAIN isolated' /\ items'[t].tip \in Anc(commits', isolated'[t].tip)
    BY <1>3 DEF WorkKept
  <2>1. CASE t = s
    BY <1>2, <1>3, <1>4, <1>5, <2>1 DEF DealtWith, s
  <2>2. CASE t # s
    <3>1. t \in DOMAIN items /\ items'[t] = items[t]
      BY <1>1, <1>4, <2>2
    <3>2. Anc(commits, refs[orch.target]) \subseteq Anc(commits', refs'[orch.target])
      BY <1>1 DEF Onward
    <3>3. t \in DOMAIN isolated => t \in DOMAIN isolated'
      BY <2>2 DEF AtMostDropped, s
    <3>4. items[t].merge = "clean" => InSome(commits', refs', items[t].tip)
      BY <3>1 DEF PmInv, WorkKept, InSome, Onward
    <3> QED BY <1>3, <1>5, <3>1, <3>2, <3>3, <3>4 DEF PmInv, WorkKept
  <2> QED BY <2>1, <2>2
<1>9. Settled'
  <2>1. ASSUME NEW t \in 1..orch.n
        PROVE  /\ t < s + 1 => (items'[t].retained => t \in DOMAIN isolated')
                               /\ (items'[t].committed => items'[t].merge = "clean" \/ items'[t].retained)
               /\ t >= s + 1 => t \in DOMAIN isolated' /\ ~items'[t].retained /\ items'[t].merge = "none"
    <3>1. CASE t = s
      <4>1. ~(t >= s + 1)
        BY <1>1, <3>1
      <4> QED BY <1>4, <3>1, <4>1 DEF DealtWith, s
    <3>2. CASE t # s
      <4>1. items'[t] = items[t] /\ (t \in DOMAIN isolated <=> t \in DOMAIN isolated')
        BY <1>1, <1>4, <3>2 DEF AtMostDropped, s
      <4>2. (t < s + 1 => t < orch.at) /\ (t >= s + 1 => t >= orch.at)
        BY <1>1, <3>2
      <4> QED BY <1>1, <4>1, <4>2 DEF PmInv, Settled
    <3> QED BY <3>1, <3>2
  <2> QED BY <1>3, <2>1 DEF Settled
<1>10. MergeOpen' /\ OnTarget'
  BY <1>3 DEF MergeOpen, OnTarget
<1> QED BY <1>6, <1>7, <1>8, <1>9, <1>10 DEF PmInv

(* The item of the subtask that is dealt with. *)
LEMMA CurrentItem ==
  ASSUME PmInv, orch.phase \in InMerge \/ (orch.phase = "merge" /\ Current <= orch.n)
  PROVE  /\ InShape /\ orch.phase \in {"merge"} \cup InMerge /\ Current \in 1..orch.n /\ Current \in DOMAIN isolated
         /\ items[Current] \in ItemState /\ ~items[Current].retained /\ items[Current].merge = "none"
         /\ orch.target \in DOMAIN refs /\ (orch.phase \in InMerge => items[Current].committed)
         /\ items[Current].committed => items[Current].tip \in Anc(commits, isolated[Current].tip)
         /\ parent.merge # {} /\ orch.phase \in {"merge", "merging"} => orch.stop = "error"
<1>1. /\ InShape /\ Progress /\ orch.n \in Nat /\ orch.target \in DOMAIN refs /\ items \in [DOMAIN items -> ItemState]
  BY ParallelAssumption DEF PmInv, InShape, OrchCall
<1>2. Current \in 1..orch.n /\ DOMAIN items = 1..orch.n /\ Current = orch.at
  BY <1>1 DEF Progress, Current
<1> QED BY <1>1, <1>2 DEF PmInv, Settled, WorkKept, MergeOpen, Progress, InMerge

LEMMA StepDrop ==
  ASSUME PmInv, DropUnchanged
  PROVE  PmInv'
<1>1. /\ orch.phase = "merge" /\ Current <= orch.n /\ ~items[Current].committed
      /\ CleanUp({Current}) /\ Settle(items[Current], "no") /\ UNCHANGED <<commits, refs, parent>>
  BY DEF DropUnchanged, Merging, Phase
<1>2. /\ InShape /\ Current \in 1..orch.n /\ items[Current] \in ItemState
      /\ ~items[Current].retained /\ items[Current].merge = "none"
      /\ parent.merge # {} => orch.stop = "error"
  BY <1>1, CurrentItem
<1>3. Onward /\ AtMostDropped
  BY <1>1, <1>2, Stays
<1>4. DealtWith(items[Current])
  BY <1>1, <1>2, <1>3 DEF DealtWith
<1> QED BY <1>1, <1>2, <1>3, <1>4, SettleStep

(* The branch of the subtask stays. *)
LEMMA StepRetain ==
  ASSUME PmInv, orch.phase \in InMerge \/ (orch.phase = "merge" /\ Current <= orch.n),
         NEW merge \in {"none", "conflict"}, NEW how \in {"no", "conflict", "error"},
         Settle([items[Current] EXCEPT !.merge = merge, !.retained = TRUE], how), Onward, UNCHANGED isolated,
         parent'.merge # {} => how = "error" \/ (how = "no" /\ orch.stop = "error")
  PROVE  PmInv'
<1> DEFINE item == [items[Current] EXCEPT !.merge = merge, !.retained = TRUE]
<1>1. /\ InShape /\ orch.phase \in {"merge"} \cup InMerge /\ Current \in 1..orch.n /\ Current \in DOMAIN isolated
      /\ items[Current] \in ItemState
  BY CurrentItem
<1>2. /\ item \in ItemState /\ item.committed = items[Current].committed /\ item.tip = items[Current].tip
      /\ item.retained /\ item.merge = merge
  BY <1>1 DEF ItemState
<1>3. Settle(item, how)
  OBVIOUS
<1> HIDE DEF item
<1>4. AtMostDropped /\ Current \in DOMAIN isolated'
  BY <1>1, Stays
<1>5. DealtWith(item)
  BY <1>2, <1>4 DEF DealtWith
<1> QED BY <1>1, <1>2, <1>3, <1>4, <1>5, SettleStep

LEMMA StepRetainAfterStop ==
  ASSUME PmInv, RetainAfterStop
  PROVE  PmInv'
<1>1. /\ orch.phase = "merge" /\ Current <= orch.n /\ UNCHANGED <<commits, refs, parent, isolated>>
      /\ Settle([items[Current] EXCEPT !.retained = TRUE], "no")
  BY DEF RetainAfterStop, Merging, Phase
<1>2. /\ InShape /\ items[Current] \in ItemState /\ items[Current].merge = "none"
      /\ parent.merge # {} => orch.stop = "error"
  BY <1>1, CurrentItem
<1>3. [items[Current] EXCEPT !.retained = TRUE] = [items[Current] EXCEPT !.merge = "none", !.retained = TRUE]
  BY <1>2 DEF ItemState
<1>4. Onward
  BY <1>1, <1>2, Stays
<1>5. Settle([items[Current] EXCEPT !.merge = "none", !.retained = TRUE], "no")
  BY <1>1, <1>3
<1> QED BY <1>1, <1>2, <1>4, <1>5, StepRetain

(* Its branch stays, and the call stops with an error. *)
LEMMA StepNotMerged ==
  ASSUME PmInv, orch.phase \in InMerge \/ (orch.phase = "merge" /\ Current <= orch.n),
         NotMerged, Onward, UNCHANGED isolated
  PROVE  PmInv'
<1>1. InShape /\ items[Current] \in ItemState /\ items[Current].merge = "none"
  BY CurrentItem
<1>2. [items[Current] EXCEPT !.retained = TRUE] = [items[Current] EXCEPT !.merge = "none", !.retained = TRUE]
  BY <1>1 DEF ItemState
<1>3. Settle([items[Current] EXCEPT !.merge = "none", !.retained = TRUE], "error")
  BY <1>2 DEF NotMerged
<1> QED BY <1>3, StepRetain

(* The call goes on with the same subtask. *)
LEMMA StepPhase ==
  ASSUME PmInv, orch.phase \in InMerge \/ (orch.phase = "merge" /\ Current <= orch.n),
         NEW phase \in InMerge, orch' = [orch EXCEPT !.phase = phase],
         items[Current].committed, phase = "merging" => orch.stop = "no" /\ parent'.branch = orch.target,
         UNCHANGED <<commits, refs, isolated, items>>,
         parent' \in Workspace, parent'.branch \in DOMAIN refs, parent'.merge \subseteq 1..Len(commits),
         parent'.merge = {} => parent'.unmerged = {}, phase = "merging" => parent'.merge = {}
  PROVE  PmInv'
<1>1. /\ InShape /\ Current \in 1..orch.n /\ orch \in OrchCall /\ orch.phase \in {"merge"} \cup InMerge
      /\ Current = orch.at
  BY CurrentItem DEF InShape, Current
<1>2. /\ orch' \in OrchCall /\ orch'.phase = phase /\ orch'.target = orch.target /\ orch'.n = orch.n
      /\ orch'.at = orch.at /\ orch'.stop = orch.stop /\ orch'.moved = orch.moved
  BY <1>1 DEF OrchCall
<1>3. InShape'
  BY <1>1, <1>2 DEF InShape
<1>4. DOMAIN items = 1..orch.n /\ orch.at \in 1..orch.n + 1 /\ DOMAIN isolated \subseteq 1..orch.n /\ orch.at \in 0..orch.n + 1
  BY <1>1 DEF PmInv, Progress
<1>5. Progress'
  BY <1>1, <1>2, <1>4 DEF Progress, InMerge
<1>6. WorkKept'
  BY <1>1, <1>2 DEF PmInv, WorkKept
<1>7. OnTarget' /\ MergeOpen'
  BY <1>1, <1>2 DEF OnTarget, MergeOpen, InMerge
<1>8. Settled'
  BY <1>1, <1>2 DEF PmInv, Settled, InMerge
<1> QED BY <1>3, <1>5, <1>6, <1>7, <1>8 DEF PmInv

LEMMA StepCheck ==
  ASSUME PmInv, CheckBranch
  PROVE  PmInv'
<1>1. /\ orch.phase = "merge" /\ Current <= orch.n /\ items[Current].committed /\ orch.stop = "no"
      /\ UNCHANGED <<commits, refs, parent, isolated>>
      /\ \/ parent.branch = orch.target /\ orch' = [orch EXCEPT !.phase = "merging"] /\ UNCHANGED items
         \/ NotMerged
  BY DEF CheckBranch, ReadyToMerge, Merging, Phase, Goto
<1>2. /\ InShape /\ (parent.merge # {} => orch.stop = "error") /\ Onward
  BY <1>1, CurrentItem, Stays
<1>3. CASE NotMerged
  BY <1>1, <1>2, <1>3, StepNotMerged
<1>4. CASE parent.branch = orch.target /\ orch' = [orch EXCEPT !.phase = "merging"] /\ UNCHANGED items
  <2>1. "merging" \in InMerge
    BY DEF InMerge
  <2>2. /\ parent' \in Workspace /\ parent'.branch \in DOMAIN refs /\ parent'.merge \subseteq 1..Len(commits)
        /\ parent'.merge = {} /\ parent'.unmerged = {}
    BY <1>1, <1>2 DEF InShape
  <2> QED BY <1>1, <1>4, <2>1, <2>2, StepPhase
<1> QED BY <1>1, <1>3, <1>4

LEMMA StepClean ==
  ASSUME PmInv, MergeClean
  PROVE  PmInv'
<1> DEFINE tree == Over(Ours, Changed, Theirs)
           b    == parent.branch
           tip  == isolated[Current].tip
           item == [items[Current] EXCEPT !.merge = "clean"]
<1>1. /\ orch.phase = "merging" /\ orch.phase \in InMerge
      /\ NewCommit(tree, {refs[b], tip}) /\ refs' = [refs EXCEPT ![b] = Len(commits) + 1]
      /\ CleanUp({Current}) /\ parent' = [parent EXCEPT !.index = tree, !.work = Over(@, Changed, Theirs)]
      /\ Settle(item, "no")
  BY DEF MergeClean, Phase, InMerge
<1>2. /\ InShape /\ Current \in 1..orch.n /\ Current \in DOMAIN isolated
      /\ items[Current] \in ItemState /\ ~items[Current].retained
      /\ items[Current].tip \in Anc(commits, tip) /\ (Current \notin orch.moved => b = orch.target)
  <2>1. /\ InShape /\ Current \in 1..orch.n /\ Current \in DOMAIN isolated
        /\ items[Current] \in ItemState /\ ~items[Current].retained
        /\ items[Current].committed => items[Current].tip \in Anc(commits, tip)
        /\ orch.phase \in InMerge => items[Current].committed
    BY <1>1, CurrentItem
  <2> QED BY <1>1, <2>1 DEF PmInv, OnTarget, Current
<1>3. /\ item \in ItemState /\ item.committed = items[Current].committed /\ item.tip = items[Current].tip
      /\ ~item.retained /\ item.merge = "clean"
  BY <1>2 DEF ItemState
<1>4. /\ parent \in Workspace /\ b \in DOMAIN refs /\ tip \in 1..Len(commits) /\ refs[b] \in 1..Len(commits)
      /\ parent.merge = {}
  BY <1>1, <1>2 DEF InShape, PmInv, Progress, MergeOpen
<1>5. tree \in Trees /\ Over(parent.work, Changed, Theirs) \in Trees
  <2>1. Ours \in Trees /\ Theirs \in Trees /\ parent.work \in Trees
    BY <1>2, <1>4, TreeTypes DEF Theirs
  <2> QED BY <1>2, <2>1, TreeTypes
<1> HIDE DEF tree, b, tip, item
<1>6. /\ Numbered(commits') /\ Len(commits') = Len(commits) + 1 /\ Len(commits) \in Nat
      /\ \A p \in {refs[b], tip} : Anc(commits, p) \subseteq Anc(commits', Len(commits) + 1)
      /\ \A c \in 1..Len(commits) : Anc(commits', c) = Anc(commits, c)
  BY <1>1, <1>2, <1>4, <1>5, CommitMade
<1>7. 1..Len(commits) \subseteq 1..Len(commits') /\ Len(commits) + 1 \in 1..Len(commits')
  BY <1>6
<1>8. /\ DOMAIN refs' = DOMAIN refs /\ refs' \in [DOMAIN refs' -> 1..Len(commits')] /\ refs'[b] = Len(commits) + 1
      /\ \A c \in DOMAIN refs : c # b => refs'[c] = refs[c]
  BY <1>1, <1>2, <1>4, <1>7 DEF InShape
<1>9. parent' \in Workspace /\ parent'.branch = parent.branch /\ parent'.merge = {} /\ parent'.unmerged = {}
  <2>1. parent.unmerged = {}
    BY <1>2, <1>4 DEF InShape
  <2> QED BY <1>1, <1>4, <1>5, <2>1 DEF Workspace
<1>10. Onward
  <2>1. ASSUME NEW c \in DOMAIN refs PROVE Anc(commits, refs[c]) \subseteq Anc(commits', refs'[c])
    <3>1. CASE c = b
      BY <1>6, <1>8, <3>1
    <3>2. CASE c # b
      BY <1>2, <1>6, <1>8, <3>2 DEF InShape
    <3> QED BY <3>1, <3>2
  <2> QED BY <1>6, <1>7, <1>8, <1>9, <2>1 DEF Onward
<1>11. AtMostDropped
  BY <1>1, <1>2, Stays
<1>12. item.tip \in Anc(commits', refs'[b]) /\ b \in DOMAIN refs'
  BY <1>2, <1>3, <1>4, <1>6, <1>8
<1>13. DealtWith(item)
  BY <1>2, <1>3, <1>12 DEF DealtWith, InSome
<1> QED BY <1>1, <1>2, <1>3, <1>9, <1>10, <1>11, <1>13, SettleStep

(* A merge that stops leaves its files in the workspace. *)
LEMMA StepStops ==
  ASSUME PmInv, MergeStops
  PROVE  PmInv'
<1> DEFINE index == Over(parent.index, Changed \ Conflicts, Theirs)
           work  == Over(parent.work, Changed, Theirs)
           tip   == isolated[Current].tip
<1>1. /\ orch.phase = "merging" /\ orch.phase \in InMerge /\ "list" \in InMerge
      /\ \/ parent' = [parent EXCEPT !.index = index, !.work = work, !.unmerged = Conflicts, !.merge = {tip}]
         \/ parent' = parent
      /\ orch' = [orch EXCEPT !.phase = "list"] /\ UNCHANGED <<commits, refs, isolated, items>>
  BY DEF MergeStops, Phase, Goto, InMerge
<1>2. /\ InShape /\ Current \in 1..orch.n /\ Current \in DOMAIN isolated /\ items[Current].committed
  BY <1>1, CurrentItem
<1>3. tip \in 1..Len(commits) /\ parent \in Workspace /\ orch \in OrchCall /\ Len(commits) \in Nat
  BY <1>2, TreeTypes DEF InShape
<1>4. index \in Trees /\ work \in Trees /\ Conflicts \subseteq GitFiles
  <2>1. Theirs \in Trees /\ parent.work \in Trees /\ parent.index \in Trees
    BY <1>2, <1>3, TreeTypes DEF Theirs
  <2> QED BY <1>2, <2>1, TreeTypes DEF Conflicts, Changed, Differ
<1> HIDE DEF index, work, tip
<1>5. CASE parent' = parent
  BY <1>1, <1>2, <1>5, StepPhase DEF InShape
<1>6. CASE parent' = [parent EXCEPT !.index = index, !.work = work, !.unmerged = Conflicts, !.merge = {tip}]
  <2>1. {tip} \in SUBSET Nat /\ {tip} # {} /\ {tip} \subseteq 1..Len(commits)
    BY <1>3
  <2>2. parent' \in Workspace /\ parent'.branch = parent.branch /\ parent'.merge = {tip}
    BY <1>3, <1>4, <1>6, <2>1 DEF Workspace
  <2>3. parent'.branch \in DOMAIN refs
    BY <1>2, <2>2 DEF InShape
  <2> QED BY <1>1, <1>2, <2>1, <2>2, <2>3, StepPhase
<1> QED BY <1>1, <1>5, <1>6

LEMMA StepList ==
  ASSUME PmInv, ListUnmerged
  PROVE  PmInv'
<1>1. /\ orch.phase = "list" /\ orch.phase \in InMerge /\ "abort" \in InMerge /\ "undo" \in InMerge
      /\ UNCHANGED <<commits, refs, parent, isolated>>
      /\ \/ NotMerged
         \/ \E phase \in {"abort", "undo"} : orch' = [orch EXCEPT !.phase = phase] /\ UNCHANGED items
  BY DEF ListUnmerged, Phase, Goto, InMerge
<1>2. InShape /\ items[Current].committed /\ Onward
  BY <1>1, CurrentItem, Stays
<1>3. CASE NotMerged
  BY <1>1, <1>2, <1>3, StepNotMerged
<1>4. CASE \E phase \in {"abort", "undo"} : orch' = [orch EXCEPT !.phase = phase] /\ UNCHANGED items
  <2>1. PICK phase \in {"abort", "undo"} : orch' = [orch EXCEPT !.phase = phase] /\ UNCHANGED items
    BY <1>4
  <2>2. /\ parent' \in Workspace /\ parent'.branch \in DOMAIN refs /\ parent'.merge \subseteq 1..Len(commits)
        /\ parent'.merge = {} => parent'.unmerged = {}
    BY <1>1, <1>2 DEF InShape
  <2>3. phase \in InMerge /\ phase # "merging"
    BY <1>1
  <2> QED BY <1>1, <1>2, <2>1, <2>2, <2>3, StepPhase
<1> QED BY <1>1, <1>3, <1>4

LEMMA AbortedIs ==
  ASSUME InShape, Aborted, UNCHANGED <<commits, refs>>
  PROVE  Onward /\ parent'.merge = {}
<1> DEFINE work == Over(parent.work, Staged(parent) \cup parent.unmerged, Ours)
<1>1. Ours \in Trees /\ work \in Trees /\ parent \in Workspace
  BY TreeTypes DEF InShape
<1>2. parent' = [parent EXCEPT !.index = Ours, !.unmerged = {}, !.merge = {}, !.work = work]
  BY DEF Aborted
<1> HIDE DEF work
<1>3. parent' \in Workspace /\ parent'.branch = parent.branch /\ parent'.merge = {} /\ parent'.unmerged = {}
  BY <1>1, <1>2 DEF Workspace
<1> QED BY <1>3 DEF Onward, InShape

LEMMA StepAbort ==
  ASSUME PmInv, MergeAbort \/ MergeUndo
  PROVE  PmInv'
<1>1. /\ orch.phase \in InMerge /\ UNCHANGED <<commits, refs, isolated>>
      /\ \/ Aborted /\ Settle([items[Current] EXCEPT !.merge = "conflict", !.retained = TRUE], "conflict")
         \/ (Aborted \/ parent' = parent) /\ NotMerged
  BY DEF MergeAbort, MergeUndo, Phase, InMerge
<1>2. InShape
  BY DEF PmInv
<1>3. CASE Aborted /\ Settle([items[Current] EXCEPT !.merge = "conflict", !.retained = TRUE], "conflict")
  BY <1>1, <1>2, <1>3, AbortedIs, StepRetain
<1>4. CASE (Aborted \/ parent' = parent) /\ NotMerged
  <2>1. Onward
    BY <1>1, <1>2, <1>4, AbortedIs, Stays
  <2> QED BY <1>1, <1>4, <2>1, StepNotMerged
<1> QED BY <1>1, <1>3, <1>4

LEMMA StepEnds ==
  ASSUME PmInv, Report \/ ExitProcess
  PROVE  PmInv'
<1>1. PICK phase \in {"reported", "lost"} :
        /\ orch' = [orch EXCEPT !.phase = phase]
        /\ phase = "reported" => orch.phase = "merge"
        /\ UNCHANGED <<commits, refs, parent, isolated, items>>
  BY DEF Report, ExitProcess, Phase, Goto
<1>2. /\ orch' \in OrchCall /\ orch'.phase = phase /\ orch'.target = orch.target /\ orch'.n = orch.n
      /\ orch'.at = orch.at /\ orch'.stop = orch.stop /\ orch'.moved = orch.moved
  BY <1>1 DEF PmInv, InShape, OrchCall
<1>3. InShape'
  BY <1>1, <1>2 DEF PmInv, InShape
<1>4. Progress'
  BY <1>1, <1>2 DEF PmInv, Progress, InMerge
<1>5. WorkKept' /\ OnTarget' /\ Settled'
  BY <1>1, <1>2 DEF PmInv, WorkKept, OnTarget, Settled, InMerge
<1>6. MergeOpen'
  BY <1>1, <1>2 DEF PmInv, MergeOpen
<1> QED BY <1>3, <1>4, <1>5, <1>6 DEF PmInv

-----------------------------------------------------------------------------
LEMMA PmInitInv == PmInit => PmInv
<1> SUFFICES ASSUME PmInit PROVE PmInv
  OBVIOUS
<1>1. PICK tree \in Trees, here \in {"main", Detached} :
        /\ commits = <<[tree |-> tree, from |-> {}]>> /\ refs = [b \in {"main", here} |-> 1]
        /\ parent = [branch |-> here, index |-> tree, work |-> tree, unmerged |-> {}, merge |-> {}]
  BY DEF PmInit
<1>2. isolated = [s \in {} |-> 0] /\ items = [s \in {} |-> Item] /\ orch = Idle
  BY DEF PmInit
<1>3. Numbered(commits) /\ Len(commits) = 1
  <2> DEFINE first == [tree |-> tree, from |-> {}]
  <2>1. first \in Commit /\ first.from = {}
    BY DEF Commit
  <2>2. commits = <<first>>
    BY <1>1
  <2> HIDE DEF first
  <2>3. commits \in Seq(Commit) /\ Len(commits) = 1 /\ commits[1] = first
    BY <2>1, <2>2
  <2> QED BY <2>1, <2>3 DEF Numbered
<1>4. parent \in Workspace /\ parent.branch \in DOMAIN refs /\ parent.merge = {} /\ parent.unmerged = {}
  BY <1>1, ParallelAssumption DEF Workspace
<1>5. refs \in [DOMAIN refs -> 1..Len(commits)] /\ DOMAIN refs = {"main", here}
  BY <1>1, <1>3
<1>6. orch \in OrchCall /\ orch.target = "main" /\ orch.phase = "idle" /\ orch.at = 0 /\ orch.n = 0 /\ orch.stop = "no"
  BY <1>2, ParallelAssumption DEF Idle, OrchCall
<1>7. DOMAIN isolated = {} /\ DOMAIN items = {}
  BY <1>2
<1>8. isolated \in [DOMAIN isolated -> Worktree] /\ items \in [DOMAIN items -> ItemState]
  BY <1>2, <1>7
<1>9. InShape
  BY <1>3, <1>4, <1>5, <1>6, <1>7, <1>8, ParallelAssumption DEF InShape
<1>10. Progress /\ WorkKept /\ OnTarget /\ Settled /\ MergeOpen
  BY <1>4, <1>6, <1>7 DEF Progress, WorkKept, OnTarget, Settled, MergeOpen, InMerge
<1> QED BY <1>9, <1>10 DEF PmInv

LEMMA SamePm == ASSUME PmInv, UNCHANGED pmvars PROVE PmInv'
<1>1. UNCHANGED <<commits, refs, parent, isolated, orch, items>>
  BY DEF pmvars
<1>2. InShape'
  BY <1>1 DEF PmInv, InShape
<1>3. Progress' /\ Settled'
  BY <1>1 DEF PmInv, Progress, Settled
<1>4. WorkKept' /\ OnTarget' /\ MergeOpen'
  BY <1>1 DEF PmInv, WorkKept, OnTarget, MergeOpen
<1> QED BY <1>2, <1>3, <1>4 DEF PmInv

LEMMA PmStep == PmInv /\ [PmNext]_pmvars => PmInv'
<1> SUFFICES ASSUME PmInv, [PmNext]_pmvars PROVE PmInv'
  OBVIOUS
<1>1. ASSUME NEW f \in GitFiles, NEW text \in Contents, EditFile(f, text) PROVE PmInv'
  BY <1>1, StepEdit
<1>2. ASSUME NEW files \in SUBSET GitFiles \ {{}}, GitAdd(files) PROVE PmInv'
  BY <1>2, StepAdd
<1>3. ASSUME NEW all \in BOOLEAN, GitCommit(all) PROVE PmInv'
  BY <1>3, StepCommit
<1>4. ASSUME NEW b \in Branches, GitBranchCreate(b) \/ GitBranchSwitch(b) PROVE PmInv'
  BY <1>4, StepBranch, StepSwitch
<1>5. ASSUME NEW n \in Subtasks, RunParallel(n) PROVE PmInv'
  BY <1>5, StepRun
<1>6. ASSUME NEW s \in DOMAIN isolated,
             \/ SubtaskCommits(s) \/ SubtaskEnds(s)
             \/ \E f \in GitFiles, text \in Contents : SubtaskEdits(s, f, text)
      PROVE  PmInv'
  BY <1>6, StepSubtaskCommits, StepSubtask
<1>7. ASSUME \/ CreateWorktree \/ CommitAll \/ DropUnchanged \/ RetainAfterStop
             \/ CheckBranch \/ MergeClean \/ MergeStops \/ ListUnmerged \/ MergeAbort \/ MergeUndo
             \/ Report \/ ExitProcess
      PROVE  PmInv'
  BY <1>7, StepCreate, StepCommitAll, StepDrop, StepRetainAfterStop, StepCheck, StepClean, StepStops, StepList,
     StepAbort, StepEnds
<1>8. CASE UNCHANGED pmvars
  BY <1>8, SamePm
<1> QED BY <1>1, <1>2, <1>3, <1>4, <1>5, <1>6, <1>7, <1>8 DEF PmNext

LEMMA PmMeans == PmInv => PmTypeOK /\ CommittedWorkReachable
<1> SUFFICES ASSUME PmInv PROVE PmTypeOK /\ CommittedWorkReachable
  OBVIOUS
<1>1. InShape /\ Progress /\ WorkKept
  BY DEF PmInv
<1>2. PmTypeOK
  <2>1. \A c \in 1..Len(commits) : commits[c].tree \in Trees /\ commits[c].from \subseteq 1..c-1
    <3>1. commits \in Seq(Commit)
      BY <1>1 DEF InShape, Numbered
    <3>2. \A c \in 1..Len(commits) : commits[c] \in Commit
      BY <3>1
    <3>3. \A c \in 1..Len(commits) : commits[c].from \subseteq 1..c-1
      BY <1>1 DEF InShape, Numbered
    <3> QED BY <3>2, <3>3 DEF Commit
  <2>2. \A b \in DOMAIN refs : refs[b] \in 1..Len(commits)
    BY <1>1 DEF InShape
  <2>3. /\ parent.branch \in DOMAIN refs \cap (Branches \cup {Detached})
        /\ parent.index \in Trees /\ parent.work \in Trees /\ parent.unmerged \subseteq GitFiles
        /\ (parent.merge = {} => parent.unmerged = {})
    BY <1>1 DEF InShape, Workspace
  <2>4. orch.n \in 0..MaxSubtasks /\ orch.at \in 0..orch.n + 1 /\ DOMAIN isolated \subseteq 1..orch.n
    BY <1>1 DEF InShape, OrchCall, Progress
  <2>5. DOMAIN isolated \subseteq Subtasks /\ \A s \in DOMAIN isolated : isolated[s].tip \in 1..Len(commits)
    BY <1>1, <2>4, ParallelAssumption DEF InShape, Subtasks
  <2> QED BY <2>1, <2>2, <2>3, <2>4, <2>5 DEF PmTypeOK
<1>3. CommittedWorkReachable
  BY <1>1, AncIs DEF CommittedWorkReachable, WorkKept, InSome, InShape
<1> QED BY <1>2, <1>3

(* A subtask's work is never lost (see ParallelSubtasks).  *)
THEOREM WorkReachable == PmSpec => []CommittedWorkReachable
<1>1. PmSpec => []PmInv
  BY PmInitInv, PmStep, PTL DEF PmSpec
<1> QED BY <1>1, PmMeans, PTL

(* Only the step that reports ends the call in this phase. *)
LEMMA OnlyReport ==
  ASSUME [PmNext]_pmvars, orch.phase = "merge", orch \in OrchCall, orch'.phase = "reported"
  PROVE  Report
<1>1. orch' # orch
  OBVIOUS
<1>2. \A p \in {"failed", "lost"} \cup InMerge : orch' # [orch EXCEPT !.phase = p]
  BY DEF OrchCall, InMerge
<1>3. \A n, how : orch' # [orch EXCEPT !.phase = "merge", !.at = n, !.stop = how]
  BY DEF OrchCall
<1>4. \A item, how : ~Settle(item, how)
  BY <1>3 DEF Settle
<1>5. ~UNCHANGED pmvars
  BY <1>1 DEF pmvars
<1>6. ~CheckBranch /\ ~ExitProcess
  BY <1>2, <1>4 DEF CheckBranch, NotMerged, ExitProcess, Goto, InMerge
<1>7. ~DropUnchanged /\ ~RetainAfterStop /\ ~MergeClean /\ ~MergeStops /\ ~ListUnmerged /\ ~MergeAbort /\ ~MergeUndo
  BY <1>4 DEF DropUnchanged, RetainAfterStop, MergeClean, MergeStops, ListUnmerged, MergeAbort, MergeUndo, Phase
<1>8. ~CreateWorktree /\ ~CommitAll /\ \A n : ~RunParallel(n)
  BY DEF CreateWorktree, CommitAll, RunParallel, Phase
<1>9. \A s, f, text : ~SubtaskCommits(s) /\ ~SubtaskEnds(s) /\ ~SubtaskEdits(s, f, text)
  BY DEF SubtaskCommits, SubtaskEnds, SubtaskEdits, Phase
<1>10. \A f, text, all, b : ~EditFile(f, text) /\ ~GitAdd(f) /\ ~GitCommit(all) /\ ~GitBranchCreate(b) /\ ~GitBranchSwitch(b)
  BY <1>1 DEF EditFile, GitAdd, GitCommit, GitBranchCreate, GitBranchSwitch, Leaves
<1> QED BY <1>5, <1>6, <1>7, <1>8, <1>9, <1>10 DEF PmNext

LEMMA ReportStep ==
  ASSUME PmInv, [PmNext]_pmvars, orch.phase = "merge", orch'.phase = "reported"
  PROVE  /\ \A s \in DOMAIN items :
              /\ items[s].merge = "clean" /\ s \notin orch.moved => items[s].tip \in Ancestors(refs[orch.target])
              /\ items[s].retained => s \in DOMAIN isolated
              /\ items[s].committed => items[s].merge = "clean" \/ items[s].retained
         /\ orch.stop # "error" => parent.merge = {}
<1>1. InShape /\ Progress /\ orch \in OrchCall /\ orch.n \in Nat
  BY ParallelAssumption DEF PmInv, InShape, OrchCall
<1>2. orch.at > orch.n
  BY <1>1, OnlyReport DEF Report, Current
<1>3. DOMAIN items = 1..orch.n /\ orch.at \in Nat
  BY <1>1 DEF Progress, OrchCall
<1>4. \A s \in DOMAIN items : s \in 1..orch.n /\ s < orch.at
  BY <1>1, <1>2, <1>3
<1>5. \A s \in DOMAIN items : items[s].merge = "clean" /\ s \notin orch.moved => items[s].tip \in Ancestors(refs[orch.target])
  BY AncIs DEF PmInv, WorkKept
<1>6. \A s \in DOMAIN items : /\ items[s].retained => s \in DOMAIN isolated
                              /\ items[s].committed => items[s].merge = "clean" \/ items[s].retained
  BY <1>4 DEF PmInv, Settled
<1>7. orch.stop # "error" => parent.merge = {}
  BY DEF PmInv, MergeOpen
<1> QED BY <1>5, <1>6, <1>7

(* The call's report is true (see ParallelSubtasks).  *)
THEOREM ReportIsTrue == PmSpec => ReportTruthful
<1>1. PmSpec => []PmInv
  BY PmInitInv, PmStep, PTL DEF PmSpec
<1>2. PmInv /\ [PmNext]_pmvars =>
        [(orch.phase = "merge" /\ orch'.phase = "reported") =>
          /\ \A s \in DOMAIN items :
            /\ items[s].merge = "clean" /\ s \notin orch.moved => items[s].tip \in Ancestors(refs[orch.target])
            /\ items[s].retained => s \in DOMAIN isolated
            /\ items[s].committed => items[s].merge = "clean" \/ items[s].retained
          /\ orch.stop # "error" => parent.merge = {}]_pmvars
  BY ReportStep
<1> QED BY <1>1, <1>2, PTL DEF PmSpec, ReportTruthful

-----------------------------------------------------------------------------
(***************************************************************************)
(* Theorems about MCHost. The parts share no state, so every behaviour of  *)
(* the system is one of each part, and what was proved of a part holds of  *)
(* it in the system: in every state all of them are in order.              *)
(***************************************************************************)
(* Each part, in the system, begins and moves as it does alone.  *)
LEMMA HostRunsParts ==
  HostSpec => PmSpec /\ ApSpec /\ LspSpec /\ StrSpec /\ McpSpec /\ ShSpec /\ GitSpec
<1> DEFINE hostvars == <<part, pmvars, apvars, lspvars, strvars, mcpvars, shvars, gitvars>>
<1>1. HostInit => PmInit /\ ApInit /\ LspInit /\ StrInit /\ McpInit /\ ShInit /\ GitInit
  BY DEF HostInit
<1>2. [HostNext]_hostvars =>
        /\ [PmNext]_pmvars /\ [ApNext]_apvars /\ [LspNext]_lspvars /\ [StrNext]_strvars
        /\ [McpNext]_mcpvars /\ [ShNext]_shvars /\ [GitNext]_gitvars
  <2> SUFFICES ASSUME [HostNext]_hostvars
               PROVE  /\ [PmNext]_pmvars /\ [ApNext]_apvars /\ [LspNext]_lspvars /\ [StrNext]_strvars
                      /\ [McpNext]_mcpvars /\ [ShNext]_shvars /\ [GitNext]_gitvars
    OBVIOUS
  <2>1. CASE UNCHANGED hostvars
    BY <2>1
  <2>2. CASE HostNext
    BY <2>2 DEF HostNext
  <2> QED
    BY <2>1, <2>2
<1> QED
  BY <1>1, <1>2, PTL DEF HostSpec, PmSpec, ApSpec, LspSpec, StrSpec, McpSpec, ShSpec, GitSpec

(* The host's parts side by side, for every value of the constants: in      *)
(* every state each is in order, and so is what ties their states to each   *)
(* other: askers to the backend's table of requests, language servers to    *)
(* the pool and its borrowers, a push that was reported to the remote       *)
(* (see MCHost).                                                            *)
THEOREM HostInOrder == HostSpec => []HostOK
<1>1. /\ PmSpec => []PmInv
      /\ ApSpec => []ApInv
      /\ LspSpec => []LspInv
      /\ StrSpec => []StrInv
      /\ McpSpec => []McpInv
      /\ ShSpec => []ShInv
      /\ GitSpec => []GitInv
  <2>1. PmSpec => []PmInv
    BY PmInitInv, PmStep, PTL DEF PmSpec
  <2>2. ApSpec => []ApInv
    BY ApInitInv, ApStep, PTL DEF ApSpec
  <2>3. LspSpec => []LspInv
    BY LspInitInv, LspStep, PTL DEF LspSpec
  <2>4. StrSpec => []StrInv
    BY StrInitInv, StrStep, PTL DEF StrSpec
  <2>5. McpSpec => []McpInv
    BY McpInitInv, McpStep, PTL DEF McpSpec
  <2>6. ShSpec => []ShInv
    BY ShInitInv, ShStep, PTL DEF ShSpec
  <2>7. GitInv /\ [GitNext]_gitvars => GitInv'
    BY GitStep
  <2>8. GitSpec => []GitInv
    BY GitInitInv, <2>7, PTL DEF GitSpec
  <2> QED
    BY <2>1, <2>2, <2>3, <2>4, <2>5, <2>6, <2>8
<1>2. PmInv /\ ApInv /\ LspInv /\ StrInv /\ McpInv /\ ShInv /\ GitInv => HostOK
  BY PmMeans, ApMeans, LspMeans, StrMeans, McpMeans, ShMeans, GitMeans DEF HostOK
<1> QED
  BY HostRunsParts, <1>1, <1>2, PTL

(* And so what was proved of each part holds in the system: a subtask's    *)
(* work is never lost and its report is true, if the workspace kept its     *)
(* branch between check and merge; a request that nothing disturbed is on   *)
(* the screen, which shows one answer; a tool call on a server gets its own *)
(* answer, computed from the text it read; a final status is the last word *)
(* of a shell; and nobody's run of git loses a change.                     *)
THEOREM HostKeepsPromises ==
  HostSpec => /\ [](/\ CommittedWorkReachable /\ WaitingIsVisible /\ ScreenShowsOneAnswer
                    /\ AnswersOwnCall /\ FinalStatusIsLast)
              /\ ReportTruthful /\ OwnTextAnswered /\ NothingLost
BY HostRunsParts, WorkReachable, WaitingSeen, ScreenIsOneAnswer, AnswersAreOwn, FinalStatusLast,
   ReportIsTrue, OwnTextIsAnswered, NoChangeLost, PTL

=============================================================================
