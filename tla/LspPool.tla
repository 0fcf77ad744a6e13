------------------------------- MODULE LspPool -------------------------------
(***************************************************************************)
(* The language servers (crates/lsp).  A tool call reads its file, borrows *)
(* an idle session from the pool or starts a server, hands the server the  *)
(* text it read, asks, and gives the session back; a call that fails drops *)
(* the session, which kills the server.  The pipes to and from a server    *)
(* are queues: what it sends arrives later, in order.                      *)
(* A session and its server are one entry of procs.                        *)
(***************************************************************************)
EXTENDS Naturals, Sequences, FiniteSets

CONSTANTS
  Lookups,     \* tool calls that run at a time
  Docs,        \* source files, all of one language
  Exes,        \* the binaries the settings may name for it
  MaxPooled,   \* MAX_POOLED
  MaxText, MaxProcs, MaxCrashes, MaxAsks, MaxNoise, MaxIds
    \* bounds: edits, servers at a time, deaths, tool calls, messages a server sends
    \* unasked, and the last id with which a session asks again

ASSUME LspAssumption ==
  /\ Docs # {} /\ MaxPooled \in Nat
  /\ MaxText \in Nat \ {0} /\ MaxProcs \in Nat /\ MaxIds \in Nat

VARIABLES
  disk,      \* [Docs -> the text on disk, a number]
  lspcfg,    \* LSP_SERVER_CONFIG: the binary, or "off"
  procs,     \* sessions and their servers
  pooled,    \* the idle sessions, least recently used first
  lookups,   \* the tool calls
  deaths, asks, noise

lspvars == <<disk, lspcfg, procs, pooled, lookups, deaths, asks, noise>>

Texts == 0..MaxText     \* 0: nothing there
Gone  == [alive |-> FALSE]

(* The server knows the text of each opened document and what it was asked;*)
(* inbox and rx are the two pipes, open_docs and next_id the session's own.*)
NewServer(exe) ==
  [alive |-> TRUE, exe |-> exe, knows |-> [d \in Docs |-> 0], asked |-> 0, about |-> CHOOSE d \in Docs : TRUE,
   blocked |-> FALSE, inbox |-> <<>>, rx |-> <<>>, open_docs |-> {}, next_id |-> 1]

Quiet == [pc |-> "idle", tool |-> "position", doc |-> CHOOSE d \in Docs : TRUE, exe |-> "none",
          text |-> 0, proc |-> 0, id |-> 0, got |-> 0]

LspInit ==
  /\ disk = [d \in Docs |-> 1] /\ lspcfg \in Exes
  /\ procs = [p \in 1..MaxProcs |-> Gone] /\ pooled = <<>>
  /\ lookups = [o \in Lookups |-> Quiet] /\ deaths = 0 /\ asks = 0 /\ noise = 0

-----------------------------------------------------------------------------
(* The pool. *)
Held(pool)      == {pool[i].proc : i \in DOMAIN pool}
Kill(all, dead) == [p \in DOMAIN all |-> IF p \in dead THEN Gone ELSE all[p]]

(* There is one session per key: the map has it removed. *)
Without(pool, exe) ==
  IF \E i \in DOMAIN pool : pool[i].exe = exe
  THEN LET i == CHOOSE i \in DOMAIN pool : pool[i].exe = exe
       IN SubSeq(pool, 1, i - 1) \o SubSeq(pool, i + 1, Len(pool))
  ELSE pool

(* checkin: the newcomer replaces the session of its key; one too many and *)
(* the least recently used goes.                                           *)
Checkin(pool, exe, p) ==
  LET all == Append(Without(pool, exe), [exe |-> exe, proc |-> p])
  IN IF Len(all) > MaxPooled THEN Tail(all) ELSE all

(* Slip: a session that is replaced is forgotten, not dropped. *)
SlipFinish(o, p, session) ==
  /\ pooled' = IF session.alive THEN Checkin(pooled, lookups[o].exe, p) ELSE pooled
  /\ procs' = [procs EXCEPT ![p] = IF session.alive THEN session ELSE Gone]
  /\ lookups' = [lookups EXCEPT ![o] = Quiet]

Finish(o, p, session) ==
  LET pool == IF session.alive THEN Checkin(pooled, lookups[o].exe, p) ELSE pooled
  IN /\ pooled' = pool
     /\ procs' = Kill([procs EXCEPT ![p] = session], (Held(pooled) \cup {p}) \ Held(pool))
     /\ lookups' = [lookups EXCEPT ![o] = Quiet]

(* An error: the session is dropped, and its server killed. *)
Fail(o) ==
  /\ procs' = Kill(procs, {lookups[o].proc}) /\ lookups' = [lookups EXCEPT ![o] = Quiet]
  /\ UNCHANGED pooled

(* reap_idle: whatever has been idle for too long, the oldest first. *)
ReapIdle(n) ==
  /\ n \in 1..Len(pooled)
  /\ procs' = Kill(procs, Held(SubSeq(pooled, 1, n))) /\ pooled' = SubSeq(pooled, n + 1, Len(pooled))
  /\ UNCHANGED <<disk, lspcfg, lookups, deaths, asks, noise>>

-----------------------------------------------------------------------------
(* A tool call. *)

(* open_session: the settings and the text are read first; then checkout   *)
(* takes the session of this key, or drops it when its server has died.    *)
OpenSession(o, tool, d) ==
  LET mine == {e \in {pooled[i] : i \in DOMAIN pooled} : e.exe = lspcfg}
      free == {e.proc : e \in {x \in mine : procs[x.proc].alive}}
  IN /\ lookups[o].pc = "idle" /\ lspcfg # "off" /\ asks < MaxAsks /\ asks' = asks + 1
     /\ pooled' = Without(pooled, lspcfg)
     /\ procs' = Kill(procs, {e.proc : e \in mine} \ free)
     /\ \E p \in IF free = {} THEN {0} ELSE free :
          lookups' = [lookups EXCEPT ![o] =
            [Quiet EXCEPT !.pc = IF p = 0 THEN "start" ELSE "sync", !.tool = tool, !.doc = d,
                          !.exe = lspcfg, !.text = disk[d], !.proc = p]]
     /\ UNCHANGED <<disk, lspcfg, deaths, noise>>

(* LspSession::start, with the handshake; it may find no binary. *)
StartServer(o) ==
  /\ lookups[o].pc = "start"
  /\ \/ \E p \in 1..MaxProcs :
          /\ procs[p] = Gone /\ \A q \in 1..p-1 : procs[q] # Gone
          /\ procs' = [procs EXCEPT ![p] = [NewServer(lookups[o].exe) EXCEPT !.next_id = 2]]
          /\ lookups' = [lookups EXCEPT ![o].pc = "sync", ![o].proc = p]
     \/ lookups' = [lookups EXCEPT ![o] = Quiet] /\ UNCHANGED procs
  /\ UNCHANGED <<disk, lspcfg, pooled, deaths, asks, noise>>

(* One reply for each request of the server. *)
Reply(frames) == [i \in 1..Cardinality({j \in DOMAIN frames : frames[j].kind = "request"}) |-> [kind |-> "reply"]]

(* Slip: a document the server has open is not sent again. *)
SlipSyncDocument(o) ==
  LET p == lookups[o].proc  s == procs[p]  d == lookups[o].doc
  IN /\ lookups[o].pc = "sync"
     /\ IF ~s.alive THEN Fail(o)
        ELSE /\ procs' = [procs EXCEPT ![p] =
                   [s EXCEPT !.rx = <<>>, !.open_docs = @ \cup {d},
                     !.inbox = @ \o Reply(s.rx) \o
                       (IF d \in s.open_docs THEN <<>> ELSE <<[kind |-> "didOpen", doc |-> d, text |-> lookups[o].text]>>)]]
             /\ lookups' = [lookups EXCEPT ![o].pc = IF lookups[o].tool = "position" THEN "ask" ELSE "collect"]
             /\ UNCHANGED pooled
     /\ UNCHANGED <<disk, lspcfg, deaths, asks, noise>>

(* sync_document: what has piled up is answered or thrown away, then the   *)
(* server is given the text.  A dead server fails the write.               *)
SyncDocument(o) ==
  LET p == lookups[o].proc  s == procs[p]  d == lookups[o].doc
  IN /\ lookups[o].pc = "sync"
     /\ IF ~s.alive THEN Fail(o)
        ELSE /\ procs' = [procs EXCEPT ![p] =
                   [s EXCEPT !.rx = <<>>, !.open_docs = @ \cup {d},
                     !.inbox = @ \o Reply(s.rx) \o
                       <<[kind |-> IF d \in s.open_docs THEN "didChange" ELSE "didOpen", doc |-> d, text |-> lookups[o].text]>>]]
             /\ lookups' = [lookups EXCEPT ![o].pc = IF lookups[o].tool = "position" THEN "ask" ELSE "collect"]
             /\ UNCHANGED pooled
     /\ UNCHANGED <<disk, lspcfg, deaths, asks, noise>>

Request(o) ==
  LET p == lookups[o].proc  s == procs[p]
  IN /\ lookups[o].pc = "ask"
     /\ IF ~s.alive THEN Fail(o)
        ELSE /\ procs' = [procs EXCEPT ![p] =
                   [s EXCEPT !.next_id = @ + 1, !.inbox = Append(@, [kind |-> "ask", doc |-> lookups[o].doc, id |-> s.next_id])]]
             /\ lookups' = [lookups EXCEPT ![o].pc = "wait", ![o].id = s.next_id]
             /\ UNCHANGED pooled
     /\ UNCHANGED <<disk, lspcfg, deaths, asks, noise>>

(* What the tool answers its caller with. *)
Answers(o, frame) == frame.kind = "answer" /\ frame.id = lookups[o].id
Take(s)           == [s EXCEPT !.rx = Tail(@), !.inbox = @ \o Reply(<<Head(s.rx)>>)]

(* await_response: notifications and answers to another id are passed by.  *)
AwaitResponse(o) ==
  LET p == lookups[o].proc  s == procs[p]  f == Head(s.rx)
  IN /\ lookups[o].pc = "wait" /\ s.rx # <<>>
     /\ CASE f.kind = "eof"                         -> Fail(o)
          [] f.kind # "eof" /\ ~Answers(o, f)       -> /\ procs' = [procs EXCEPT ![p] = Take(s)]
                                                       /\ UNCHANGED <<lookups, pooled>>
          [] Answers(o, f) /\ f.text # 0            -> Finish(o, p, Take(s))
          [] OTHER   \* the server is still indexing: ask again, or give up
                -> \/ Finish(o, p, Take(s))
                   \/ /\ s.next_id <= MaxIds /\ procs' = [procs EXCEPT ![p] = Take(s)]
                      /\ lookups' = [lookups EXCEPT ![o].pc = "ask"] /\ UNCHANGED pooled
     /\ UNCHANGED <<disk, lspcfg, deaths, asks, noise>>

(* collect_diagnostics: the last report on the document, an empty one only *)
(* when no other comes in time.                                            *)
CollectDiagnostics(o) ==
  LET p == lookups[o].proc  s == procs[p]  f == Head(s.rx)
      hit == f.kind = "diagnostics" /\ f.doc = lookups[o].doc
  IN /\ lookups[o].pc = "collect" /\ s.rx # <<>>
     /\ CASE f.kind = "eof"             -> Fail(o)
          [] hit /\ ~f.empty            -> Finish(o, p, Take(s))
          [] f.kind # "eof" /\ ~(hit /\ ~f.empty)
               -> /\ procs' = [procs EXCEPT ![p] = Take(s)]
                  /\ lookups' = [lookups EXCEPT ![o].got = IF hit THEN f.text ELSE @] /\ UNCHANGED pooled
     /\ UNCHANGED <<disk, lspcfg, deaths, asks, noise>>

(* The time is up: an error for who awaits a response, as when the answer  *)
(* is an error; diagnostics come as they are.                              *)
TimeUp(o) ==
  /\ lookups[o].pc \in {"wait", "collect"}
  /\ IF lookups[o].pc = "wait" THEN Fail(o) ELSE Finish(o, lookups[o].proc, procs[lookups[o].proc])
  /\ UNCHANGED <<disk, lspcfg, deaths, asks, noise>>

-----------------------------------------------------------------------------
(* The server: external. *)
ServerReads(p) ==
  LET s == procs[p]  m == Head(s.inbox)
  IN /\ s.alive /\ s.inbox # <<>>
     /\ procs' = [procs EXCEPT ![p] =
          CASE m.kind \in {"didOpen", "didChange"} -> [s EXCEPT !.inbox = Tail(@), !.knows[m.doc] = m.text]
            [] m.kind = "ask"   -> [s EXCEPT !.inbox = Tail(@), !.asked = m.id, !.about = m.doc]
            [] m.kind = "reply" -> [s EXCEPT !.inbox = Tail(@), !.blocked = FALSE]]
     /\ UNCHANGED <<disk, lspcfg, pooled, lookups, deaths, asks, noise>>

Says(p, frame, s) == procs' = [procs EXCEPT ![p] = [s EXCEPT !.rx = Append(@, frame)]]

ServerAnswers(p) ==
  LET s == procs[p]
  IN /\ s.alive /\ s.asked # 0 /\ ~s.blocked
     /\ \E text \in {0, s.knows[s.about]} :
          Says(p, [kind |-> "answer", id |-> s.asked, text |-> text], [s EXCEPT !.asked = 0])
     /\ UNCHANGED <<disk, lspcfg, pooled, lookups, deaths, asks, noise>>

(* One report on a document per text; a request of its own. *)
ServerPublishes(p, d) ==
  LET s == procs[p]
  IN /\ s.alive /\ ~s.blocked /\ s.knows[d] # 0 /\ noise < MaxNoise /\ noise' = noise + 1
     /\ \E empty \in BOOLEAN :
          Says(p, [kind |-> "diagnostics", doc |-> d, text |-> s.knows[d], empty |-> empty], s)
     /\ UNCHANGED <<disk, lspcfg, pooled, lookups, deaths, asks>>

ServerRequests(p) ==
  /\ procs[p].alive /\ ~procs[p].blocked /\ noise < MaxNoise /\ noise' = noise + 1
  /\ Says(p, [kind |-> "request"], [procs[p] EXCEPT !.blocked = TRUE])
  /\ UNCHANGED <<disk, lspcfg, pooled, lookups, deaths, asks>>

ServerDies(p) ==
  /\ procs[p].alive /\ deaths < MaxCrashes /\ deaths' = deaths + 1
  /\ procs' = [procs EXCEPT ![p].alive = FALSE, ![p].rx = Append(@, [kind |-> "eof"])]
  /\ UNCHANGED <<disk, lspcfg, pooled, lookups, asks, noise>>

(* An edit in the workspace; the settings page saved. *)
EditDoc(d) ==
  /\ disk[d] < MaxText /\ disk' = [disk EXCEPT ![d] = @ + 1]
  /\ UNCHANGED <<lspcfg, procs, pooled, lookups, deaths, asks, noise>>

SaveLspServerConfig(exe) ==
  /\ exe # lspcfg /\ lspcfg' = exe
  /\ UNCHANGED <<disk, procs, pooled, lookups, deaths, asks, noise>>

LspNext ==
  \/ \E o \in Lookups : \/ \E tool \in {"position", "diagnostics"}, d \in Docs : OpenSession(o, tool, d)
                        \/ StartServer(o) \/ SyncDocument(o) \/ Request(o)
                        \/ AwaitResponse(o) \/ CollectDiagnostics(o) \/ TimeUp(o)
  \/ \E p \in {q \in DOMAIN procs : procs[q] # Gone} :
       \/ ServerReads(p) \/ ServerAnswers(p) \/ ServerRequests(p) \/ ServerDies(p)
       \/ \E d \in Docs : ServerPublishes(p, d)
  \/ \E n \in 1..MaxPooled : ReapIdle(n)
  \/ \E d \in Docs : EditDoc(d)
  \/ \E exe \in Exes \cup {"off"} : SaveLspServerConfig(exe)

LspSpec == LspInit /\ [][LspNext]_lspvars

-----------------------------------------------------------------------------
(* Types: texts, the pool within its size and one session per key. *)
LspTypeOK ==
  /\ disk \in [Docs -> Texts] /\ lspcfg \in Exes \cup {"off"}
  /\ Len(pooled) <= MaxPooled
  /\ \A i, j \in DOMAIN pooled : pooled[i].exe = pooled[j].exe => i = j
  /\ \A o \in Lookups : lookups[o].text \in Texts /\ lookups[o].proc \in 0..MaxProcs

(* No server is leaked or shared: each has one owner, the pool or a tool   *)
(* call that is under way, and no one owns a server that was killed.       *)
ServersOwned ==
  \A p \in 1..MaxProcs :
    Cardinality({i \in DOMAIN pooled : pooled[i].proc = p}) + Cardinality({o \in Lookups : lookups[o].proc = p})
      = IF procs[p] = Gone THEN 0 ELSE 1

(* A definition, a hover or a list of references that a call returns was   *)
(* computed from the text the call read from disk, however old the session *)
(* and whatever its server was sent before (client.rs, sync_document).     *)
OwnTextAnswered ==
  [][\A o \in Lookups :
       lookups[o].pc = "wait" /\ lookups[o].proc # 0 =>
         LET s == procs[lookups[o].proc]
         IN s.rx # <<>> /\ Head(s.rx).kind = "answer" /\ Head(s.rx).text # 0 /\ lookups'[o].pc = "idle"
              /\ procs'[lookups[o].proc] # Gone
              => Head(s.rx).text = lookups[o].text]_lspvars

(* The same said of diagnostics does not hold: a report on an older text   *)
(* may arrive after sync_document has emptied the pipe, and no version is  *)
(* looked at.                                                              *)
OwnTextReported ==
  [][\A o \in Lookups :
       lookups[o].pc = "collect" /\ lookups'[o].pc = "idle" /\ procs[lookups[o].proc].rx # <<>>
         => LET f == Head(procs[lookups[o].proc].rx)
            IN f.kind = "diagnostics" /\ f.doc = lookups[o].doc /\ ~f.empty => f.text = lookups[o].text]_lspvars
=============================================================================
