-------------------------- MODULE Processes_proofs --------------------------
(***************************************************************************)
(* Theorems about McpClients, LspPool and Shells: the processes that the   *)
(* program starts, talks to over pipes, and must not forget.               *)
(***************************************************************************)
EXTENDS McpClients, LspPool, Shells, FiniteSetTheorems, SequenceTheorems, TLAPS

-----------------------------------------------------------------------------
(***************************************************************************)
(* Theorem about McpClients, for any number of servers, of calls at a time *)
(* and of connections: a call is given the answer to itself, its client is *)
(* kept while it lasts, and a client nobody holds has no process.          *)
(*                                                                         *)
(* AnswersOwnCall is not inductive: it says nothing of what travels on the *)
(* pipes.  CoreInv says it: what travels has an id below the next one, and *)
(* whatever travels under the id a call waits for is that call's; a client *)
(* in use has finished connecting, so no new thread takes its number.      *)
(* CoreInv is stated of values, not of the variables: what an action       *)
(* changes passes through LetGo, which drops what nobody holds.            *)
(***************************************************************************)
Frame == [id : Nat \ {0}, call : Nat]
Client  == [up : BOOLEAN, next_id : Nat \ {0}, pending : SUBSET (Nat \ {0}), asked : SUBSET Frame, replies : Seq(Frame)]
Thread  == [pc : {"none", "connecting", "oauth", "done", "failed"}, server : ServerIds, token : BOOLEAN]
Caller  == [pc : {"idle", "send", "wait", "answered"}, server : ServerIds, client : 0..MaxConnects,
            id : Nat, mine : Nat, got : Nat]
Row     == [row : {"absent", "on", "off", "deleted"}, token : BOOLEAN]

(* What travels on the pipe of a client, in either direction. *)
Moving(cl) == cl.asked \cup {cl.replies[i] : i \in 1..Len(cl.replies)}

Sane(cl) ==
  /\ \A i \in cl.pending : i < cl.next_id
  /\ \A q \in Moving(cl) : q.id < cl.next_id

(* A waiting call x has its sender there, and what travels under its id is *)
(* its own.                                                                *)
Own(cl, x) ==
  /\ x.id \in cl.pending
  /\ \A q \in Moving(cl) : q.id = x.id => q.call = x.mine

CoreType(map, ths, cls, cs) ==
  /\ map \in [ServerIds -> 0..MaxConnects] /\ ths \in [Conns -> Thread]
  /\ cls \in [Conns -> Client] /\ cs \in [Callers -> Caller]

InUse(map, ths, cs) ==
  /\ \A s \in ServerIds : map[s] # 0 => ths[map[s]].pc = "done"
  /\ \A c \in Callers :
       IF cs[c].pc = "idle" THEN cs[c].client = 0 /\ cs[c].got = 0
       ELSE cs[c].client # 0 /\ ths[cs[c].client].pc = "done"

Calls(cls, cs) ==
  /\ \A k \in Conns : Sane(cls[k])
  /\ \A c \in Callers : cs[c].pc = "wait" => Own(cls[cs[c].client], cs[c])
  /\ \A c, d \in Callers : c # d /\ cs[c].pc = "wait" /\ cs[d].pc = "wait" /\ cs[c].client = cs[d].client
                             => cs[c].id # cs[d].id
  /\ \A c \in Callers : cs[c].got # 0 => cs[c].got = cs[c].mine

CoreInv(map, ths, cls, cs) == CoreType(map, ths, cls, cs) /\ InUse(map, ths, cs) /\ Calls(cls, cs)

UpHeld == \A k \in Conns : clients[k].up => k \in Holders(mcp, threads, callers)

Tables == table \in [ServerIds -> Row] /\ sent \in 0..MaxSent

McpInv == Tables /\ CoreInv(mcp, threads, clients, callers) /\ UpHeld

-----------------------------------------------------------------------------
(* Clients. *)

LEMMA FreshClient ==
  /\ NoClient \in Client /\ ~NoClient.up /\ Moving(NoClient) = {} /\ NoClient.pending = {}
  /\ Sane(NoClient)
  /\ [NoClient EXCEPT !.up = TRUE] \in Client /\ Sane([NoClient EXCEPT !.up = TRUE])
<1> DEFINE up == [NoClient EXCEPT !.up = TRUE]
<1>1. <<>> \in Seq(Frame) /\ Len(<<>>) = 0 /\ 1..0 = {}
  OBVIOUS
<1>2. NoClient \in Client /\ ~NoClient.up /\ NoClient.pending = {} /\ up \in Client
  <2>1. {} \in SUBSET (Nat \ {0}) /\ {} \in SUBSET Frame /\ 1 \in Nat \ {0}
    OBVIOUS
  <2> QED
    BY <1>1, <2>1 DEF NoClient, Client
<1>3. NoClient.replies = <<>> /\ up.replies = <<>> /\ NoClient.asked = {} /\ up.asked = {} /\ up.pending = {}
  BY DEF NoClient
<1> HIDE DEF up
<1>4. Moving(NoClient) = {} /\ Moving(up) = {}
  BY <1>1, <1>3 DEF Moving
<1>5. Sane(NoClient) /\ Sane(up)
  BY <1>2, <1>3, <1>4 DEF Sane
<1> QED
  BY <1>2, <1>4, <1>5 DEF up

LEMMA RestingCall ==
  NoCall \in Caller /\ NoCall.pc = "idle" /\ NoCall.client = 0 /\ NoCall.got = 0 /\ NoCall.mine = 0
<1>1. (CHOOSE s \in ServerIds : TRUE) \in ServerIds
  BY McpAssumption
<1> QED
  BY <1>1, McpAssumption DEF NoCall, Caller

(* An answer leaves the server: it travels on. *)
LEMMA AnswerTravels ==
  ASSUME NEW cl \in Client, NEW q \in cl.asked
  PROVE  LET new == [cl EXCEPT !.asked = @ \ {q}, !.replies = Append(@, q)]
         IN new \in Client /\ Moving(new) = Moving(cl)
<1> DEFINE new == [cl EXCEPT !.asked = @ \ {q}, !.replies = Append(@, q)]
<1>1. q \in Frame /\ cl.replies \in Seq(Frame)
  BY DEF Client
<1>2. new.asked = cl.asked \ {q} /\ new.replies = Append(cl.replies, q)
  BY DEF Client
<1>3. new \in Client
  <2>1. cl.asked \ {q} \in SUBSET Frame /\ Append(cl.replies, q) \in Seq(Frame)
    BY <1>1 DEF Client
  <2> QED
    BY <2>1 DEF Client
<1>4. /\ Len(new.replies) = Len(cl.replies) + 1 /\ Len(cl.replies) \in Nat
      /\ \A i \in 1..Len(cl.replies) : new.replies[i] = cl.replies[i]
      /\ new.replies[Len(cl.replies) + 1] = q
  BY <1>1, <1>2
<1> HIDE DEF new
<1>5. \A i \in 1..Len(new.replies) : i \in 1..Len(cl.replies) \/ i = Len(cl.replies) + 1
  BY <1>4
<1>6. 1..Len(cl.replies) \subseteq 1..Len(new.replies) /\ Len(cl.replies) + 1 \in 1..Len(new.replies)
  BY <1>4
<1>7. {new.replies[i] : i \in 1..Len(new.replies)} = {cl.replies[i] : i \in 1..Len(cl.replies)} \cup {q}
  BY <1>4, <1>5, <1>6
<1>8. Moving(new) = Moving(cl)
  BY <1>2, <1>7 DEF Moving
<1> QED
  BY <1>3, <1>8 DEF new

(* The reader takes the first reply off the pipe. *)
LEMMA ReplyTaken ==
  ASSUME NEW cl \in Client, cl.replies # <<>>
  PROVE  LET r   == Head(cl.replies)
             new == [cl EXCEPT !.replies = Tail(@), !.pending = @ \ {r.id}]
         IN /\ r \in Moving(cl) /\ r \in Frame /\ new \in Client
            /\ Moving(new) \subseteq Moving(cl)
            /\ new.next_id = cl.next_id /\ new.pending = cl.pending \ {r.id} /\ new.up = cl.up
<1> DEFINE r   == Head(cl.replies)
           new == [cl EXCEPT !.replies = Tail(@), !.pending = @ \ {r.id}]
<1>1. /\ cl.replies \in Seq(Frame) /\ Len(cl.replies) \in Nat \ {0}
      /\ r = cl.replies[1] /\ r \in Frame
      /\ Tail(cl.replies) \in Seq(Frame)
      /\ Len(Tail(cl.replies)) = Len(cl.replies) - 1
      /\ \A i \in 1..Len(cl.replies) - 1 : Tail(cl.replies)[i] = cl.replies[i + 1]
  BY EmptySeq, HeadTailProperties DEF Client
<1>2. /\ new.replies = Tail(cl.replies) /\ new.asked = cl.asked /\ new.up = cl.up
      /\ new.next_id = cl.next_id /\ new.pending = cl.pending \ {r.id}
  BY DEF Client
<1>3. new \in Client
  BY <1>1 DEF Client
<1>4. r \in Moving(cl)
  BY <1>1 DEF Moving
<1>5. \A i \in 1..Len(new.replies) : i + 1 \in 1..Len(cl.replies) /\ new.replies[i] = cl.replies[i + 1]
  BY <1>1, <1>2
<1> HIDE DEF new
<1>6. Moving(new) \subseteq Moving(cl)
  BY <1>2, <1>5 DEF Moving
<1> QED
  BY <1>1, <1>2, <1>3, <1>4, <1>6 DEF new

(* A call is sent under an id that nothing has.                            *)
LEMMA CallSent ==
  ASSUME NEW cl \in Client, NEW q \in Frame, q.id = cl.next_id, Sane(cl)
  PROVE  LET noted == [cl EXCEPT !.next_id = @ + 1, !.pending = @ \cup {cl.next_id}]
             new   == [noted EXCEPT !.asked = @ \cup {q}]
         IN /\ noted \in Client /\ Sane(noted) /\ Moving(noted) = Moving(cl)
            /\ noted.pending = cl.pending \cup {q.id} /\ noted.up = cl.up
            /\ new \in Client /\ Sane(new) /\ Moving(new) = Moving(cl) \cup {q}
            /\ new.pending = cl.pending \cup {q.id} /\ new.up = cl.up
            /\ \A p \in Moving(cl) : p.id # q.id
            /\ q.id \notin cl.pending
<1> DEFINE noted == [cl EXCEPT !.next_id = @ + 1, !.pending = @ \cup {cl.next_id}]
           new   == [noted EXCEPT !.asked = @ \cup {q}]
<1>1. /\ cl.next_id \in Nat \ {0} /\ cl.pending \subseteq Nat \ {0}
      /\ \A p \in Moving(cl) : p.id \in Nat \ {0}
  <2>1. Moving(cl) \subseteq Frame
    BY DEF Client, Moving
  <2> QED
    BY <2>1 DEF Client, Frame
<1>2. noted \in Client /\ new \in Client
  <2>1. /\ cl.next_id + 1 \in Nat \ {0} /\ cl.pending \cup {cl.next_id} \in SUBSET (Nat \ {0})
        /\ cl.asked \cup {q} \in SUBSET Frame
    BY <1>1 DEF Client
  <2>2. noted \in Client /\ noted.asked = cl.asked
    BY <2>1 DEF Client
  <2> HIDE DEF noted
  <2> QED
    BY <2>1, <2>2 DEF Client
<1>3. /\ noted.next_id = cl.next_id + 1 /\ noted.pending = cl.pending \cup {q.id} /\ noted.up = cl.up
      /\ new.next_id = cl.next_id + 1 /\ new.pending = cl.pending \cup {q.id} /\ new.up = cl.up
      /\ noted.asked = cl.asked /\ noted.replies = cl.replies
      /\ new.asked = cl.asked \cup {q} /\ new.replies = cl.replies
  BY DEF Client
<1> HIDE DEF noted, new
<1>4. Moving(noted) = Moving(cl) /\ Moving(new) = Moving(cl) \cup {q}
  BY <1>3 DEF Moving
<1>5. \A i \in cl.pending : i < cl.next_id + 1 /\ i # cl.next_id
  BY <1>1 DEF Sane
<1>6. \A p \in Moving(cl) : p.id < cl.next_id + 1 /\ p.id # cl.next_id
  BY <1>1 DEF Sane
<1>7. Sane(noted) /\ Sane(new)
  BY <1>1, <1>3, <1>4, <1>5, <1>6 DEF Sane
<1> QED
  BY <1>2, <1>3, <1>4, <1>5, <1>6, <1>7 DEF noted, new
-----------------------------------------------------------------------------
(* The state as a whole. *)

LEMMA McpInitInv == McpInit => McpInv
<1> SUFFICES ASSUME McpInit PROVE McpInv
  OBVIOUS
<1>1. Tables
  <2>1. table \in [ServerIds -> Row]
    BY DEF McpInit, Row
  <2>2. sent \in 0..MaxSent
    BY McpAssumption DEF McpInit
  <2> QED
    BY <2>1, <2>2 DEF Tables
<1>2. CoreType(mcp, threads, clients, callers)
  <2>1. (CHOOSE s \in ServerIds : TRUE) \in ServerIds
    BY McpAssumption
  <2>2. threads \in [Conns -> Thread]
    BY <2>1 DEF McpInit, Thread
  <2> QED
    BY <2>2, FreshClient, RestingCall, McpAssumption DEF McpInit, CoreType
<1>3. InUse(mcp, threads, callers)
  BY RestingCall DEF McpInit, InUse
<1>4. Calls(clients, callers)
  BY FreshClient, RestingCall DEF McpInit, Calls
<1>5. UpHeld
  BY FreshClient DEF McpInit, UpHeld
<1> QED
  BY <1>1, <1>2, <1>3, <1>4, <1>5 DEF McpInv, CoreInv

(* Whoever is let go of by everyone is in no call. *)
LEMMA LetGoKeeps ==
  ASSUME NEW map, NEW ths, NEW cls, NEW cs, CoreInv(map, ths, cls, cs), LetGo(map, ths, cls, cs)
  PROVE  CoreInv(mcp', threads', clients', callers') /\ UpHeld'
<1> DEFINE held == Holders(map, ths, cs)
<1>1. /\ mcp' = map /\ threads' = ths /\ callers' = cs
      /\ clients' = [k \in Conns |-> IF k \in held THEN cls[k] ELSE NoClient]
  BY DEF LetGo, Dropped
<1>2. \A c \in Callers : cs[c].client \in held
  BY DEF Holders
<1>3. held = Holders(mcp', threads', callers')
  BY <1>1
<1> HIDE DEF held
<1>4. CoreType(mcp', threads', clients', callers')
  BY <1>1, FreshClient DEF CoreInv, CoreType
<1>5. \A c \in Callers : cs[c].pc = "wait" => cs[c].client \in Conns /\ clients'[cs[c].client] = cls[cs[c].client]
  BY <1>1, <1>2, McpAssumption DEF CoreInv, CoreType, InUse, Caller, Conns
<1>6. Calls(clients', callers')
  <2>1. \A k \in Conns : Sane(clients'[k])
    BY <1>1, FreshClient DEF CoreInv, Calls
  <2> QED
    BY <1>1, <1>5, <2>1 DEF CoreInv, Calls
<1>7. UpHeld'
  BY <1>1, <1>3, FreshClient DEF UpHeld
<1> QED
  BY <1>1, <1>4, <1>6, <1>7 DEF CoreInv

(* A client learns of more senders and loses some of what travels. *)
LEMMA ClientChanges ==
  ASSUME NEW map, NEW ths, NEW cls, NEW cs, CoreInv(map, ths, cls, cs), NEW k \in Conns,
         NEW new \in Client, Sane(new), Moving(new) \subseteq Moving(cls[k]), cls[k].pending \subseteq new.pending
  PROVE  CoreInv(map, ths, [cls EXCEPT ![k] = new], cs)
<1> DEFINE now == [cls EXCEPT ![k] = new]
<1>1. /\ now \in [Conns -> Client] /\ now[k] = new
      /\ \A j \in Conns \ {k} : now[j] = cls[j]
  BY DEF CoreInv, CoreType
<1> HIDE DEF now
<1>2. \A c \in Callers : cs[c].pc = "wait" => cs[c].client \in Conns
  BY McpAssumption DEF CoreInv, CoreType, InUse, Caller, Conns
<1>3. ASSUME NEW c \in Callers, cs[c].pc = "wait" PROVE Own(now[cs[c].client], cs[c])
  BY <1>1, <1>2, <1>3 DEF CoreInv, Calls, Own
<1>4. Calls(now, cs)
  BY <1>1, <1>3 DEF CoreInv, Calls
<1>5. CoreType(map, ths, now, cs)
  BY <1>1 DEF CoreInv, CoreType
<1> QED
  BY <1>4, <1>5 DEF CoreInv, now

(* A call ends: its sender may go with it. *)
LEMMA CallEnds ==
  ASSUME NEW map, NEW ths, NEW cls, NEW cs, CoreInv(map, ths, cls, cs), NEW c \in Callers, NEW k \in Conns,
         k = cs[c].client, NEW new \in Client, Sane(new), Moving(new) \subseteq Moving(cls[k]),
         \A i \in cls[k].pending : i \in new.pending \/ (cs[c].pc = "wait" /\ i = cs[c].id)
  PROVE  CoreInv(map, ths, [cls EXCEPT ![k] = new], [cs EXCEPT ![c] = NoCall])
<1> DEFINE now  == [cls EXCEPT ![k] = new]
           rest == [cs EXCEPT ![c] = NoCall]
<1>1. /\ now \in [Conns -> Client] /\ now[k] = new
      /\ \A j \in Conns \ {k} : now[j] = cls[j]
      /\ rest \in [Callers -> Caller] /\ rest[c] = NoCall
      /\ \A d \in Callers \ {c} : rest[d] = cs[d]
  BY RestingCall DEF CoreInv, CoreType
<1> HIDE DEF now, rest
<1>2. \A d \in Callers : cs[d].pc = "wait" => cs[d].client \in Conns
  BY McpAssumption DEF CoreInv, CoreType, InUse, Caller, Conns
<1>3. ASSUME NEW d \in Callers, rest[d].pc = "wait" PROVE Own(now[rest[d].client], rest[d])
  <2>1. d # c /\ rest[d] = cs[d] /\ cs[d].pc = "wait" /\ cs[d].client \in Conns
    BY <1>1, <1>2, <1>3, RestingCall
  <2>2. Own(cls[cs[d].client], cs[d])
    BY <2>1 DEF CoreInv, Calls
  <2>3. CASE cs[d].client # k
    BY <1>1, <2>1, <2>2, <2>3
  <2>4. CASE cs[d].client = k
    <3>1. cs[c].pc = "wait" => cs[d].id # cs[c].id
      BY <2>1, <2>4 DEF CoreInv, Calls
    <3> QED
      BY <1>1, <2>1, <2>2, <2>4, <3>1 DEF Own
  <2> QED
    BY <2>3, <2>4
<1>4. Calls(now, rest)
  <2>1. \A j \in Conns : Sane(now[j])
    BY <1>1 DEF CoreInv, Calls
  <2>2. \A d \in Callers : rest[d].got # 0 => rest[d].got = rest[d].mine
    BY <1>1, RestingCall DEF CoreInv, Calls
  <2>3. \A d \in Callers : rest[d].pc = "wait" => d # c /\ rest[d] = cs[d]
    BY <1>1, RestingCall
  <2> QED
    BY <1>3, <2>1, <2>2, <2>3 DEF CoreInv, Calls
<1>5. CoreType(map, ths, now, rest)
  BY <1>1 DEF CoreInv, CoreType
<1>6. InUse(map, ths, rest)
  BY <1>1, RestingCall DEF CoreInv, InUse
<1> QED
  BY <1>4, <1>5, <1>6 DEF CoreInv, now, rest

-----------------------------------------------------------------------------
(* The steps: connections. *)

LEMMA StepSpawn ==
  ASSUME McpInv, NEW s \in ServerIds, SpawnConnect(s, threads), UNCHANGED <<mcp, callers>>
  PROVE  CoreInv(mcp', threads', clients', callers') /\ UpHeld'
<1> DEFINE started == [pc |-> "connecting", server |-> s, token |-> table[s].token]
           fresh   == [NoClient EXCEPT !.up = TRUE]
<1>1. PICK k \in Conns : /\ threads[k].pc = "none"
                         /\ threads' = [threads EXCEPT ![k] = started]
                         /\ clients' = [clients EXCEPT ![k] = fresh]
  BY DEF SpawnConnect
<1>2. started \in Thread /\ started.pc = "connecting"
  BY DEF Thread, McpInv, Tables, Row
<1>3. fresh \in Client /\ Sane(fresh)
  BY FreshClient
<1> HIDE DEF started, fresh
<1>4. /\ threads' \in [Conns -> Thread] /\ threads'[k].pc = "connecting"
      /\ \A j \in Conns \ {k} : threads'[j] = threads[j]
      /\ clients' \in [Conns -> Client] /\ clients'[k] = fresh
      /\ \A j \in Conns \ {k} : clients'[j] = clients[j]
      /\ mcp' = mcp /\ callers' = callers
  BY <1>1, <1>2, <1>3 DEF McpInv, CoreInv, CoreType
<1>5. /\ \A t \in ServerIds : mcp[t] # 0 => mcp[t] \in Conns \ {k}
      /\ \A c \in Callers : callers[c].client # 0 => callers[c].client \in Conns \ {k}
  BY <1>1, McpAssumption DEF McpInv, CoreInv, CoreType, InUse, Caller, Conns
<1>6. InUse(mcp', threads', callers')
  BY <1>4, <1>5 DEF McpInv, CoreInv, InUse
<1>7. Calls(clients', callers')
  <2>1. \A j \in Conns : Sane(clients'[j])
    BY <1>3, <1>4 DEF McpInv, CoreInv, Calls
  <2>2. \A c \in Callers : callers[c].pc = "wait" => clients'[callers[c].client] = clients[callers[c].client]
    BY <1>4, <1>5 DEF McpInv, CoreInv, InUse
  <2> QED
    BY <1>4, <2>1, <2>2 DEF McpInv, CoreInv, Calls
<1>8. UpHeld'
  BY <1>4 DEF McpInv, UpHeld, Holders
<1> QED
  BY <1>4, <1>6, <1>7, <1>8 DEF McpInv, CoreInv, CoreType

(* A server is taken out of the map. *)
LEMMA StepOff ==
  ASSUME McpInv, NEW s \in ServerIds, LetGo([mcp EXCEPT ![s] = 0], threads, clients, callers)
  PROVE  CoreInv(mcp', threads', clients', callers') /\ UpHeld'
<1> DEFINE map == [mcp EXCEPT ![s] = 0]
<1>1. map \in [ServerIds -> 0..MaxConnects] /\ \A t \in ServerIds : map[t] # 0 => map[t] = mcp[t]
  BY McpAssumption DEF McpInv, CoreInv, CoreType
<1> HIDE DEF map
<1>2. CoreInv(map, threads, clients, callers)
  BY <1>1 DEF McpInv, CoreInv, CoreType, InUse
<1> QED
  BY <1>2, LetGoKeeps DEF map

LEMMA StepConnectOk ==
  ASSUME McpInv, NEW k \in Conns, ConnectOk(k)
  PROVE  McpInv'
<1> DEFINE s == threads[k].server
           map == [mcp EXCEPT ![s] = k]
           ths == [threads EXCEPT ![k].pc = "done"]
<1>1. s \in ServerIds /\ threads[k] \in Thread
  BY DEF McpInv, CoreInv, CoreType, Thread
<1>2. /\ map \in [ServerIds -> 0..MaxConnects]
      /\ \A t \in ServerIds : map[t] = k \/ map[t] = mcp[t]
      /\ ths \in [Conns -> Thread] /\ ths[k].pc = "done"
      /\ \A j \in Conns \ {k} : ths[j] = threads[j]
  <2>1. k \in 0..MaxConnects
    BY McpAssumption DEF Conns
  <2>2. map \in [ServerIds -> 0..MaxConnects] /\ \A t \in ServerIds : map[t] = k \/ map[t] = mcp[t]
    BY <2>1 DEF McpInv, CoreInv, CoreType
  <2>3. ths \in [Conns -> Thread] /\ ths[k].pc = "done" /\ \A j \in Conns \ {k} : ths[j] = threads[j]
    BY <1>1 DEF McpInv, CoreInv, CoreType, Thread
  <2> QED
    BY <2>2, <2>3
<1>3. LetGo(map, ths, clients, callers) /\ sent' = sent
  BY DEF ConnectOk
<1>4. table' \in [ServerIds -> Row]
  BY <1>1 DEF ConnectOk, McpInv, Tables, Row
<1> HIDE DEF map, ths
<1>5. \A j \in Conns : threads[j].pc = "done" => ths[j].pc = "done"
  BY <1>2
<1>6. /\ \A t \in ServerIds : mcp[t] # 0 => mcp[t] \in Conns
      /\ \A c \in Callers : callers[c].client # 0 => callers[c].client \in Conns
  BY McpAssumption DEF McpInv, CoreInv, CoreType, Caller, Conns
<1>7. InUse(map, ths, callers)
  BY <1>2, <1>5, <1>6 DEF McpInv, CoreInv, InUse
<1>8. CoreInv(map, ths, clients, callers)
  BY <1>2, <1>7 DEF McpInv, CoreInv, CoreType
<1> QED
  BY <1>3, <1>4, <1>8, LetGoKeeps DEF McpInv, Tables

(* A thread that is connecting goes on to something else than done. *)
LEMMA ThreadGoesOn ==
  ASSUME McpInv, NEW k \in Conns, threads[k].pc # "done", NEW t \in Thread
  PROVE  CoreInv(mcp, [threads EXCEPT ![k] = t], clients, callers)
<1> DEFINE ths == [threads EXCEPT ![k] = t]
<1>1. ths \in [Conns -> Thread] /\ \A j \in Conns \ {k} : ths[j] = threads[j]
  BY DEF McpInv, CoreInv, CoreType
<1> HIDE DEF ths
<1>2. /\ \A s \in ServerIds : mcp[s] # 0 => mcp[s] \in Conns \ {k}
      /\ \A c \in Callers : callers[c].client # 0 => callers[c].client \in Conns \ {k}
  BY McpAssumption DEF McpInv, CoreInv, CoreType, InUse, Caller, Conns
<1>3. InUse(mcp, ths, callers)
  BY <1>1, <1>2 DEF McpInv, CoreInv, InUse
<1> QED
  BY <1>1, <1>3 DEF McpInv, CoreInv, CoreType, ths

LEMMA StepOAuth ==
  ASSUME McpInv, NEW k \in Conns, OAuthBegins(k) \/ OAuthGranted(k)
  PROVE  McpInv'
<1>1. PICK pc \in {"oauth", "connecting"}, token \in BOOLEAN :
        threads' = [threads EXCEPT ![k].pc = pc, ![k].token = token]
  <2>1. threads[k].token \in BOOLEAN
    BY DEF McpInv, CoreInv, CoreType, Thread
  <2>2. CASE OAuthBegins(k)
    <3>1. threads' = [threads EXCEPT ![k].pc = "oauth", ![k].token = threads[k].token]
      BY <2>2 DEF OAuthBegins, McpInv, CoreInv, CoreType, Thread
    <3> QED
      BY <2>1, <3>1
  <2>3. CASE OAuthGranted(k)
    BY <2>3 DEF OAuthGranted
  <2> QED
    BY <2>2, <2>3
<1> DEFINE t == [threads[k] EXCEPT !.pc = pc, !.token = token]
<1>2. t \in Thread /\ t.pc \in {"oauth", "connecting"}
  BY DEF McpInv, CoreInv, CoreType, Thread
<1>3. threads' = [threads EXCEPT ![k] = t]
  BY <1>1 DEF McpInv, CoreInv, CoreType
<1>4. threads[k].pc \in {"oauth", "connecting"} /\ UNCHANGED <<table, mcp, clients, callers, sent>>
  BY DEF OAuthBegins, OAuthGranted
<1> HIDE DEF t
<1>5. CoreInv(mcp', threads', clients', callers')
  BY <1>2, <1>3, <1>4, ThreadGoesOn
<1>6. \A j \in Conns : threads[j].pc \in {"connecting", "oauth"} => threads'[j].pc \in {"connecting", "oauth"}
  BY <1>2, <1>3 DEF McpInv, CoreInv, CoreType
<1>7. UpHeld'
  BY <1>4, <1>6 DEF McpInv, UpHeld, Holders
<1> QED
  BY <1>4, <1>5, <1>7 DEF McpInv, Tables

LEMMA StepConnectFails ==
  ASSUME McpInv, NEW k \in Conns, ConnectFails(k)
  PROVE  McpInv'
<1> DEFINE t == [threads[k] EXCEPT !.pc = "failed"]
<1>1. t \in Thread /\ [threads EXCEPT ![k].pc = "failed"] = [threads EXCEPT ![k] = t]
  BY DEF McpInv, CoreInv, CoreType, Thread
<1>2. LetGo(mcp, [threads EXCEPT ![k] = t], clients, callers) /\ UNCHANGED <<table, sent>> /\ threads[k].pc # "done"
  BY <1>1 DEF ConnectFails
<1> HIDE DEF t
<1> QED
  BY <1>1, <1>2, ThreadGoesOn, LetGoKeeps DEF McpInv, Tables
-----------------------------------------------------------------------------
(* The steps: calls. *)

LEMMA StepCallTool ==
  ASSUME McpInv, NEW c \in Callers, NEW s \in ServerIds, CallTool(c, s)
  PROVE  McpInv'
<1> DEFINE x    == NoCall
           call == [x EXCEPT !.pc = "send", !.server = s, !.client = mcp[s], !.mine = sent + 1]
<1>0. x \in Caller /\ x.got = 0
  BY RestingCall
<1> HIDE DEF x
<1>1. /\ mcp[s] \in 0..MaxConnects /\ mcp[s] # 0 /\ threads[mcp[s]].pc = "done" /\ sent + 1 \in 0..MaxSent /\ sent + 1 \in Nat
      /\ callers[c].pc = "idle" /\ callers[c].client = 0
  BY McpAssumption DEF CallTool, McpInv, CoreInv, CoreType, InUse, Tables
<1>2. /\ call \in Caller /\ call.pc = "send" /\ call.client = mcp[s] /\ call.got = 0
  BY <1>0, <1>1 DEF Caller
<1>3. callers' = [callers EXCEPT ![c] = call] /\ sent' = sent + 1 /\ UNCHANGED <<table, mcp, threads, clients>>
  BY DEF CallTool, x
<1> HIDE DEF call
<1>4. /\ callers' \in [Callers -> Caller] /\ callers'[c] = call
      /\ \A d \in Callers \ {c} : callers'[d] = callers[d]
  BY <1>2, <1>3 DEF McpInv, CoreInv, CoreType
<1>5. InUse(mcp', threads', callers')
  BY <1>1, <1>2, <1>3, <1>4 DEF McpInv, CoreInv, InUse
<1>6. Calls(clients', callers')
  <2>1. \A d \in Callers : callers'[d].pc = "wait" => d # c /\ callers'[d] = callers[d]
    BY <1>2, <1>4
  <2>2. \A d \in Callers : callers'[d].got # 0 => callers'[d].got = callers'[d].mine
    BY <1>2, <1>4 DEF McpInv, CoreInv, Calls
  <2> QED
    BY <1>3, <2>1, <2>2 DEF McpInv, CoreInv, Calls
<1>7. UpHeld'
  <2>1. \A k \in Conns : k # 0
    BY McpAssumption DEF Conns
  <2>2. \A k \in Conns : (\E d \in Callers : callers[d].client = k) => \E d \in Callers : callers'[d].client = k
    BY <1>1, <1>4, <2>1
  <2> QED
    BY <1>3, <2>2 DEF McpInv, UpHeld, Holders
<1> QED
  BY <1>1, <1>3, <1>4, <1>5, <1>6, <1>7 DEF McpInv, CoreInv, CoreType, Tables

LEMMA StepSendCall ==
  ASSUME McpInv, NEW c \in Callers, SendCall(c)
  PROVE  McpInv'
<1> DEFINE k     == callers[c].client
           cl    == clients[k]
           q     == [id |-> cl.next_id, call |-> callers[c].mine]
           noted == [cl EXCEPT !.next_id = @ + 1, !.pending = @ \cup {cl.next_id}]
           new   == [noted EXCEPT !.asked = @ \cup {q}]
<1>1. k \in Conns /\ cl \in Client /\ Sane(cl) /\ callers[c].pc = "send" /\ callers[c] \in Caller
  BY McpAssumption DEF SendCall, McpInv, CoreInv, CoreType, InUse, Calls, Caller, Conns
<1>2. /\ UNCHANGED <<table, sent>>
      /\ q \in Frame /\ q.id = cl.next_id /\ q.call = callers[c].mine
  BY <1>1 DEF SendCall, Client, Caller, Frame
<1>2a. /\ noted \in Client /\ Sane(noted) /\ Moving(noted) = Moving(cl)
       /\ noted.pending = cl.pending \cup {q.id} /\ noted.up = cl.up
       /\ new \in Client /\ Sane(new) /\ Moving(new) = Moving(cl) \cup {q}
       /\ new.pending = cl.pending \cup {q.id} /\ new.up = cl.up
       /\ \A p \in Moving(cl) : p.id # q.id
       /\ q.id \notin cl.pending
  BY <1>1, <1>2, CallSent, Zenon
<1>3. CASE ~cl.up
  <2>1. LetGo(mcp, threads, [clients EXCEPT ![k] = noted], [callers EXCEPT ![c] = NoCall])
    BY <1>3 DEF SendCall, EndCall
  <2>2. noted \in Client /\ Sane(noted) /\ Moving(noted) = Moving(cl) /\ cl.pending \subseteq noted.pending
    <3> HIDE DEF noted, cl, q
    <3> QED
      BY <1>2a
  <2>3. CoreInv(mcp, threads, [clients EXCEPT ![k] = noted], [callers EXCEPT ![c] = NoCall])
    <3> HIDE DEF noted
    <3> QED
      BY <1>1, <2>2, CallEnds DEF McpInv
  <2> QED
    BY <1>2, <2>1, <2>3, LetGoKeeps DEF McpInv, Tables
<1>4. CASE cl.up
  <2>1. q \in Frame /\ q.id = cl.next_id /\ q.call = callers[c].mine
    BY <1>2
  <2> DEFINE waits == [callers[c] EXCEPT !.pc = "wait", !.id = q.id]
  <2>2. /\ clients' = [clients EXCEPT ![k] = new]
        /\ callers' = [callers EXCEPT ![c] = waits]
        /\ UNCHANGED <<mcp, threads>>
    BY <1>4 DEF SendCall, McpInv, CoreInv, CoreType
  <2>3. /\ waits \in Caller /\ waits.pc = "wait" /\ waits.id = q.id /\ waits.client = k
        /\ waits.mine = q.call /\ waits.got = callers[c].got
    BY <1>1, <2>1 DEF Caller, Frame
  <2>4. /\ new \in Client /\ Sane(new) /\ Moving(new) = Moving(cl) \cup {q}
        /\ new.pending = cl.pending \cup {q.id} /\ new.up = cl.up
        /\ \A p \in Moving(cl) : p.id # q.id
        /\ q.id \notin cl.pending
    BY <1>2a
  <2> HIDE DEF new, waits, q
  <2>5. /\ clients' \in [Conns -> Client] /\ clients'[k] = new
        /\ \A j \in Conns \ {k} : clients'[j] = clients[j]
        /\ callers' \in [Callers -> Caller] /\ callers'[c] = waits
        /\ \A d \in Callers \ {c} : callers'[d] = callers[d]
    BY <1>1, <2>2, <2>3, <2>4 DEF McpInv, CoreInv, CoreType
  <2>6. InUse(mcp', threads', callers')
    BY <1>1, <2>2, <2>3, <2>5 DEF McpInv, CoreInv, InUse
  <2>7. ASSUME NEW d \in Callers, d # c, callers[d].pc = "wait"
        PROVE  /\ callers[d].client \in Conns /\ Own(clients'[callers[d].client], callers[d])
               /\ callers[d].client = k => callers[d].id # q.id
    <3>1. callers[d].client \in Conns /\ Own(clients[callers[d].client], callers[d])
      BY <2>7, McpAssumption DEF McpInv, CoreInv, CoreType, InUse, Calls, Caller, Conns
    <3>2. CASE callers[d].client # k
      BY <2>5, <3>1, <3>2
    <3>3. CASE callers[d].client = k
      <4>1. callers[d].id \in cl.pending /\ callers[d].id # q.id
        BY <2>4, <3>1, <3>3 DEF Own
      <4> QED
        BY <2>4, <2>5, <3>1, <3>3, <4>1 DEF Own
    <3> QED
      BY <3>1, <3>2, <3>3
  <2>8. Own(new, waits)
    BY <2>3, <2>4 DEF Own
  <2>9. Calls(clients', callers')
    <3>1. \A j \in Conns : Sane(clients'[j])
      BY <2>4, <2>5 DEF McpInv, CoreInv, Calls
    <3>2. \A d \in Callers : callers'[d].pc = "wait" => Own(clients'[callers'[d].client], callers'[d])
      BY <2>3, <2>5, <2>7, <2>8
    <3>3. \A d, e \in Callers : d # e /\ callers'[d].pc = "wait" /\ callers'[e].pc = "wait"
            /\ callers'[d].client = callers'[e].client => callers'[d].id # callers'[e].id
      BY <2>3, <2>5, <2>7 DEF McpInv, CoreInv, Calls
    <3>4. \A d \in Callers : callers'[d].got # 0 => callers'[d].got = callers'[d].mine
      BY <1>1, <2>1, <2>3, <2>5 DEF McpInv, CoreInv, Calls
    <3> QED
      BY <3>1, <3>2, <3>3, <3>4 DEF Calls
  <2>10. UpHeld'
    <3>1. \A d \in Callers : callers'[d].client = callers[d].client
      BY <2>3, <2>5
    <3>2. \A j \in Conns : clients'[j].up = clients[j].up
      BY <2>4, <2>5
    <3> QED
      BY <2>2, <3>1, <3>2 DEF McpInv, UpHeld, Holders
  <2> QED
    BY <1>2, <2>2, <2>5, <2>6, <2>9, <2>10 DEF McpInv, CoreInv, CoreType, Tables
<1> QED
  BY <1>3, <1>4

(* The server takes an answer out, or dies: the client's own steps.        *)
LEMMA StepServer ==
  ASSUME McpInv, NEW k \in Conns, ServerAnswersCall(k) \/ McpServerDies(k)
  PROVE  McpInv'
<1>1. PICK new \in Client :
        /\ clients' = [clients EXCEPT ![k] = new]
        /\ Moving(new) = Moving(clients[k]) /\ new.pending = clients[k].pending /\ new.next_id = clients[k].next_id
        /\ new.up => clients[k].up
  <2>1. clients[k] \in Client
    BY DEF McpInv, CoreInv, CoreType
  <2>2. CASE ServerAnswersCall(k)
    <3>1. PICK q \in clients[k].asked :
            clients' = [clients EXCEPT ![k] = [clients[k] EXCEPT !.asked = @ \ {q}, !.replies = Append(@, q)]]
      BY <2>1, <2>2 DEF ServerAnswersCall, McpInv, CoreInv, CoreType
    <3> DEFINE new == [clients[k] EXCEPT !.asked = @ \ {q}, !.replies = Append(@, q)]
    <3>2. new \in Client /\ Moving(new) = Moving(clients[k])
      BY <2>1, AnswerTravels
    <3>3. new.pending = clients[k].pending /\ new.next_id = clients[k].next_id /\ new.up = clients[k].up
      BY <2>1 DEF Client
    <3> HIDE DEF new
    <3> QED
      BY <3>1, <3>2, <3>3 DEF new
  <2>3. CASE McpServerDies(k)
    <3> DEFINE new == [clients[k] EXCEPT !.up = FALSE]
    <3>1. clients' = [clients EXCEPT ![k] = new]
      BY <2>3 DEF McpServerDies, McpInv, CoreInv, CoreType
    <3>2. /\ new \in Client /\ new.pending = clients[k].pending /\ new.next_id = clients[k].next_id
          /\ new.asked = clients[k].asked /\ new.replies = clients[k].replies /\ ~new.up
      BY <2>1 DEF Client
    <3> HIDE DEF new
    <3>3. Moving(new) = Moving(clients[k])
      BY <3>2 DEF Moving
    <3> QED
      BY <3>1, <3>2, <3>3
  <2> QED
    BY <2>2, <2>3
<1>2. Sane(new)
  BY <1>1 DEF McpInv, CoreInv, Calls, Sane
<1>3. UNCHANGED <<table, mcp, threads, callers, sent>>
  BY DEF ServerAnswersCall, McpServerDies
<1>4. CoreInv(mcp', threads', clients', callers')
  BY <1>1, <1>2, <1>3, ClientChanges DEF McpInv
<1>5. UpHeld'
  <2>1. \A j \in Conns : clients'[j].up => clients[j].up
    BY <1>1 DEF McpInv, CoreInv, CoreType
  <2> QED
    BY <1>3, <2>1 DEF McpInv, UpHeld, Holders
<1> QED
  BY <1>3, <1>4, <1>5 DEF McpInv, Tables

(* A reply is handed over: whoever waits under its id is its caller.       *)
LEMMA StepReader ==
  ASSUME McpInv, NEW k \in Conns, ReaderRoutes(k)
  PROVE  McpInv'
<1> DEFINE cl   == clients[k]
           r    == Head(cl.replies)
           new  == [cl EXCEPT !.replies = Tail(@), !.pending = @ \ {r.id}]
           T(d) == callers[d].pc = "wait" /\ callers[d].client = k /\ callers[d].id = r.id /\ r.id \in cl.pending
           told(d) == [callers[d] EXCEPT !.pc = "answered", !.got = r.call]
<1>1. /\ clients' = [clients EXCEPT ![k] = new] /\ cl.replies # <<>>
      /\ callers' = [d \in Callers |-> IF T(d) THEN told(d) ELSE callers[d]]
      /\ UNCHANGED <<table, mcp, threads, sent>>
  BY DEF ReaderRoutes
<1>2. /\ cl \in Client /\ r \in Moving(cl) /\ r \in Frame /\ new \in Client
      /\ Moving(new) \subseteq Moving(cl)
      /\ new.next_id = cl.next_id /\ new.pending = cl.pending \ {r.id} /\ new.up = cl.up
  BY <1>1, ReplyTaken DEF McpInv, CoreInv, CoreType
<1>3. Sane(new)
  BY <1>2 DEF McpInv, CoreInv, Calls, Sane
<1>4. ASSUME NEW d \in Callers
      PROVE  /\ told(d) \in Caller /\ told(d).pc = "answered" /\ told(d).client = callers[d].client
             /\ told(d).got = r.call /\ told(d).mine = callers[d].mine
  BY <1>2 DEF McpInv, CoreInv, CoreType, Caller, Frame
<1>5. ASSUME NEW d \in Callers, T(d) PROVE r.call = callers[d].mine
  BY <1>2, <1>5 DEF McpInv, CoreInv, Calls, Own
<1> HIDE DEF new, told, r
<1>6. /\ clients' \in [Conns -> Client] /\ clients'[k] = new
      /\ \A j \in Conns \ {k} : clients'[j] = clients[j]
      /\ callers' \in [Callers -> Caller]
      /\ \A d \in Callers : callers'[d] = IF T(d) THEN told(d) ELSE callers[d]
  BY <1>1, <1>2, <1>4 DEF McpInv, CoreInv, CoreType
<1>7. InUse(mcp', threads', callers')
  BY <1>1, <1>4, <1>6 DEF McpInv, CoreInv, InUse
<1>8. ASSUME NEW d \in Callers, callers'[d].pc = "wait"
      PROVE  callers'[d] = callers[d] /\ Own(clients'[callers[d].client], callers[d])
  <2>1. callers'[d] = callers[d] /\ ~T(d)
    BY <1>4, <1>6, <1>8
  <2>2. callers[d].client \in Conns /\ Own(clients[callers[d].client], callers[d])
    BY <1>8, <2>1, McpAssumption DEF McpInv, CoreInv, CoreType, InUse, Calls, Caller, Conns
  <2>3. CASE callers[d].client # k
    BY <1>6, <2>1, <2>2, <2>3
  <2>4. CASE callers[d].client = k
    <3>1. callers[d].id \in cl.pending /\ callers[d].id # r.id
      BY <1>8, <2>1, <2>2, <2>4 DEF Own
    <3> QED
      BY <1>2, <1>6, <2>1, <2>2, <2>4, <3>1 DEF Own
  <2> QED
    BY <2>3, <2>4
<1>9. Calls(clients', callers')
  <2>1. \A j \in Conns : Sane(clients'[j])
    BY <1>3, <1>6 DEF McpInv, CoreInv, Calls
  <2>2. \A d \in Callers : callers'[d].got # 0 => callers'[d].got = callers'[d].mine
    BY <1>4, <1>5, <1>6 DEF McpInv, CoreInv, Calls
  <2> QED
    BY <1>8, <2>1, <2>2 DEF McpInv, CoreInv, Calls
<1>10. UpHeld'
  <2>1. \A d \in Callers : callers'[d].client = callers[d].client
    BY <1>4, <1>6
  <2>2. \A j \in Conns : clients'[j].up = clients[j].up
    BY <1>2, <1>6
  <2> QED
    BY <1>1, <2>1, <2>2 DEF McpInv, UpHeld, Holders
<1> QED
  BY <1>1, <1>6, <1>7, <1>9, <1>10 DEF McpInv, CoreInv, CoreType, Tables

(* A call ends with its answer, or runs out of time and takes its sender    *)
(* along.                                                                  *)
LEMMA StepCallEnds ==
  ASSUME McpInv, NEW c \in Callers, ReturnAnswer(c) \/ CallTimesOut(c)
  PROVE  McpInv'
<1> DEFINE k    == callers[c].client
           rest == [callers EXCEPT ![c] = NoCall]
<1>1. k \in Conns /\ clients[k] \in Client /\ Sane(clients[k]) /\ UNCHANGED <<table, sent>>
  BY McpAssumption DEF ReturnAnswer, CallTimesOut, McpInv, CoreInv, CoreType, InUse, Calls, Caller, Conns
<1>2. CASE ReturnAnswer(c)
  <2>1. [clients EXCEPT ![k] = clients[k]] = clients
    BY DEF McpInv, CoreInv, CoreType
  <2>2. LetGo(mcp, threads, clients, rest)
    BY <1>2 DEF ReturnAnswer, EndCall
  <2>3. CoreInv(mcp, threads, [clients EXCEPT ![k] = clients[k]], rest)
    BY <1>1, CallEnds DEF McpInv
  <2>4. CoreInv(mcp, threads, clients, rest)
    BY <2>1, <2>3
  <2> HIDE DEF rest
  <2> QED
    BY <1>1, <2>2, <2>4, LetGoKeeps DEF McpInv, Tables
<1>3. CASE CallTimesOut(c)
  <2> DEFINE new == [clients[k] EXCEPT !.pending = @ \ {callers[c].id}]
             cls == [clients EXCEPT ![k] = new]
  <2>1. LetGo(mcp, threads, cls, rest) /\ callers[c].pc = "wait"
    <3>1. [clients EXCEPT ![k].pending = @ \ {callers[c].id}] = cls
      BY DEF McpInv, CoreInv, CoreType
    <3> QED
      BY <1>3, <3>1 DEF CallTimesOut, EndCall
  <2>2. /\ new \in Client /\ new.pending = clients[k].pending \ {callers[c].id} /\ new.next_id = clients[k].next_id
        /\ new.asked = clients[k].asked /\ new.replies = clients[k].replies
    BY <1>1 DEF Client
  <2> HIDE DEF new
  <2>3. Moving(new) = Moving(clients[k])
    BY <2>2 DEF Moving
  <2>4. Sane(new)
    BY <1>1, <2>2, <2>3 DEF Sane
  <2>5. CoreInv(mcp, threads, cls, rest)
    BY <1>1, <2>1, <2>2, <2>3, <2>4, CallEnds DEF McpInv
  <2> HIDE DEF cls, rest
  <2> QED
    BY <1>1, <2>1, <2>5, LetGoKeeps DEF McpInv, Tables
<1> QED
  BY <1>2, <1>3

-----------------------------------------------------------------------------
(* A row of the table is replaced or turned on or off. *)
LEMMA RowTypes ==
  ASSUME Tables, NEW s \in ServerIds, NEW row \in {"on", "off", "deleted"}
  PROVE  /\ [table EXCEPT ![s] = [row |-> row, token |-> FALSE]] \in [ServerIds -> Row]
         /\ [table EXCEPT ![s].row = row] \in [ServerIds -> Row]
<1>1. [row |-> row, token |-> FALSE] \in Row /\ [table[s] EXCEPT !.row = row] \in Row
  BY DEF Tables, Row
<1> QED
  BY <1>1 DEF Tables

LEMMA McpStep == McpInv /\ [McpNext]_mcpvars => McpInv'
<1> SUFFICES ASSUME McpInv, [McpNext]_mcpvars PROVE McpInv'
  OBVIOUS
<1>1. ASSUME NEW s \in ServerIds, ConnectAtStart(s) \/ CreateMcpServer(s) \/ ToggleOn(s) PROVE McpInv'
  <2>1. SpawnConnect(s, threads) /\ UNCHANGED <<mcp, callers, sent>>
    BY <1>1 DEF ConnectAtStart, CreateMcpServer, ToggleOn
  <2>2. table' \in [ServerIds -> Row]
    <3>1. Tables
      BY DEF McpInv
    <3>2. CASE ConnectAtStart(s)
      BY <3>1, <3>2 DEF ConnectAtStart, Tables
    <3>3. CASE CreateMcpServer(s)
      BY <3>1, <3>3, RowTypes DEF CreateMcpServer
    <3>4. CASE ToggleOn(s)
      BY <3>1, <3>4, RowTypes DEF ToggleOn
    <3> QED
      BY <1>1, <3>2, <3>3, <3>4
  <2> QED
    BY <2>1, <2>2, StepSpawn DEF McpInv, Tables
<1>2. ASSUME NEW s \in ServerIds, ToggleOff(s) \/ DeleteMcpServer(s) PROVE McpInv'
  <2>1. LetGo([mcp EXCEPT ![s] = 0], threads, clients, callers) /\ sent' = sent
    BY <1>2 DEF ToggleOff, DeleteMcpServer
  <2>2. table' \in [ServerIds -> Row]
    <3>1. Tables
      BY DEF McpInv
    <3>2. CASE ToggleOff(s)
      BY <3>1, <3>2, RowTypes DEF ToggleOff
    <3>3. CASE DeleteMcpServer(s)
      BY <3>1, <3>3, RowTypes DEF DeleteMcpServer
    <3> QED
      BY <1>2, <3>2, <3>3
  <2> QED
    BY <2>1, <2>2, StepOff DEF McpInv, Tables
<1>3. ASSUME NEW k \in Conns, ConnectOk(k) PROVE McpInv'
  BY <1>3, StepConnectOk
<1>4. ASSUME NEW k \in Conns, OAuthBegins(k) \/ OAuthGranted(k) PROVE McpInv'
  BY <1>4, StepOAuth
<1>5. ASSUME NEW k \in Conns, ConnectFails(k) PROVE McpInv'
  BY <1>5, StepConnectFails
<1>6. ASSUME NEW k \in Conns, ServerAnswersCall(k) \/ McpServerDies(k) PROVE McpInv'
  BY <1>6, StepServer
<1>7. ASSUME NEW k \in Conns, ReaderRoutes(k) PROVE McpInv'
  BY <1>7, StepReader
<1>8. ASSUME NEW c \in Callers, NEW s \in ServerIds, CallTool(c, s) PROVE McpInv'
  BY <1>8, StepCallTool
<1>9. ASSUME NEW c \in Callers, SendCall(c) PROVE McpInv'
  BY <1>9, StepSendCall
<1>10. ASSUME NEW c \in Callers, ReturnAnswer(c) \/ CallTimesOut(c) PROVE McpInv'
  BY <1>10, StepCallEnds
<1>11. ASSUME UNCHANGED mcpvars PROVE McpInv'
  BY <1>11 DEF mcpvars, McpInv, Tables, CoreInv, CoreType, InUse, Calls, UpHeld, Holders
<1> QED
  BY <1>1, <1>2, <1>3, <1>4, <1>5, <1>6, <1>7, <1>8, <1>9, <1>10, <1>11 DEF McpNext

LEMMA McpMeans == McpInv => McpTypeOK /\ AnswersOwnCall
<1>1. McpInv => McpTypeOK
  BY DEF McpInv, Tables, CoreInv, CoreType, Calls, Sane, Caller, McpTypeOK
<1>2. McpInv => AnswersOwnCall
  BY DEF McpInv, CoreInv, Calls, Own, UpHeld, AnswersOwnCall
<1> QED
  BY <1>1, <1>2

(* A tool call on an MCP server returns the answer to itself or none,       *)
(* however the calls on its client overlap, time out and are answered late  *)
(* or in another order; its client lives as long as it does; and whoever    *)
(* nobody holds is gone (mcp-client lib.rs request and the reader thread,   *)
(* mcp.rs, commands.rs toggle_mcp_server and delete_mcp_server).            *)
THEOREM AnswersAreOwn == McpSpec => []AnswersOwnCall
<1> QED
  BY McpInitInv, McpStep, McpMeans, PTL DEF McpSpec

-----------------------------------------------------------------------------
(***************************************************************************)
(* Theorems about LspPool, for any number of tool calls, documents,        *)
(* binaries, servers, crashes and messages, and for any size of the pool:  *)
(* an answer that a call returns is computed from the text this call read; *)
(* and every server has one owner, the pool or a call (LspMeans).          *)
(*                                                                         *)
(* OwnTextAnswered is about one step, and what makes it true happened long *)
(* before: LspInv keeps it up. Talk says what the queues hold for the call *)
(* of a session: the last text on its way to the server, or else what the  *)
(* server knows, is the text the call read (Told); its question is behind  *)
(* every text (AskedLast); what travels back under its id was computed from*)
(* its text (AnsweredFrom). Below says that no id was given out twice, so  *)
(* nothing that an earlier call left in the queues is taken for an answer. *)
(* Owned says that a session is held by one at a time, which is why nobody *)
(* else sends a text in between.                                           *)
(***************************************************************************)
TextFrame  == [kind : {"didOpen", "didChange"}, doc : Docs, text : Texts]
AskFrame   == [kind : {"ask"}, doc : Docs, id : Nat \ {0}]
ReplyFrame == [kind : {"reply"}]
ToServer   == TextFrame \cup AskFrame \cup ReplyFrame
AnswerFrame == [kind : {"answer"}, id : Nat, text : Texts]
FromServer == AnswerFrame \cup [kind : {"diagnostics"}, doc : Docs, text : Texts, empty : BOOLEAN] \cup [kind : {"request", "eof"}]

Server ==
  [alive : BOOLEAN, exe : Exes \cup {"none"}, knows : [Docs -> Texts], asked : Nat, about : Docs, blocked : BOOLEAN,
   inbox : Seq(ToServer), rx : Seq(FromServer), open_docs : SUBSET Docs, next_id : Nat \ {0}]
Lookup ==
  [pc : {"idle", "start", "sync", "ask", "wait", "collect"}, tool : {"position", "diagnostics"}, doc : Docs,
   exe : Exes \cup {"none"}, text : Texts, proc : 0..MaxProcs, id : Nat, got : Nat]
Entry == [exe : Exes \cup {"none"}, proc : 1..MaxProcs]

(* The text of a document that the server will know when it has read all   *)
(* that was sent to it.                                                     *)
IsText(f)           == f.kind \in {"didOpen", "didChange"}
TextOf(inbox, i, d) == IsText(inbox[i]) /\ inbox[i].doc = d
Told(inbox, knows, d, t) ==
  \/ \E i \in 1..Len(inbox) : /\ TextOf(inbox, i, d) /\ inbox[i].text = t
                              /\ \A j \in 1..Len(inbox) : TextOf(inbox, j, d) => j <= i
  \/ knows[d] = t /\ \A j \in 1..Len(inbox) : ~TextOf(inbox, j, d)

(* A question comes after every text. *)
AskOf(inbox, j, id) == inbox[j].kind = "ask" /\ inbox[j].id = id
AskedLast(inbox, id, d) ==
  \A j \in 1..Len(inbox) : AskOf(inbox, j, id) => inbox[j].doc = d /\ \A i \in 1..Len(inbox) : IsText(inbox[i]) => i < j
NoText(inbox) == \A i \in 1..Len(inbox) : ~IsText(inbox[i])

(* Ids that were given out. *)
AsksBelow(inbox, n) == \A i \in 1..Len(inbox) : inbox[i].kind = "ask" => inbox[i].id < n
AnswersBelow(rx, n) == \A i \in 1..Len(rx) : rx[i].kind = "answer" => rx[i].id < n
Below(s)            == s.asked < s.next_id /\ AsksBelow(s.inbox, s.next_id) /\ AnswersBelow(s.rx, s.next_id)

(* What is answered under an id is computed from this text. *)
AnsweredFrom(rx, id, t) == \A i \in 1..Len(rx) : rx[i].kind = "answer" /\ rx[i].id = id => rx[i].text \in {0, t}

Waiting(s, x) ==
  /\ x.id < s.next_id /\ x.id # 0 /\ AskedLast(s.inbox, x.id, x.doc)
  /\ s.asked = x.id => s.about = x.doc /\ NoText(s.inbox)
  /\ AnsweredFrom(s.rx, x.id, x.text)

(* A server and the call that has it. *)
Talk(s, x) ==
  /\ x.pc \in {"ask", "wait"} => Told(s.inbox, s.knows, x.doc, x.text)
  /\ x.pc = "wait" => Waiting(s, x)

Distinct(pool) ==
  \A i, j \in 1..Len(pool) : i # j => pool[i].exe # pool[j].exe /\ pool[i].proc # pool[j].proc

Pool(pool) == pool \in Seq(Entry) /\ Distinct(pool)

(* Each server has one owner. *)
Owned(all, pool, ops) ==
  /\ \A o, q \in Lookups : o # q /\ ops[o].proc # 0 => ops[o].proc # ops[q].proc
  /\ \A o \in Lookups : ops[o].proc \notin Held(pool)
  /\ \A p \in 1..MaxProcs : all[p] # Gone <=> p \in Held(pool) \/ \E o \in Lookups : ops[o].proc = p

Going(all, ops) ==
  /\ \A p \in 1..MaxProcs : all[p] # Gone => Below(all[p])
  /\ \A o \in Lookups : ops[o].proc # 0 => Talk(all[ops[o].proc], ops[o])

Procs   == [1..MaxProcs -> Server \cup {Gone}]
Started(x) == x.proc = 0 <=> x.pc \in {"idle", "start"}

LspCore(all, pool, ops) ==
  /\ all \in Procs /\ Pool(pool) /\ Len(pool) <= MaxPooled
  /\ ops \in [Lookups -> Lookup] /\ \A o \in Lookups : Started(ops[o])
  /\ Owned(all, pool, ops) /\ Going(all, ops)

Sources == disk \in [Docs -> Texts] /\ lspcfg \in Exes \cup {"off"}

LspInv == Sources /\ LspCore(procs, pooled, lookups)

-----------------------------------------------------------------------------
(* Frames. *)
LEMMA ToServerKinds ==
  ASSUME NEW f \in ToServer
  PROVE  /\ f.kind \in {"didOpen", "didChange", "ask", "reply"}
         /\ IsText(f) => f \in TextFrame /\ f.doc \in Docs /\ f.text \in Texts
         /\ f.kind = "ask" => f \in AskFrame /\ f.doc \in Docs /\ f.id \in Nat \ {0}
         /\ f.kind = "reply" => f \in ReplyFrame
BY DEF ToServer, TextFrame, AskFrame, ReplyFrame, IsText

LEMMA FromServerKinds ==
  ASSUME NEW f \in FromServer
  PROVE  /\ f.kind \in {"answer", "diagnostics", "request", "eof"}
         /\ f.kind = "answer" => f.id \in Nat /\ f.text \in Texts
         /\ f.kind = "diagnostics" => f.doc \in Docs /\ f.text \in Texts
BY DEF FromServer, AnswerFrame

LEMMA NotGone == \A s \in Server : s # Gone /\ (s.alive <=> s.alive = TRUE)
<1> SUFFICES ASSUME NEW s \in Server PROVE s # Gone
  BY DEF Server
<1>1. "exe" \in DOMAIN s /\ "exe" \notin DOMAIN Gone
  BY DEF Server, Gone
<1> QED BY <1>1

(* Replies, and only they. *)
LEMMA ReplyIs ==
  ASSUME NEW frames \in Seq(FromServer)
  PROVE  Reply(frames) \in Seq(ReplyFrame)
<1> DEFINE asked == {j \in DOMAIN frames : frames[j].kind = "request"}
<1>1. DOMAIN frames = 1..Len(frames) /\ Len(frames) \in Nat
  OBVIOUS
<1>2. IsFiniteSet(1..Len(frames))
  BY <1>1, FS_Interval
<1>3. IsFiniteSet(asked)
  BY <1>1, <1>2, FS_Subset
<1>4. Cardinality(asked) \in Nat
  BY <1>3, FS_CardinalityType
<1> HIDE DEF asked
<1>5. \A n \in Nat : [i \in 1..n |-> [kind |-> "reply"]] \in Seq(ReplyFrame)
  BY DEF ReplyFrame
<1> QED BY <1>4, <1>5 DEF Reply, asked

(* More is sent that is neither a text nor a question; a text is sent; a    *)
(* question is asked.                                                       *)
LEMMA RepliesSent ==
  ASSUME NEW inbox \in Seq(ToServer), NEW more \in Seq(ReplyFrame)
  PROVE  /\ inbox \o more \in Seq(ToServer)
         /\ \A knows, d, t : Told(inbox, knows, d, t) => Told(inbox \o more, knows, d, t)
         /\ \A n : AsksBelow(inbox, n) => AsksBelow(inbox \o more, n)
         /\ \A id, d : AskedLast(inbox, id, d) => AskedLast(inbox \o more, id, d)
         /\ NoText(inbox) => NoText(inbox \o more)
<1> DEFINE all == inbox \o more
<1>1. Len(inbox) \in Nat /\ Len(more) \in Nat /\ Len(all) = Len(inbox) + Len(more)
  OBVIOUS
<1>2. \A i \in 1..Len(inbox) : all[i] = inbox[i] /\ i \in 1..Len(all)
  OBVIOUS
<1>3. ASSUME NEW i \in 1..Len(all), i \notin 1..Len(inbox) PROVE all[i].kind = "reply"
  <2>1. i - Len(inbox) \in 1..Len(more) /\ all[i] = more[i - Len(inbox)]
    BY <1>1, <1>3
  <2>2. more[i - Len(inbox)] \in ReplyFrame
    BY <2>1
  <2> QED BY <2>1, <2>2 DEF ReplyFrame
<1>4. all \in Seq(ToServer)
  <2>1. more \in Seq(ToServer)
    BY DEF ToServer
  <2> QED BY <2>1
<1> HIDE DEF all
<1>5. \A i \in 1..Len(all) : (IsText(all[i]) \/ all[i].kind = "ask") => i \in 1..Len(inbox)
  BY <1>3 DEF IsText
<1>6. \A knows, d, t : Told(inbox, knows, d, t) => Told(all, knows, d, t)
  BY <1>2, <1>5 DEF Told, TextOf
<1>7. \A n : AsksBelow(inbox, n) => AsksBelow(all, n)
  BY <1>2, <1>5 DEF AsksBelow
<1>8. \A id, d : AskedLast(inbox, id, d) => AskedLast(all, id, d)
  BY <1>2, <1>5 DEF AskedLast, AskOf
<1>9. NoText(inbox) => NoText(all)
  BY <1>2, <1>5 DEF NoText
<1> QED BY <1>4, <1>6, <1>7, <1>8, <1>9 DEF all

LEMMA TextSent ==
  ASSUME NEW inbox \in Seq(ToServer), NEW f \in TextFrame
  PROVE  /\ Append(inbox, f) \in Seq(ToServer)
         /\ \A knows : Told(Append(inbox, f), knows, f.doc, f.text)
         /\ \A n : AsksBelow(inbox, n) => AsksBelow(Append(inbox, f), n)
<1> DEFINE all == Append(inbox, f)
<1>1. /\ Len(inbox) \in Nat /\ Len(all) = Len(inbox) + 1 /\ all[Len(all)] = f
      /\ \A i \in 1..Len(inbox) : all[i] = inbox[i]
  OBVIOUS
<1>2. all \in Seq(ToServer)
  BY DEF ToServer
<1>3. IsText(f) /\ f.kind # "ask"
  BY DEF TextFrame, IsText
<1> HIDE DEF all
<1>4. Len(all) \in 1..Len(all) /\ \A j \in 1..Len(all) : j <= Len(all) /\ (j # Len(all) => j \in 1..Len(inbox))
  BY <1>1
<1>5. \A knows : Told(all, knows, f.doc, f.text)
  <2>1. TextOf(all, Len(all), f.doc) /\ all[Len(all)].text = f.text
    BY <1>1, <1>3 DEF TextOf
  <2> QED BY <1>4, <2>1 DEF Told
<1>6. \A n : AsksBelow(inbox, n) => AsksBelow(all, n)
  BY <1>1, <1>3, <1>4 DEF AsksBelow
<1> QED BY <1>2, <1>5, <1>6 DEF all

LEMMA QuestionSent ==
  ASSUME NEW inbox \in Seq(ToServer), NEW f \in AskFrame, NEW n \in Nat, AsksBelow(inbox, n), f.id = n
  PROVE  /\ Append(inbox, f) \in Seq(ToServer)
         /\ \A knows, d, t : Told(inbox, knows, d, t) => Told(Append(inbox, f), knows, d, t)
         /\ AsksBelow(Append(inbox, f), n + 1)
         /\ AskedLast(Append(inbox, f), n, f.doc)
<1> DEFINE all == Append(inbox, f)
<1>1. /\ Len(inbox) \in Nat /\ Len(all) = Len(inbox) + 1 /\ all[Len(all)] = f
      /\ \A i \in 1..Len(inbox) : all[i] = inbox[i] /\ i \in 1..Len(all)
  OBVIOUS
<1>2. all \in Seq(ToServer)
  BY DEF ToServer
<1>3. ~IsText(f) /\ f.kind = "ask"
  BY DEF AskFrame, IsText
<1>4. \A i \in 1..Len(inbox) : inbox[i].kind = "ask" => inbox[i].id \in Nat
  BY ToServerKinds
<1> HIDE DEF all
<1>5. \A j \in 1..Len(all) : (j # Len(all) => j \in 1..Len(inbox) /\ j < Len(all))
  BY <1>1
<1>6. \A knows, d, t : Told(inbox, knows, d, t) => Told(all, knows, d, t)
  BY <1>1, <1>3, <1>5 DEF Told, TextOf
<1>7. AsksBelow(all, n + 1)
  <2> SUFFICES ASSUME NEW i \in 1..Len(all), all[i].kind = "ask" PROVE all[i].id < n + 1
    BY DEF AsksBelow
  <2>1. CASE i = Len(all)
    BY <1>1, <2>1
  <2>2. CASE i # Len(all)
    BY <1>1, <1>4, <1>5, <2>2 DEF AsksBelow
  <2> QED BY <2>1, <2>2
<1>8. AskedLast(all, n, f.doc)
  <2> SUFFICES ASSUME NEW j \in 1..Len(all), AskOf(all, j, n)
               PROVE  all[j].doc = f.doc /\ \A i \in 1..Len(all) : IsText(all[i]) => i < j
    BY DEF AskedLast
  <2>1. j = Len(all)
    <3>1. ASSUME j # Len(all) PROVE FALSE
      <4>1. inbox[j].kind = "ask" /\ inbox[j].id = n /\ j \in 1..Len(inbox)
        BY <1>1, <1>5, <3>1 DEF AskOf
      <4>2. inbox[j].id < n
        BY <4>1 DEF AsksBelow
      <4> QED BY <4>1, <4>2
    <3> QED BY <3>1
  <2> QED BY <1>1, <1>3, <1>5, <2>1
<1> QED BY <1>2, <1>6, <1>7, <1>8 DEF all

(* The server reads what is first. *)
LEMMA FrameRead ==
  ASSUME NEW inbox \in Seq(ToServer), inbox # <<>>
  PROVE  /\ Head(inbox) \in ToServer /\ Tail(inbox) \in Seq(ToServer)
         /\ \A n : AsksBelow(inbox, n) => AsksBelow(Tail(inbox), n) /\ (Head(inbox).kind = "ask" => Head(inbox).id < n)
         /\ \A id, d : AskedLast(inbox, id, d) =>
              /\ AskedLast(Tail(inbox), id, d)
              /\ Head(inbox).kind = "ask" /\ Head(inbox).id = id => Head(inbox).doc = d /\ NoText(Tail(inbox))
         /\ NoText(inbox) => NoText(Tail(inbox)) /\ ~IsText(Head(inbox))
         /\ \A knows, new, d, t :
              Told(inbox, knows, d, t) /\ new[d] = (IF TextOf(inbox, 1, d) THEN Head(inbox).text ELSE knows[d])
                => Told(Tail(inbox), new, d, t)
<1> DEFINE rest == Tail(inbox)
<1>1. /\ Len(inbox) \in Nat /\ Len(inbox) >= 1 /\ Len(rest) = Len(inbox) - 1 /\ Head(inbox) = inbox[1]
      /\ rest \in Seq(ToServer) /\ Head(inbox) \in ToServer
  OBVIOUS
<1>2. \A i \in 1..Len(rest) : rest[i] = inbox[i + 1]
  OBVIOUS
<1> HIDE DEF rest
<1>3. 1 \in 1..Len(inbox) /\ \A i \in 1..Len(rest) : i + 1 \in 1..Len(inbox)
  BY <1>1
<1>4. \A i \in 1..Len(inbox) : i # 1 => i - 1 \in 1..Len(rest) /\ rest[i-1] = inbox[i]
  BY <1>1, <1>2
<1>5. \A n : AsksBelow(inbox, n) => AsksBelow(rest, n) /\ (Head(inbox).kind = "ask" => Head(inbox).id < n)
  BY <1>1, <1>2, <1>3 DEF AsksBelow
<1>6. ASSUME NEW id, NEW d, AskedLast(inbox, id, d)
      PROVE  /\ AskedLast(rest, id, d)
             /\ Head(inbox).kind = "ask" /\ Head(inbox).id = id => Head(inbox).doc = d /\ NoText(rest)
  <2>1. ASSUME NEW j \in 1..Len(rest), AskOf(rest, j, id)
        PROVE  rest[j].doc = d /\ \A i \in 1..Len(rest) : IsText(rest[i]) => i < j
    <3>1. AskOf(inbox, j + 1, id) /\ j + 1 \in 1..Len(inbox) /\ rest[j] = inbox[j + 1]
      BY <1>2, <1>3, <2>1 DEF AskOf
    <3>2. inbox[j + 1].doc = d /\ \A i \in 1..Len(inbox) : IsText(inbox[i]) => i < j + 1
      BY <1>6, <3>1 DEF AskedLast
    <3>3. ASSUME NEW i \in 1..Len(rest), IsText(rest[i]) PROVE i < j
      <4>1. i + 1 < j + 1
        BY <1>2, <1>3, <3>2, <3>3
      <4> QED BY <1>1, <4>1
    <3> QED BY <3>1, <3>2, <3>3
  <2>2. ASSUME Head(inbox).kind = "ask", Head(inbox).id = id PROVE Head(inbox).doc = d /\ NoText(rest)
    <3>1. inbox[1].doc = d /\ \A i \in 1..Len(inbox) : IsText(inbox[i]) => i < 1
      BY <1>1, <1>3, <1>6, <2>2 DEF AskedLast, AskOf
    <3>2. ASSUME NEW i \in 1..Len(rest), IsText(rest[i]) PROVE FALSE
      <4>1. i + 1 < 1
        BY <1>2, <1>3, <3>1, <3>2
      <4> QED BY <1>1, <4>1
    <3> QED BY <1>1, <3>1, <3>2 DEF NoText
  <2> QED BY <2>1, <2>2 DEF AskedLast
<1>7. NoText(inbox) => NoText(rest) /\ ~IsText(Head(inbox))
  BY <1>1, <1>2, <1>3 DEF NoText
<1>8. ASSUME NEW knows, NEW new, NEW d, NEW t, Told(inbox, knows, d, t),
             new[d] = (IF TextOf(inbox, 1, d) THEN Head(inbox).text ELSE knows[d])
      PROVE  Told(rest, new, d, t)
  <2>1. CASE knows[d] = t /\ \A j \in 1..Len(inbox) : ~TextOf(inbox, j, d)
    <3>1. new[d] = t
      BY <1>3, <1>8, <2>1
    <3>2. \A j \in 1..Len(rest) : ~TextOf(rest, j, d)
      BY <1>2, <1>3, <2>1 DEF TextOf
    <3> QED BY <3>1, <3>2 DEF Told
  <2>2. ASSUME NEW i \in 1..Len(inbox), TextOf(inbox, i, d), inbox[i].text = t,
               \A j \in 1..Len(inbox) : TextOf(inbox, j, d) => j <= i
        PROVE  Told(rest, new, d, t)
    <3>1. \A j \in 1..Len(rest) : TextOf(rest, j, d) => j <= i - 1
      <4> SUFFICES ASSUME NEW j \in 1..Len(rest), TextOf(rest, j, d) PROVE j <= i - 1
        OBVIOUS
      <4>1. j + 1 \in 1..Len(inbox) /\ TextOf(inbox, j + 1, d)
        BY <1>2, <1>3 DEF TextOf
      <4>2. j + 1 <= i
        BY <2>2, <4>1
      <4> QED BY <1>1, <4>2
    <3>2. CASE i = 1
      <4>1. new[d] = t
        BY <1>1, <1>8, <2>2, <3>2
      <4>2. \A j \in 1..Len(rest) : ~TextOf(rest, j, d)
        <5> SUFFICES ASSUME NEW j \in 1..Len(rest), TextOf(rest, j, d) PROVE FALSE
          OBVIOUS
        <5>1. j <= 0
          BY <3>1, <3>2
        <5> QED BY <1>1, <5>1
      <4> QED BY <4>1, <4>2 DEF Told
    <3>3. CASE i # 1
      <4>1. i - 1 \in 1..Len(rest) /\ TextOf(rest, i - 1, d) /\ rest[i-1].text = t
        BY <1>4, <2>2, <3>3 DEF TextOf
      <4> QED BY <3>1, <4>1 DEF Told
    <3> QED BY <3>2, <3>3
  <2> QED BY <1>8, <2>1, <2>2 DEF Told
<1> QED BY <1>1, <1>5, <1>6, <1>7, <1>8 DEF rest

(* What the server sends, and what is taken from the pipe. *)
LEMMA FrameSaid ==
  ASSUME NEW rx \in Seq(FromServer), NEW f \in FromServer
  PROVE  /\ Append(rx, f) \in Seq(FromServer)
         /\ \A n : AnswersBelow(rx, n) /\ (f.kind = "answer" => f.id < n) => AnswersBelow(Append(rx, f), n)
         /\ \A id, t : AnsweredFrom(rx, id, t) /\ (f.kind = "answer" /\ f.id = id => f.text \in {0, t})
                         => AnsweredFrom(Append(rx, f), id, t)
<1> DEFINE all == Append(rx, f)
<1>1. /\ Len(rx) \in Nat /\ Len(all) = Len(rx) + 1 /\ all[Len(all)] = f /\ all \in Seq(FromServer)
      /\ \A i \in 1..Len(rx) : all[i] = rx[i]
  OBVIOUS
<1> HIDE DEF all
<1>2. \A j \in 1..Len(all) : (j # Len(all) => j \in 1..Len(rx))
  BY <1>1
<1>3. \A n : AnswersBelow(rx, n) /\ (f.kind = "answer" => f.id < n) => AnswersBelow(all, n)
  BY <1>1, <1>2 DEF AnswersBelow
<1>4. \A id, t : AnsweredFrom(rx, id, t) /\ (f.kind = "answer" /\ f.id = id => f.text \in {0, t}) => AnsweredFrom(all, id, t)
  BY <1>1, <1>2 DEF AnsweredFrom
<1> QED BY <1>1, <1>3, <1>4 DEF all

LEMMA FrameTaken ==
  ASSUME NEW rx \in Seq(FromServer), rx # <<>>
  PROVE  /\ Head(rx) \in FromServer /\ Tail(rx) \in Seq(FromServer) /\ <<Head(rx)>> \in Seq(FromServer)
         /\ \A n : AnswersBelow(rx, n) => AnswersBelow(Tail(rx), n)
         /\ \A id, t : AnsweredFrom(rx, id, t) =>
              /\ AnsweredFrom(Tail(rx), id, t)
              /\ Head(rx).kind = "answer" /\ Head(rx).id = id => Head(rx).text \in {0, t}
<1> DEFINE rest == Tail(rx)
<1>1. /\ Len(rx) \in Nat /\ Len(rx) >= 1 /\ Len(rest) = Len(rx) - 1 /\ Head(rx) = rx[1]
      /\ rest \in Seq(FromServer) /\ Head(rx) \in FromServer /\ <<Head(rx)>> \in Seq(FromServer)
  OBVIOUS
<1>2. \A i \in 1..Len(rest) : rest[i] = rx[i + 1]
  OBVIOUS
<1> HIDE DEF rest
<1>3. 1 \in 1..Len(rx) /\ \A i \in 1..Len(rest) : i + 1 \in 1..Len(rx)
  BY <1>1
<1>4. \A n : AnswersBelow(rx, n) => AnswersBelow(rest, n)
  BY <1>2, <1>3 DEF AnswersBelow
<1>5. \A id, t : AnsweredFrom(rx, id, t) =>
        AnsweredFrom(rest, id, t) /\ (Head(rx).kind = "answer" /\ Head(rx).id = id => Head(rx).text \in {0, t})
  BY <1>1, <1>2, <1>3 DEF AnsweredFrom
<1> QED BY <1>1, <1>4, <1>5 DEF rest

-----------------------------------------------------------------------------
(* The pool. *)
LEMMA RestIs ==
  ASSUME NEW s \in Seq(Entry), NEW n \in 0..Len(s)
  PROVE  LET b == SubSeq(s, n + 1, Len(s))
         IN b \in Seq(Entry) /\ Len(b) = Len(s) - n /\ \A j \in 1..Len(b) : b[j] = s[n + j]
<1> DEFINE b == SubSeq(s, n + 1, Len(s))
<1>1. Len(s) \in Nat /\ n \in Nat
  OBVIOUS
<1>2. b \in Seq(Entry)
  OBVIOUS
<1>3. Len(b) = Len(s) - n
  <2>1. CASE n = Len(s)
    BY <1>1, <2>1
  <2>2. CASE n < Len(s)
    <3>1. Len(b) = Len(s) - (n + 1) + 1
      BY <1>1, <2>2
    <3> QED BY <1>1, <3>1
  <2> QED BY <1>1, <2>1, <2>2
<1>4. ASSUME NEW j \in 1..Len(b) PROVE b[j] = s[n + j]
  <2>1. j \in 1..Len(s) - n /\ (n + 1) + j - 1 = n + j
    BY <1>1, <1>3
  <2>2. b[j] = s[(n + 1) + j - 1]
    BY <1>1, <2>1
  <2> QED BY <2>1, <2>2
<1> QED BY <1>2, <1>3, <1>4

LEMMA WithoutIs ==
  ASSUME NEW pool, Pool(pool), NEW exe
  PROVE  LET rest == Without(pool, exe)
         IN /\ Pool(rest) /\ Len(rest) <= Len(pool)
            /\ \A j \in 1..Len(rest) : rest[j].exe # exe
            /\ \A p : p \in Held(rest) <=> p \in Held(pool) /\ ~\E i \in DOMAIN pool : pool[i].exe = exe /\ pool[i].proc = p
<1>1. pool \in Seq(Entry) /\ Len(pool) \in Nat /\ Distinct(pool) /\ DOMAIN pool = 1..Len(pool)
  BY DEF Pool
<1>2. CASE ~\E i \in DOMAIN pool : pool[i].exe = exe
  <2>1. Without(pool, exe) = pool
    BY <1>2 DEF Without
  <2> QED BY <1>1, <1>2, <2>1
<1>3. CASE \E i \in DOMAIN pool : pool[i].exe = exe
  <2> DEFINE i    == CHOOSE i \in DOMAIN pool : pool[i].exe = exe
             rest == SubSeq(pool, 1, i - 1) \o SubSeq(pool, i + 1, Len(pool))
  <2>1. i \in 1..Len(pool) /\ pool[i].exe = exe
    BY <1>1, <1>3
  <2>2. Without(pool, exe) = rest
    BY <1>3 DEF Without
  <2> HIDE DEF i
  <2>3. /\ rest \in Seq(Entry) /\ Len(rest) = Len(pool) - 1
        /\ \A j \in 1..Len(rest) : rest[j] = IF j < i THEN pool[j] ELSE pool[j + 1]
    <3> DEFINE a == SubSeq(pool, 1, i - 1)
               b == SubSeq(pool, i + 1, Len(pool))
    <3>1. a \in Seq(Entry) /\ Len(a) = i - 1 /\ \A j \in 1..i-1 : a[j] = pool[j]
      BY <1>1, <2>1
    <3>2. b \in Seq(Entry) /\ Len(b) = Len(pool) - i /\ \A j \in 1..Len(pool) - i : b[j] = pool[i + j]
      <4>1. i \in 0..Len(pool)
        BY <1>1, <2>1
      <4> QED BY <1>1, <4>1, RestIs
    <3> HIDE DEF a, b
    <3>3. /\ a \o b \in Seq(Entry) /\ Len(a \o b) = Len(a) + Len(b)
          /\ \A j \in 1..Len(a) + Len(b) : (a \o b)[j] = IF j <= Len(a) THEN a[j] ELSE b[j - Len(a)]
      BY <3>1, <3>2
    <3>4. Len(a) + Len(b) = Len(pool) - 1
      BY <1>1, <2>1, <3>1, <3>2
    <3>5. ASSUME NEW j \in 1..Len(pool) - 1 PROVE (a \o b)[j] = IF j < i THEN pool[j] ELSE pool[j + 1]
      <4>1. CASE j < i
        BY <1>1, <2>1, <3>1, <3>3, <3>4, <4>1
      <4>2. CASE ~(j < i)
        <5>1. j - (i - 1) \in 1..Len(pool) - i /\ ~(j <= Len(a)) /\ i + (j - (i - 1)) = j + 1
          BY <1>1, <2>1, <3>1, <4>2
        <5>2. (a \o b)[j] = b[j - (i - 1)]
          BY <3>1, <3>3, <3>4, <5>1
        <5> QED BY <3>2, <4>2, <5>1, <5>2
      <4> QED BY <4>1, <4>2
    <3> QED BY <3>3, <3>4, <3>5 DEF a, b
  <2> HIDE DEF rest
  <2> DEFINE from(j) == IF j < i THEN j ELSE j + 1
  <2>4. /\ \A j \in 1..Len(rest) : from(j) \in 1..Len(pool) /\ from(j) # i /\ rest[j] = pool[from(j)]
        /\ \A j, k \in 1..Len(rest) : j # k => from(j) # from(k)
    BY <1>1, <2>1, <2>3
  <2>5. \A k \in 1..Len(pool) : k # i => \E j \in 1..Len(rest) : from(j) = k
    <3> SUFFICES ASSUME NEW k \in 1..Len(pool), k # i PROVE \E j \in 1..Len(rest) : from(j) = k
      OBVIOUS
    <3>1. CASE k < i
      BY <1>1, <2>1, <2>3, <3>1
    <3>2. CASE k > i
      <4>1. k - 1 \in 1..Len(rest) /\ from(k - 1) = k
        BY <1>1, <2>1, <2>3, <3>2
      <4> QED BY <4>1
    <3> QED BY <1>1, <2>1, <3>1, <3>2
  <2> HIDE DEF from
  <2>6. Distinct(rest)
    BY <1>1, <2>4 DEF Distinct
  <2>7. \A j \in 1..Len(rest) : rest[j].exe # exe
    BY <1>1, <2>1, <2>4 DEF Distinct
  <2>8. ASSUME NEW p
        PROVE  p \in Held(rest) <=> p \in Held(pool) /\ ~\E k \in DOMAIN pool : pool[k].exe = exe /\ pool[k].proc = p
    <3>1. DOMAIN rest = 1..Len(rest)
      BY <2>3
    <3>2. ASSUME p \in Held(rest) PROVE p \in Held(pool) /\ ~\E k \in DOMAIN pool : pool[k].exe = exe /\ pool[k].proc = p
      <4>1. PICK j \in 1..Len(rest) : rest[j].proc = p
        BY <3>1, <3>2 DEF Held
      <4>2. from(j) \in 1..Len(pool) /\ pool[from(j)].proc = p /\ pool[from(j)].exe # exe
        BY <2>4, <2>7, <4>1
      <4> QED BY <1>1, <4>2 DEF Held, Distinct
    <3>3. ASSUME p \in Held(pool), ~\E k \in DOMAIN pool : pool[k].exe = exe /\ pool[k].proc = p PROVE p \in Held(rest)
      <4>1. PICK k \in 1..Len(pool) : pool[k].proc = p
        BY <1>1, <3>3 DEF Held
      <4>2. k # i
        BY <1>1, <2>1, <3>3, <4>1
      <4>3. PICK j \in 1..Len(rest) : from(j) = k
        BY <2>5, <4>2
      <4> QED BY <2>4, <3>1, <4>1, <4>3 DEF Held
    <3> QED BY <3>2, <3>3
  <2> QED BY <1>1, <2>2, <2>3, <2>6, <2>7, <2>8 DEF Pool
<1> QED BY <1>2, <1>3

LEMMA PoolPart ==
  ASSUME NEW pool, Pool(pool), NEW n \in 0..Len(pool)
  PROVE  LET rest == SubSeq(pool, n + 1, Len(pool))  first == SubSeq(pool, 1, n)
         IN /\ Pool(rest) /\ Len(rest) = Len(pool) - n
            /\ \A p : p \in Held(pool) <=> p \in Held(rest) \/ p \in Held(first)
            /\ \A p : ~(p \in Held(rest) /\ p \in Held(first))
<1> DEFINE rest  == SubSeq(pool, n + 1, Len(pool))
           first == SubSeq(pool, 1, n)
<1>1. pool \in Seq(Entry) /\ Len(pool) \in Nat /\ Distinct(pool) /\ DOMAIN pool = 1..Len(pool)
  BY DEF Pool
<1>2. /\ rest \in Seq(Entry) /\ Len(rest) = Len(pool) - n /\ DOMAIN rest = 1..Len(rest)
      /\ \A j \in 1..Len(rest) : rest[j] = pool[n + j]
  <2>1. rest \in Seq(Entry) /\ Len(rest) = Len(pool) - n /\ \A j \in 1..Len(rest) : rest[j] = pool[n + j]
    BY <1>1, RestIs, Zenon
  <2> HIDE DEF rest
  <2> QED BY <2>1
<1>3. first \in Seq(Entry) /\ DOMAIN first = 1..n /\ \A j \in 1..n : first[j] = pool[j]
  BY <1>1
<1> HIDE DEF rest, first
<1>4. /\ \A j \in 1..Len(rest) : n + j \in 1..Len(pool)
      /\ \A j, k \in 1..Len(rest) : j # k => n + j # n + k
      /\ \A j \in 1..n : j \in 1..Len(pool)
      /\ \A i \in 1..n, j \in 1..Len(rest) : i # n + j
  BY <1>1, <1>2
<1>5. Distinct(rest)
  BY <1>1, <1>2, <1>4 DEF Distinct
<1>6. ASSUME NEW p, p \in Held(pool) PROVE p \in Held(rest) \/ p \in Held(first)
  <2>1. PICK i \in 1..Len(pool) : pool[i].proc = p
    BY <1>1, <1>6 DEF Held
  <2>2. CASE i <= n
    <3>1. i \in 1..n
      BY <1>1, <2>2
    <3> QED BY <1>3, <2>1, <3>1 DEF Held
  <2>3. CASE i > n
    <3>1. i - n \in 1..Len(rest) /\ n + (i - n) = i
      BY <1>1, <1>2, <2>3
    <3>2. rest[i - n].proc = p
      BY <1>2, <2>1, <3>1
    <3> QED BY <1>2, <3>1, <3>2 DEF Held
  <2> QED BY <1>1, <2>2, <2>3
<1>7. \A p : p \in Held(rest) \/ p \in Held(first) => p \in Held(pool)
  BY <1>1, <1>2, <1>3, <1>4 DEF Held
<1>8. \A p : ~(p \in Held(rest) /\ p \in Held(first))
  BY <1>1, <1>2, <1>3, <1>4 DEF Held, Distinct
<1> QED BY <1>2, <1>5, <1>6, <1>7, <1>8 DEF Pool, rest, first

LEMMA PoolGrows ==
  ASSUME NEW pool, Pool(pool), NEW e \in Entry, e.proc \notin Held(pool), \A j \in 1..Len(pool) : pool[j].exe # e.exe
  PROVE  LET all == Append(pool, e)
         IN Pool(all) /\ Len(all) = Len(pool) + 1 /\ \A p : p \in Held(all) <=> p \in Held(pool) \/ p = e.proc
<1> DEFINE all == Append(pool, e)
<1>1. pool \in Seq(Entry) /\ Len(pool) \in Nat /\ Distinct(pool) /\ DOMAIN pool = 1..Len(pool)
  BY DEF Pool
<1>2. /\ all \in Seq(Entry) /\ Len(all) = Len(pool) + 1 /\ DOMAIN all = 1..Len(all) /\ all[Len(all)] = e
      /\ \A j \in 1..Len(pool) : all[j] = pool[j]
  BY <1>1
<1> HIDE DEF all
<1>3. /\ Len(all) \in 1..Len(all) /\ \A j \in 1..Len(all) : j # Len(all) => j \in 1..Len(pool)
      /\ \A j \in 1..Len(pool) : j \in 1..Len(all)
  BY <1>1, <1>2
<1>4. \A j \in 1..Len(pool) : pool[j].proc # e.proc
  BY <1>1 DEF Held
<1>5. Distinct(all)
  BY <1>1, <1>2, <1>3, <1>4 DEF Distinct
<1>6. \A p : p \in Held(all) <=> p \in Held(pool) \/ p = e.proc
  BY <1>1, <1>2, <1>3 DEF Held
<1> QED BY <1>2, <1>5, <1>6 DEF Pool, all

LEMMA CheckinIs ==
  ASSUME NEW pool, Pool(pool), Len(pool) <= MaxPooled, NEW exe \in Exes \cup {"none"},
         NEW p \in 1..MaxProcs, p \notin Held(pool)
  PROVE  LET new == Checkin(pool, exe, p)
         IN Pool(new) /\ Len(new) <= MaxPooled /\ \A q \in Held(new) : q \in Held(pool) \/ q = p
<1> DEFINE e    == [exe |-> exe, proc |-> p]
           rest == Without(pool, exe)
           all  == Append(rest, e)
<1>1. /\ Pool(rest) /\ Len(rest) <= Len(pool) /\ \A j \in 1..Len(rest) : rest[j].exe # exe
      /\ \A q : q \in Held(rest) => q \in Held(pool)
  BY WithoutIs
<1>2. e \in Entry /\ e.exe = exe /\ e.proc = p
  BY DEF Entry
<1>3. Checkin(pool, exe, p) = IF Len(all) > MaxPooled THEN Tail(all) ELSE all
  BY DEF Checkin
<1> HIDE DEF e, rest
<1>4. Pool(all) /\ Len(all) = Len(rest) + 1 /\ \A q : q \in Held(all) <=> q \in Held(rest) \/ q = p
  BY <1>1, <1>2, PoolGrows
<1>5. Len(rest) \in Nat /\ Len(pool) \in Nat /\ MaxPooled \in Nat /\ all \in Seq(Entry)
  BY <1>1, <1>4, LspAssumption DEF Pool
<1> HIDE DEF all
<1>6. CASE Len(all) > MaxPooled
  <2> DEFINE new == SubSeq(all, 1 + 1, Len(all))
  <2>1. 1 \in 0..Len(all) /\ Len(all) - 1 <= MaxPooled
    BY <1>1, <1>4, <1>5
  <2>2. Pool(new) /\ Len(new) = Len(all) - 1 /\ \A q : q \in Held(all) <=> q \in Held(new) \/ q \in Held(SubSeq(all, 1, 1))
    BY <1>4, <2>1, PoolPart
  <2>3. Tail(all) = new
    BY <1>4, <1>5, <2>1
  <2> HIDE DEF new
  <2>4. Checkin(pool, exe, p) = new
    BY <1>3, <1>6, <2>3
  <2>5. \A q \in Held(new) : q \in Held(pool) \/ q = p
    BY <1>1, <1>4, <2>2
  <2> QED BY <2>1, <2>2, <2>4, <2>5
<1>7. CASE ~(Len(all) > MaxPooled)
  BY <1>1, <1>3, <1>4, <1>5, <1>7
<1> QED BY <1>6, <1>7

-----------------------------------------------------------------------------
(* What a step leaves alone.  First: one server moves, and the call that has *)
(* it; then: servers change hands.                                          *)
LEMMA Types ==
  ASSUME LspInv
  PROVE  /\ procs \in Procs /\ lookups \in [Lookups -> Lookup] /\ Pool(pooled) /\ Len(pooled) <= MaxPooled
         /\ Owned(procs, pooled, lookups) /\ Going(procs, lookups) /\ \A o \in Lookups : Started(lookups[o])
         /\ \A p \in 1..MaxProcs : procs[p] # Gone => procs[p] \in Server /\ Below(procs[p])
         /\ \A p \in 1..MaxProcs : procs[p].alive => procs[p] # Gone
         /\ \A o \in Lookups : lookups[o] \in Lookup
         /\ \A o \in Lookups : lookups[o].pc \notin {"idle", "start"} =>
              /\ lookups[o].proc \in 1..MaxProcs /\ lookups[o].proc # 0 /\ procs[lookups[o].proc] # Gone
              /\ Talk(procs[lookups[o].proc], lookups[o])
              /\ \A q \in Lookups : q # o => lookups[q].proc # lookups[o].proc
<1>1. /\ procs \in Procs /\ lookups \in [Lookups -> Lookup] /\ Pool(pooled) /\ Len(pooled) <= MaxPooled
      /\ Owned(procs, pooled, lookups) /\ Going(procs, lookups) /\ \A o \in Lookups : Started(lookups[o])
  BY DEF LspInv, LspCore
<1>2. \A p \in 1..MaxProcs : procs[p] # Gone => procs[p] \in Server /\ Below(procs[p])
  BY <1>1 DEF Procs, Going
<1>3. ASSUME NEW o \in Lookups, lookups[o].pc \notin {"idle", "start"}
      PROVE  /\ lookups[o].proc \in 1..MaxProcs /\ lookups[o].proc # 0 /\ procs[lookups[o].proc] # Gone
             /\ Talk(procs[lookups[o].proc], lookups[o])
             /\ \A q \in Lookups : q # o => lookups[q].proc # lookups[o].proc
  <2>1. lookups[o] \in Lookup /\ lookups[o].proc # 0
    BY <1>1, <1>3 DEF Started
  <2>2. lookups[o].proc \in 1..MaxProcs
    BY <2>1, LspAssumption DEF Lookup
  <2> QED BY <1>1, <2>1, <2>2 DEF Owned, Going
<1>4. \A p \in 1..MaxProcs : procs[p].alive => procs[p] # Gone
  BY DEF Gone
<1> QED BY <1>1, <1>2, <1>3, <1>4

LEMMA ServerMoves ==
  ASSUME LspInv, NEW p \in 1..MaxProcs, procs[p] # Gone, NEW new \in Server, Below(new),
         procs' = [procs EXCEPT ![p] = new], UNCHANGED pooled, lookups' \in [Lookups -> Lookup],
         \A o \in Lookups : lookups'[o].proc = lookups[o].proc /\ Started(lookups'[o]),
         \A o \in Lookups : lookups[o].proc # p => lookups'[o] = lookups[o],
         \A o \in Lookups : lookups[o].proc = p => Talk(new, lookups'[o])
  PROVE  LspCore(procs, pooled, lookups)'
<1>1. /\ procs \in Procs /\ Pool(pooled) /\ Len(pooled) <= MaxPooled
      /\ Owned(procs, pooled, lookups) /\ Going(procs, lookups)
  BY Types
<1>2. /\ procs' \in Procs /\ procs'[p] = new /\ new # Gone
      /\ \A q \in 1..MaxProcs : q # p => procs'[q] = procs[q]
  BY <1>1, NotGone DEF Procs
<1>3. Owned(procs', pooled, lookups')
  <2>1. \A q \in 1..MaxProcs : procs'[q] # Gone <=> procs[q] # Gone
    BY <1>2
  <2> QED BY <1>1, <2>1 DEF Owned
<1>4. ASSUME NEW o \in Lookups, lookups'[o].proc # 0 PROVE Talk(procs'[lookups'[o].proc], lookups'[o])
  <2>1. CASE lookups[o].proc = p
    BY <1>2, <2>1
  <2>2. CASE lookups[o].proc # p
    <3>1. lookups[o].proc \in 1..MaxProcs /\ lookups'[o] = lookups[o]
      BY <1>4, <2>2, Types, LspAssumption DEF Lookup
    <3> QED BY <1>1, <1>2, <1>4, <2>2, <3>1 DEF Going
  <2> QED BY <2>1, <2>2
<1>5. Going(procs', lookups')
  <2>1. \A q \in 1..MaxProcs : procs'[q] # Gone => Below(procs'[q])
    BY <1>1, <1>2 DEF Going
  <2> QED BY <1>4, <2>1 DEF Going
<1> QED BY <1>1, <1>2, <1>3, <1>5 DEF LspCore

LEMMA HandedOver ==
  ASSUME LspInv, procs' \in Procs, Pool(pooled'), Len(pooled') <= MaxPooled,
         lookups' \in [Lookups -> Lookup], \A o \in Lookups : Started(lookups'[o]),
         Owned(procs', pooled', lookups'),
         \A q \in 1..MaxProcs : procs'[q] # Gone => Below(procs'[q]),
         \A o \in Lookups : lookups'[o].proc # 0 =>
           \/ lookups'[o].pc = "sync"
           \/ lookups'[o] = lookups[o] /\ procs'[lookups[o].proc] = procs[lookups[o].proc]
  PROVE  LspCore(procs, pooled, lookups)'
<1>1. \A o \in Lookups : lookups'[o].proc # 0 => Talk(procs'[lookups'[o].proc], lookups'[o])
  BY Types DEF Going, Talk
<1> QED BY <1>1 DEF LspCore, Going

LEMMA HeldIs ==
  ASSUME NEW pool, Pool(pool)
  PROVE  \A r \in Held(pool) : r \in 1..MaxProcs /\ r # 0
<1>1. \A i \in 1..Len(pool) : pool[i] \in Entry
  BY DEF Pool
<1>2. \A i \in 1..Len(pool) : pool[i].proc \in 1..MaxProcs /\ pool[i].proc # 0
  BY <1>1, LspAssumption DEF Entry
<1>3. DOMAIN pool = 1..Len(pool)
  BY DEF Pool
<1> QED BY <1>2, <1>3 DEF Held

LEMMA QuietIs ==
  Quiet \in Lookup /\ Started(Quiet) /\ Quiet.proc = 0 /\ Quiet.pc = "idle"
<1>1. (CHOOSE d \in Docs : TRUE) \in Docs
  BY LspAssumption
<1>2. 0 \in 0..MaxProcs /\ 0 \in Texts /\ 0 \in Nat
  BY LspAssumption DEF Texts
<1> QED BY <1>1, <1>2 DEF Quiet, Lookup, Started

(* A server is killed, or was not there. *)
LEMMA KillIs ==
  ASSUME NEW all \in Procs, NEW dead
  PROVE  /\ Kill(all, dead) \in Procs
         /\ \A q \in 1..MaxProcs : Kill(all, dead)[q] = IF q \in dead THEN Gone ELSE all[q]
BY DEF Kill, Procs

LEMMA FailKeeps ==
  ASSUME LspInv, NEW o \in Lookups, lookups[o].pc \notin {"idle", "start"}, Fail(o)
  PROVE  LspCore(procs, pooled, lookups)'
<1> DEFINE p == lookups[o].proc
<1>1. /\ procs' = Kill(procs, {p}) /\ lookups' = [lookups EXCEPT ![o] = Quiet] /\ pooled' = pooled
  BY DEF Fail
<1>2. /\ p \in 1..MaxProcs /\ \A q \in Lookups : q # o => lookups[q].proc # p
  BY Types
<1> HIDE DEF p
<1>3. /\ procs' \in Procs /\ \A q \in 1..MaxProcs : procs'[q] = IF q = p THEN Gone ELSE procs[q]
  BY <1>1, Types, KillIs
<1>4. /\ lookups' \in [Lookups -> Lookup] /\ lookups'[o] = Quiet /\ \A q \in Lookups : q # o => lookups'[q] = lookups[q]
  BY <1>1, Types, QuietIs
<1>5. Owned(procs', pooled', lookups')
  <2>1. \A q, r \in Lookups : q # r /\ lookups'[q].proc # 0 => lookups'[q].proc # lookups'[r].proc
    BY <1>4, Types, QuietIs DEF Owned
  <2>2. p \notin Held(pooled) /\ \A r \in Held(pooled) : r # 0
    BY Types, HeldIs DEF Owned, p
  <2>3. \A q \in Lookups : lookups'[q].proc \notin Held(pooled)
    BY <1>4, <2>2, Types, QuietIs DEF Owned
  <2>4. ASSUME NEW r \in 1..MaxProcs
        PROVE  procs'[r] # Gone <=> r \in Held(pooled) \/ \E q \in Lookups : lookups'[q].proc = r
    <3>1. CASE r = p
      <4>1. \A q \in Lookups : lookups'[q].proc # p
        BY <1>2, <1>4, QuietIs
      <4> QED BY <1>3, <2>2, <3>1, <4>1
    <3>2. CASE r # p
      <4>1. \A q \in Lookups : lookups'[q].proc = r <=> lookups[q].proc = r
        BY <1>2, <1>4, <3>2, QuietIs, LspAssumption DEF p
      <4> QED BY <1>3, <3>2, <4>1, Types DEF Owned
    <3> QED BY <3>1, <3>2
  <2> QED BY <1>1, <2>1, <2>3, <2>4 DEF Owned
<1>6. \A q \in Lookups : Started(lookups'[q])
  BY <1>4, Types, QuietIs
<1>7. \A q \in 1..MaxProcs : procs'[q] # Gone => Below(procs'[q])
  BY <1>3, Types
<1>8. ASSUME NEW q \in Lookups, lookups'[q].proc # 0
      PROVE  lookups'[q] = lookups[q] /\ procs'[lookups[q].proc] = procs[lookups[q].proc]
  <2>1. q # o /\ lookups'[q] = lookups[q] /\ lookups[q].proc # p
    BY <1>2, <1>4, <1>8, QuietIs
  <2>2. lookups[q].proc \in 1..MaxProcs
    BY <1>8, <2>1, Types, LspAssumption DEF Lookup
  <2> QED BY <1>3, <2>1, <2>2
<1> QED BY <1>1, <1>3, <1>4, <1>5, <1>6, <1>7, <1>8, Types, HandedOver

LEMMA FinishKeeps ==
  ASSUME LspInv, NEW o \in Lookups, lookups[o].pc \notin {"idle", "start"},
         NEW session \in Server, Below(session), Finish(o, lookups[o].proc, session)
  PROVE  LspCore(procs, pooled, lookups)'
<1> DEFINE p    == lookups[o].proc
           pool == IF session.alive THEN Checkin(pooled, lookups[o].exe, p) ELSE pooled
           dead == (Held(pooled) \cup {p}) \ Held(pool)
           all  == [procs EXCEPT ![p] = session]
<1>1. pooled' = pool /\ procs' = Kill(all, dead) /\ lookups' = [lookups EXCEPT ![o] = Quiet]
  BY DEF Finish
<1>2. /\ p \in 1..MaxProcs /\ \A q \in Lookups : q # o => lookups[q].proc # p
  BY Types
<1>3. /\ p \notin Held(pooled) /\ \A r \in Held(pooled) : r \in 1..MaxProcs
      /\ lookups[o].exe \in Exes \cup {"none"} /\ Pool(pooled) /\ Len(pooled) <= MaxPooled
  BY Types, HeldIs DEF Owned, Lookup
<1>4. Pool(pool) /\ Len(pool) <= MaxPooled /\ \A q \in Held(pool) : q \in Held(pooled) \/ q = p
  BY <1>2, <1>3, CheckinIs
<1>5. all \in Procs /\ all[p] = session /\ session # Gone /\ \A q \in 1..MaxProcs : q # p => all[q] = procs[q]
  BY <1>2, Types, NotGone DEF Procs
<1> HIDE DEF p, pool, all
<1>6. /\ procs' \in Procs /\ \A q \in 1..MaxProcs : procs'[q] = IF q \in dead THEN Gone ELSE all[q]
  BY <1>1, <1>5, KillIs
<1>7. /\ lookups' \in [Lookups -> Lookup] /\ lookups'[o] = Quiet /\ \A q \in Lookups : q # o => lookups'[q] = lookups[q]
  BY <1>1, Types, QuietIs
<1>8. Owned(procs', pooled', lookups')
  <2>1. \A q, r \in Lookups : q # r /\ lookups'[q].proc # 0 => lookups'[q].proc # lookups'[r].proc
    BY <1>7, Types, QuietIs DEF Owned
  <2>2. 0 \notin Held(pool)
    BY <1>2, <1>3, <1>4, LspAssumption
  <2>3. \A q \in Lookups : lookups'[q].proc \notin Held(pool)
    BY <1>2, <1>4, <1>7, <2>2, Types, QuietIs DEF Owned
  <2>4. ASSUME NEW r \in 1..MaxProcs
        PROVE  procs'[r] # Gone <=> r \in Held(pool) \/ \E q \in Lookups : lookups'[q].proc = r
    <3>1. CASE r \in Held(pool)
      <4>1. procs'[r] = all[r]
        BY <1>6, <3>1
      <4>2. r = p \/ (r # p /\ procs[r] # Gone)
        BY <1>4, <3>1, Types DEF Owned
      <4> QED BY <1>5, <3>1, <4>1, <4>2
    <3>2. CASE r \in dead
      <4>1. \A q \in Lookups : lookups'[q].proc # r
        BY <1>2, <1>3, <1>7, <3>2, Types, QuietIs, LspAssumption DEF Owned
      <4> QED BY <1>6, <3>2, <4>1
    <3>3. CASE r \notin Held(pool) /\ r \notin dead
      <4>1. r # p /\ r \notin Held(pooled) /\ procs'[r] = procs[r]
        BY <1>5, <1>6, <3>3
      <4>2. \A q \in Lookups : lookups'[q].proc = r <=> lookups[q].proc = r
        BY <1>2, <1>7, <4>1, QuietIs, LspAssumption DEF p
      <4> QED BY <3>3, <4>1, <4>2, Types DEF Owned
    <3> QED BY <3>1, <3>2, <3>3
  <2> QED BY <1>1, <2>1, <2>3, <2>4 DEF Owned
<1>9. \A q \in Lookups : Started(lookups'[q])
  BY <1>7, Types, QuietIs
<1>10. \A q \in 1..MaxProcs : procs'[q] # Gone => Below(procs'[q])
  BY <1>5, <1>6, Types
<1>11. ASSUME NEW q \in Lookups, lookups'[q].proc # 0
       PROVE  lookups'[q] = lookups[q] /\ procs'[lookups[q].proc] = procs[lookups[q].proc]
  <2>1. q # o /\ lookups'[q] = lookups[q] /\ lookups[q].proc # p
    BY <1>2, <1>7, <1>11, QuietIs
  <2>2. lookups[q].proc \in 1..MaxProcs /\ lookups[q].proc \notin dead
    BY <1>11, <2>1, Types, LspAssumption DEF Lookup, Owned
  <2> QED BY <1>5, <1>6, <2>1, <2>2
<1> QED BY <1>1, <1>4, <1>6, <1>7, <1>8, <1>9, <1>10, <1>11, HandedOver

-----------------------------------------------------------------------------
(* A server that differs in its pipes only. *)
LEMMA PipesMove ==
  ASSUME NEW s \in Server, Below(s), NEW new \in Server,
         new.next_id = s.next_id, new.knows = s.knows, new.about = s.about,
         new.asked = s.asked \/ new.asked = 0,
         AsksBelow(new.inbox, new.next_id), AnswersBelow(new.rx, new.next_id),
         \A knows, d, t : Told(s.inbox, knows, d, t) => Told(new.inbox, knows, d, t),
         \A id, d : AskedLast(s.inbox, id, d) => AskedLast(new.inbox, id, d),
         NoText(s.inbox) => NoText(new.inbox)
  PROVE  /\ Below(new)
         /\ \A x \in Lookup : Talk(s, x) /\ (x.pc = "wait" => AnsweredFrom(new.rx, x.id, x.text)) => Talk(new, x)
<1>1. Below(new)
  BY DEF Below, Server
<1>2. ASSUME NEW x \in Lookup, Talk(s, x), x.pc = "wait" => AnsweredFrom(new.rx, x.id, x.text)
      PROVE  Talk(new, x)
  <2>1. x.pc \in {"ask", "wait"} => Told(new.inbox, new.knows, x.doc, x.text)
    BY <1>2 DEF Talk
  <2>2. ASSUME x.pc = "wait" PROVE Waiting(new, x)
    <3>1. Waiting(s, x)
      BY <1>2, <2>2 DEF Talk
    <3> QED BY <1>2, <2>2, <3>1 DEF Waiting
  <2> QED BY <2>1, <2>2 DEF Talk
<1> QED BY <1>1, <1>2

LEMMA TakeIs ==
  ASSUME NEW s \in Server, Below(s), s.rx # <<>>
  PROVE  /\ Take(s) \in Server /\ Below(Take(s)) /\ Take(s).next_id = s.next_id /\ Head(s.rx) \in FromServer
         /\ \A x \in Lookup : Talk(s, x) => Talk(Take(s), x)
         /\ \A x \in Lookup : Talk(s, x) /\ x.pc = "wait" /\ Head(s.rx).kind = "answer" /\ Head(s.rx).id = x.id
                                => Head(s.rx).text \in {0, x.text}
<1> DEFINE replies == Reply(<<Head(s.rx)>>)
           new     == Take(s)
<1>1. s.rx \in Seq(FromServer) /\ s.inbox \in Seq(ToServer)
  BY DEF Server
<1>2. /\ Head(s.rx) \in FromServer /\ Tail(s.rx) \in Seq(FromServer) /\ <<Head(s.rx)>> \in Seq(FromServer)
      /\ \A n : AnswersBelow(s.rx, n) => AnswersBelow(Tail(s.rx), n)
      /\ \A id, t : AnsweredFrom(s.rx, id, t) =>
           /\ AnsweredFrom(Tail(s.rx), id, t)
           /\ Head(s.rx).kind = "answer" /\ Head(s.rx).id = id => Head(s.rx).text \in {0, t}
  BY <1>1, FrameTaken
<1>3. replies \in Seq(ReplyFrame)
  BY <1>2, ReplyIs
<1>4. /\ s.inbox \o replies \in Seq(ToServer)
      /\ \A knows, d, t : Told(s.inbox, knows, d, t) => Told(s.inbox \o replies, knows, d, t)
      /\ \A n : AsksBelow(s.inbox, n) => AsksBelow(s.inbox \o replies, n)
      /\ \A id, d : AskedLast(s.inbox, id, d) => AskedLast(s.inbox \o replies, id, d)
      /\ NoText(s.inbox) => NoText(s.inbox \o replies)
  BY <1>1, <1>3, RepliesSent
<1>5. new = [s EXCEPT !.rx = Tail(s.rx), !.inbox = s.inbox \o replies]
  BY DEF Take
<1> HIDE DEF replies, new
<1>6. /\ new \in Server /\ new.rx = Tail(s.rx) /\ new.inbox = s.inbox \o replies
      /\ new.next_id = s.next_id /\ new.knows = s.knows /\ new.about = s.about /\ new.asked = s.asked
  BY <1>2, <1>4, <1>5 DEF Server
<1>7. AsksBelow(new.inbox, new.next_id) /\ AnswersBelow(new.rx, new.next_id)
  BY <1>2, <1>4, <1>6 DEF Below
<1>8. Below(new) /\ \A x \in Lookup : Talk(s, x) /\ (x.pc = "wait" => AnsweredFrom(new.rx, x.id, x.text)) => Talk(new, x)
  <2>1. /\ \A knows, d, t : Told(s.inbox, knows, d, t) => Told(new.inbox, knows, d, t)
        /\ \A id, d : AskedLast(s.inbox, id, d) => AskedLast(new.inbox, id, d)
        /\ NoText(s.inbox) => NoText(new.inbox)
    BY <1>4, <1>6
  <2> QED BY <1>6, <1>7, <2>1, PipesMove
<1>9. \A x \in Lookup : Talk(s, x) /\ x.pc = "wait" => AnsweredFrom(s.rx, x.id, x.text)
  BY DEF Talk, Waiting
<1> QED BY <1>2, <1>6, <1>8, <1>9 DEF new

(* A server's own steps. *)
LEMMA OwnMove ==
  ASSUME LspInv, NEW p \in 1..MaxProcs, procs[p] # Gone, NEW new \in Server, Below(new),
         procs' = [procs EXCEPT ![p] = new], UNCHANGED <<disk, lspcfg, pooled, lookups>>,
         \A x \in Lookup : Talk(procs[p], x) => Talk(new, x)
  PROVE  LspInv'
<1>1. \A o \in Lookups : lookups[o].proc = p => Talk(new, lookups[o])
  BY Types, LspAssumption DEF Going
<1>2. LspCore(procs, pooled, lookups)'
  BY <1>1, Types, ServerMoves
<1> QED BY <1>2 DEF LspInv, Sources

LEMMA StepReads ==
  ASSUME LspInv, NEW p \in 1..MaxProcs, ServerReads(p)
  PROVE  LspInv'
<1> DEFINE s == procs[p]
           m == Head(s.inbox)
           rest == Tail(s.inbox)
           new == CASE m.kind \in {"didOpen", "didChange"} -> [s EXCEPT !.inbox = Tail(@), !.knows[m.doc] = m.text]
                    [] m.kind = "ask"   -> [s EXCEPT !.inbox = Tail(@), !.asked = m.id, !.about = m.doc]
                    [] m.kind = "reply" -> [s EXCEPT !.inbox = Tail(@), !.blocked = FALSE]
<1>1. /\ s.alive /\ s.inbox # <<>> /\ procs' = [procs EXCEPT ![p] = new]
      /\ UNCHANGED <<disk, lspcfg, pooled, lookups>>
  BY DEF ServerReads
<1>2. s # Gone /\ s \in Server /\ Below(s)
  BY <1>1, Types
<1>3. s.inbox \in Seq(ToServer)
  BY <1>2 DEF Server
<1>4. /\ m \in ToServer /\ rest \in Seq(ToServer)
      /\ \A n : AsksBelow(s.inbox, n) => AsksBelow(rest, n) /\ (m.kind = "ask" => m.id < n)
      /\ \A id, d : AskedLast(s.inbox, id, d) =>
           /\ AskedLast(rest, id, d)
           /\ m.kind = "ask" /\ m.id = id => m.doc = d /\ NoText(rest)
      /\ NoText(s.inbox) => NoText(rest) /\ ~IsText(m)
      /\ \A knows, new2, d, t :
           Told(s.inbox, knows, d, t) /\ new2[d] = (IF TextOf(s.inbox, 1, d) THEN m.text ELSE knows[d]) => Told(rest, new2, d, t)
  BY <1>1, <1>3, FrameRead
<1>5. \A d : TextOf(s.inbox, 1, d) <=> IsText(m) /\ m.doc = d
  BY <1>1, <1>3 DEF TextOf
<1>6. /\ m.kind \in {"didOpen", "didChange", "ask", "reply"} /\ (IsText(m) => m.doc \in Docs /\ m.text \in Texts)
      /\ (m.kind = "ask" => m.doc \in Docs /\ m.id \in Nat \ {0})
  BY <1>4, ToServerKinds
<1> HIDE DEF s, m, rest
<1>7. new \in Server /\ Below(new) /\ \A x \in Lookup : Talk(s, x) => Talk(new, x)
  <2>1. CASE IsText(m)
    <3> DEFINE knows == [s.knows EXCEPT ![m.doc] = m.text]
    <3>1. new = [s EXCEPT !.inbox = rest, !.knows = knows]
      BY <2>1 DEF IsText, rest
    <3>2. knows \in [Docs -> Texts] /\ \A d \in Docs : knows[d] = IF d = m.doc THEN m.text ELSE s.knows[d]
      BY <1>2, <1>6, <2>1 DEF Server
    <3> HIDE DEF new, knows
    <3>3. /\ new \in Server /\ new.inbox = rest /\ new.knows = knows /\ new.rx = s.rx /\ new.next_id = s.next_id
          /\ new.asked = s.asked /\ new.about = s.about
      BY <1>2, <1>4, <3>1, <3>2 DEF Server
    <3>4. Below(new)
      BY <1>2, <1>4, <3>3 DEF Below
    <3>5. ASSUME NEW x \in Lookup, Talk(s, x) PROVE Talk(new, x)
      <4>1. x.doc \in Docs
        BY DEF Lookup
      <4>2. x.pc \in {"ask", "wait"} => Told(new.inbox, new.knows, x.doc, x.text)
        <5>1. knows[x.doc] = IF TextOf(s.inbox, 1, x.doc) THEN m.text ELSE s.knows[x.doc]
          BY <1>5, <2>1, <3>2, <4>1
        <5> QED BY <1>4, <3>3, <3>5, <5>1 DEF Talk
      <4>3. ASSUME x.pc = "wait" PROVE Waiting(new, x)
        <5>1. Waiting(s, x)
          BY <3>5, <4>3 DEF Talk
        <5>2. s.asked # x.id
          BY <1>4, <2>1, <5>1 DEF Waiting
        <5> QED BY <1>4, <3>3, <5>1, <5>2 DEF Waiting
      <4> QED BY <4>2, <4>3 DEF Talk
    <3> QED BY <3>3, <3>4, <3>5
  <2>2. CASE m.kind = "ask"
    <3>1. new = [s EXCEPT !.inbox = rest, !.asked = m.id, !.about = m.doc]
      BY <2>2 DEF rest
    <3> HIDE DEF new
    <3>2. /\ new \in Server /\ new.inbox = rest /\ new.knows = s.knows /\ new.rx = s.rx /\ new.next_id = s.next_id
          /\ new.asked = m.id /\ new.about = m.doc
      BY <1>2, <1>4, <1>6, <2>2, <3>1 DEF Server
    <3>3. Below(new)
      BY <1>2, <1>4, <2>2, <3>2 DEF Below
    <3>4. ASSUME NEW x \in Lookup, Talk(s, x) PROVE Talk(new, x)
      <4>1. x.pc \in {"ask", "wait"} => Told(new.inbox, new.knows, x.doc, x.text)
        BY <1>4, <1>5, <2>2, <3>2, <3>4 DEF Talk, IsText
      <4>2. ASSUME x.pc = "wait" PROVE Waiting(new, x)
        <5>1. Waiting(s, x)
          BY <3>4, <4>2 DEF Talk
        <5> QED BY <1>4, <2>2, <3>2, <5>1 DEF Waiting
      <4> QED BY <4>1, <4>2 DEF Talk
    <3> QED BY <3>2, <3>3, <3>4
  <2>3. CASE m.kind = "reply"
    <3>1. new = [s EXCEPT !.inbox = rest, !.blocked = FALSE]
      BY <2>3 DEF rest
    <3> HIDE DEF new
    <3>2. /\ new \in Server /\ new.inbox = rest /\ new.knows = s.knows /\ new.rx = s.rx /\ new.next_id = s.next_id
          /\ new.asked = s.asked /\ new.about = s.about
      BY <1>2, <1>4, <3>1 DEF Server
    <3>3. \A knows, d, t : Told(s.inbox, knows, d, t) => Told(new.inbox, knows, d, t)
      BY <1>4, <1>5, <2>3, <3>2 DEF IsText
    <3>4. AsksBelow(new.inbox, new.next_id) /\ AnswersBelow(new.rx, new.next_id)
      BY <1>2, <1>4, <3>2 DEF Below
    <3>5. Below(new) /\ \A x \in Lookup : Talk(s, x) /\ (x.pc = "wait" => AnsweredFrom(new.rx, x.id, x.text)) => Talk(new, x)
      BY <1>2, <1>4, <3>2, <3>3, <3>4, PipesMove
    <3>6. \A x \in Lookup : Talk(s, x) /\ x.pc = "wait" => AnsweredFrom(new.rx, x.id, x.text)
      BY <3>2 DEF Talk, Waiting
    <3> QED BY <3>2, <3>5, <3>6
  <2> QED BY <1>6, <2>1, <2>2, <2>3 DEF IsText
<1> HIDE DEF new
<1> QED BY <1>1, <1>2, <1>7, OwnMove DEF s

(* Something comes out of the server. *)
LEMMA SaysKeeps ==
  ASSUME LspInv, NEW p \in 1..MaxProcs, procs[p] # Gone, NEW f \in FromServer, NEW s \in Server,
         s.inbox = procs[p].inbox, s.rx = procs[p].rx, s.next_id = procs[p].next_id, s.knows = procs[p].knows,
         s.about = procs[p].about, s.asked = procs[p].asked \/ s.asked = 0,
         procs' = [procs EXCEPT ![p] = [s EXCEPT !.rx = Append(@, f)]], UNCHANGED <<disk, lspcfg, pooled, lookups>>,
         f.kind = "answer" =>
           /\ f.id < s.next_id
           /\ \A x \in Lookup : Talk(procs[p], x) /\ x.pc = "wait" /\ x.id = f.id => f.text \in {0, x.text}
  PROVE  LspInv'
<1> DEFINE new == [s EXCEPT !.rx = Append(s.rx, f)]
<1>1. procs[p] \in Server /\ Below(procs[p]) /\ s.rx \in Seq(FromServer)
  BY Types DEF Server
<1>2. /\ Append(s.rx, f) \in Seq(FromServer)
      /\ \A n : AnswersBelow(s.rx, n) /\ (f.kind = "answer" => f.id < n) => AnswersBelow(Append(s.rx, f), n)
      /\ \A id, t : AnsweredFrom(s.rx, id, t) /\ (f.kind = "answer" /\ f.id = id => f.text \in {0, t})
                      => AnsweredFrom(Append(s.rx, f), id, t)
  BY <1>1, FrameSaid
<1>3. procs' = [procs EXCEPT ![p] = new]
  OBVIOUS
<1>4. /\ new \in Server /\ new.inbox = s.inbox /\ new.knows = s.knows /\ new.rx = Append(s.rx, f)
      /\ new.next_id = s.next_id /\ new.asked = s.asked /\ new.about = s.about
  BY <1>2 DEF Server
<1> HIDE DEF new
<1>5. AsksBelow(new.inbox, new.next_id) /\ AnswersBelow(new.rx, new.next_id)
  BY <1>1, <1>2, <1>4 DEF Below
<1>6. Below(new) /\ \A x \in Lookup : Talk(procs[p], x) /\ (x.pc = "wait" => AnsweredFrom(new.rx, x.id, x.text)) => Talk(new, x)
  BY <1>1, <1>4, <1>5, PipesMove
<1>7. ASSUME NEW x \in Lookup, Talk(procs[p], x), x.pc = "wait" PROVE AnsweredFrom(new.rx, x.id, x.text)
  <2>1. AnsweredFrom(s.rx, x.id, x.text)
    BY <1>7 DEF Talk, Waiting
  <2> QED BY <1>2, <1>4, <1>7, <2>1
<1> QED BY <1>3, <1>4, <1>6, <1>7, OwnMove

LEMMA StepAnswers ==
  ASSUME LspInv, NEW p \in 1..MaxProcs, ServerAnswers(p)
  PROVE  LspInv'
<1> DEFINE s   == procs[p]
           new == [s EXCEPT !.asked = 0]
<1>1. /\ s.alive /\ s.asked # 0 /\ UNCHANGED <<disk, lspcfg, pooled, lookups>>
  BY DEF ServerAnswers
<1>2. PICK text \in {0, s.knows[s.about]} :
        procs' = [procs EXCEPT ![p] = [new EXCEPT !.rx = Append(@, [kind |-> "answer", id |-> s.asked, text |-> text])]]
  BY DEF ServerAnswers, Says
<1> DEFINE f == [kind |-> "answer", id |-> s.asked, text |-> text]
<1>3. s # Gone /\ s \in Server /\ Below(s)
  BY <1>1, Types
<1>4. /\ new \in Server /\ new.inbox = s.inbox /\ new.rx = s.rx /\ new.next_id = s.next_id /\ new.knows = s.knows
      /\ new.about = s.about /\ new.asked = 0
  BY <1>3 DEF Server
<1>5. text \in Texts
  BY <1>3, LspAssumption DEF Server, Texts
<1>6. f \in FromServer /\ f.kind = "answer" /\ f.id = s.asked /\ f.text = text
  BY <1>3, <1>5 DEF FromServer, AnswerFrame, Server
<1>7. s.asked < s.next_id
  BY <1>3 DEF Below
<1>8. ASSUME NEW x \in Lookup, Talk(s, x), x.pc = "wait", x.id = s.asked PROVE text \in {0, x.text}
  <2>1. Waiting(s, x) /\ Told(s.inbox, s.knows, x.doc, x.text)
    BY <1>8 DEF Talk
  <2>2. s.about = x.doc /\ NoText(s.inbox)
    BY <1>8, <2>1 DEF Waiting
  <2>3. s.knows[x.doc] = x.text
    BY <2>1, <2>2 DEF Told, NoText, TextOf
  <2> QED BY <1>2, <2>2, <2>3
<1>9. procs' = [procs EXCEPT ![p] = [new EXCEPT !.rx = Append(@, f)]]
  BY <1>2
<1> HIDE DEF new, f
<1> QED BY <1>1, <1>3, <1>4, <1>6, <1>7, <1>8, <1>9, SaysKeeps

LEMMA StepSays ==
  ASSUME LspInv, NEW p \in 1..MaxProcs, ServerRequests(p) \/ ServerDies(p) \/ \E d \in Docs : ServerPublishes(p, d)
  PROVE  LspInv'
<1> DEFINE s == procs[p]
<1>1. s.alive /\ UNCHANGED <<disk, lspcfg, pooled, lookups>>
  BY DEF ServerRequests, ServerDies, ServerPublishes
<1>2. s # Gone /\ s \in Server /\ procs \in Procs
  BY <1>1, Types
<1>3. CASE ServerRequests(p)
  <2> DEFINE new == [s EXCEPT !.blocked = TRUE]
             f == [kind |-> "request"]
  <2>1. procs' = [procs EXCEPT ![p] = [new EXCEPT !.rx = Append(@, f)]]
    BY <1>3 DEF ServerRequests, Says
  <2>2. f \in FromServer /\ f.kind # "answer"
    BY DEF FromServer
  <2>3. /\ new \in Server /\ new.inbox = s.inbox /\ new.rx = s.rx /\ new.next_id = s.next_id /\ new.knows = s.knows
        /\ new.about = s.about /\ new.asked = s.asked
    BY <1>2 DEF Server
  <2> HIDE DEF new, f
  <2> QED BY <1>1, <1>2, <2>1, <2>2, <2>3, SaysKeeps
<1>4. CASE ServerDies(p)
  <2> DEFINE new == [s EXCEPT !.alive = FALSE]
             f == [kind |-> "eof"]
  <2>1. procs' = [procs EXCEPT ![p] = [new EXCEPT !.rx = Append(@, f)]]
    <3>1. procs' = [procs EXCEPT ![p].alive = FALSE, ![p].rx = Append(@, f)]
      BY <1>4 DEF ServerDies
    <3>2. p \in DOMAIN procs
      BY <1>2 DEF Procs
    <3> QED BY <3>1, <3>2
  <2>2. f \in FromServer /\ f.kind # "answer"
    BY DEF FromServer
  <2>3. /\ new \in Server /\ new.inbox = s.inbox /\ new.rx = s.rx /\ new.next_id = s.next_id /\ new.knows = s.knows
        /\ new.about = s.about /\ new.asked = s.asked
    BY <1>2 DEF Server
  <2> HIDE DEF new, f
  <2> QED BY <1>1, <1>2, <2>1, <2>2, <2>3, SaysKeeps
<1>5. ASSUME NEW d \in Docs, ServerPublishes(p, d) PROVE LspInv'
  <2>1. PICK empty \in BOOLEAN :
          procs' = [procs EXCEPT ![p] = [s EXCEPT !.rx = Append(@, [kind |-> "diagnostics", doc |-> d, text |-> s.knows[d], empty |-> empty])]]
    BY <1>5 DEF ServerPublishes, Says
  <2> DEFINE f == [kind |-> "diagnostics", doc |-> d, text |-> s.knows[d], empty |-> empty]
  <2>2. procs' = [procs EXCEPT ![p] = [s EXCEPT !.rx = Append(@, f)]]
    BY <2>1
  <2>3. f \in FromServer /\ f.kind # "answer"
    <3>1. s.knows[d] \in Texts
      BY <1>2 DEF Server
    <3> QED BY <3>1 DEF FromServer
  <2> HIDE DEF f
  <2> QED BY <1>1, <1>2, <2>2, <2>3, SaysKeeps
<1> QED BY <1>3, <1>4, <1>5

-----------------------------------------------------------------------------
(* A call's own steps. *)
LEMMA CallMoves ==
  ASSUME LspInv, NEW o \in Lookups, lookups[o].pc \notin {"idle", "start"},
         NEW new \in Server, Below(new), procs' = [procs EXCEPT ![lookups[o].proc] = new],
         NEW x \in Lookup, x.proc = lookups[o].proc, x.pc \notin {"idle", "start"}, Talk(new, x),
         lookups' = [lookups EXCEPT ![o] = x], UNCHANGED <<disk, lspcfg, pooled>>
  PROVE  LspInv'
<1> DEFINE p == lookups[o].proc
<1>1. p \in 1..MaxProcs /\ p # 0 /\ procs[p] # Gone /\ \A q \in Lookups : q # o => lookups[q].proc # p
  BY Types
<1>2. /\ lookups' \in [Lookups -> Lookup] /\ lookups'[o] = x /\ \A q \in Lookups : q # o => lookups'[q] = lookups[q]
  BY Types
<1>3. Started(x)
  BY <1>1 DEF Started
<1>4. \A q \in Lookups : lookups'[q].proc = lookups[q].proc /\ Started(lookups'[q])
  BY <1>2, <1>3, Types
<1>5. \A q \in Lookups : lookups[q].proc # p => lookups'[q] = lookups[q]
  BY <1>2
<1>6. \A q \in Lookups : lookups[q].proc = p => Talk(new, lookups'[q])
  BY <1>1, <1>2
<1> HIDE DEF p
<1>7. procs' = [procs EXCEPT ![p] = new]
  BY DEF p
<1>8. LspCore(procs, pooled, lookups)'
  BY <1>1, <1>2, <1>4, <1>5, <1>6, <1>7, ServerMoves
<1> QED BY <1>8 DEF LspInv, Sources

LEMMA StepSync ==
  ASSUME LspInv, NEW o \in Lookups, SyncDocument(o)
  PROVE  LspInv'
<1> DEFINE p == lookups[o].proc
           s == procs[p]
           d == lookups[o].doc
           f == [kind |-> IF d \in s.open_docs THEN "didChange" ELSE "didOpen", doc |-> d, text |-> lookups[o].text]
           replied == s.inbox \o Reply(s.rx)
<1>1. lookups[o].pc = "sync" /\ UNCHANGED <<disk, lspcfg>> /\ lookups[o] \in Lookup
  BY Types DEF SyncDocument
<1>2. CASE ~s.alive
  <2>1. Fail(o) /\ lookups[o].pc \notin {"idle", "start"}
    BY <1>1, <1>2 DEF SyncDocument
  <2>2. LspCore(procs, pooled, lookups)'
    BY <2>1, FailKeeps
  <2> QED BY <1>1, <2>2 DEF LspInv, Sources
<1>3. CASE s.alive
  <2> DEFINE new == [s EXCEPT !.rx = <<>>, !.open_docs = @ \cup {d}, !.inbox = @ \o Reply(s.rx) \o <<f>>]
             pc  == IF lookups[o].tool = "position" THEN "ask" ELSE "collect"
             x   == [lookups[o] EXCEPT !.pc = pc]
  <2>1. /\ procs' = [procs EXCEPT ![p] = new] /\ lookups' = [lookups EXCEPT ![o].pc = pc] /\ UNCHANGED pooled
    BY <1>3 DEF SyncDocument
  <2>2. p \in 1..MaxProcs /\ s \in Server /\ Below(s)
    BY <1>1, Types
  <2>3. s.inbox \in Seq(ToServer) /\ s.rx \in Seq(FromServer) /\ s.asked < s.next_id /\ AsksBelow(s.inbox, s.next_id)
    BY <2>2 DEF Server, Below
  <2>4. Reply(s.rx) \in Seq(ReplyFrame)
    BY <2>3, ReplyIs
  <2>5. replied \in Seq(ToServer) /\ \A n : AsksBelow(s.inbox, n) => AsksBelow(replied, n)
    BY <2>3, <2>4, RepliesSent
  <2>6. f \in TextFrame /\ f.doc = d /\ f.text = lookups[o].text /\ d \in Docs
    BY <1>1 DEF TextFrame, Lookup
  <2>7. s.inbox \o Reply(s.rx) \o <<f>> = Append(replied, f)
    <3>1. \A r \in Seq(ToServer), g \in ToServer : r \o <<g>> = Append(r, g)
      OBVIOUS
    <3>2. f \in ToServer
      BY <2>6 DEF ToServer
    <3> HIDE DEF f
    <3> QED BY <2>5, <3>1, <3>2
  <2> HIDE DEF f, replied
  <2>8. /\ Append(replied, f) \in Seq(ToServer)
        /\ \A knows : Told(Append(replied, f), knows, f.doc, f.text)
        /\ \A n : AsksBelow(replied, n) => AsksBelow(Append(replied, f), n)
    BY <2>5, <2>6, TextSent
  <2>9. <<>> \in Seq(FromServer) /\ \A n : AnswersBelow(<<>>, n)
    BY DEF AnswersBelow
  <2>10. /\ new \in Server /\ new.inbox = Append(replied, f) /\ new.rx = <<>> /\ new.next_id = s.next_id
         /\ new.asked = s.asked /\ new.knows = s.knows
    <3>1. new = [s EXCEPT !.rx = <<>>, !.open_docs = s.open_docs \cup {d}, !.inbox = Append(replied, f)]
      BY <2>7 DEF f
    <3>2. s.open_docs \cup {d} \in SUBSET Docs
      BY <2>2, <2>6 DEF Server
    <3> HIDE DEF new, d
    <3> QED BY <2>2, <2>8, <2>9, <3>1, <3>2 DEF Server
  <2>11. x \in Lookup /\ x.pc = pc /\ x.proc = p /\ x.doc = d /\ x.text = lookups[o].text
    BY <1>1 DEF Lookup
  <2>12. lookups' = [lookups EXCEPT ![o] = x]
    BY <2>1, Types
  <2> HIDE DEF new, x
  <2>13. Below(new)
    BY <2>3, <2>5, <2>8, <2>9, <2>10 DEF Below
  <2>14. Talk(new, x)
    BY <2>6, <2>8, <2>10, <2>11 DEF Talk
  <2> QED BY <1>1, <2>1, <2>10, <2>11, <2>12, <2>13, <2>14, CallMoves
<1> QED BY <1>2, <1>3

LEMMA StepRequest ==
  ASSUME LspInv, NEW o \in Lookups, Request(o)
  PROVE  LspInv'
<1> DEFINE p == lookups[o].proc
           s == procs[p]
           f == [kind |-> "ask", doc |-> lookups[o].doc, id |-> s.next_id]
<1>1. lookups[o].pc = "ask" /\ UNCHANGED <<disk, lspcfg>> /\ lookups[o] \in Lookup
  BY Types DEF Request
<1>2. CASE ~s.alive
  <2>1. Fail(o) /\ lookups[o].pc \notin {"idle", "start"}
    BY <1>1, <1>2 DEF Request
  <2>2. LspCore(procs, pooled, lookups)'
    BY <2>1, FailKeeps
  <2> QED BY <1>1, <2>2 DEF LspInv, Sources
<1>3. CASE s.alive
  <2> DEFINE new == [s EXCEPT !.next_id = @ + 1, !.inbox = Append(@, f)]
             x   == [lookups[o] EXCEPT !.pc = "wait", !.id = s.next_id]
  <2>1. /\ procs' = [procs EXCEPT ![p] = new] /\ lookups' = [lookups EXCEPT ![o].pc = "wait", ![o].id = s.next_id]
        /\ UNCHANGED pooled
    BY <1>3 DEF Request
  <2>2. p \in 1..MaxProcs /\ s \in Server /\ Below(s) /\ Talk(s, lookups[o])
    BY <1>1, Types
  <2>3. /\ s.inbox \in Seq(ToServer) /\ s.rx \in Seq(FromServer) /\ s.asked \in Nat /\ s.asked < s.next_id
        /\ AsksBelow(s.inbox, s.next_id) /\ AnswersBelow(s.rx, s.next_id) /\ s.next_id \in Nat \ {0}
    BY <2>2 DEF Server, Below
  <2>4. f \in AskFrame /\ f.id = s.next_id /\ f.doc = lookups[o].doc
    BY <1>1, <2>3 DEF AskFrame, Lookup
  <2> HIDE DEF f
  <2>5. /\ Append(s.inbox, f) \in Seq(ToServer)
        /\ \A knows, d, t : Told(s.inbox, knows, d, t) => Told(Append(s.inbox, f), knows, d, t)
        /\ AsksBelow(Append(s.inbox, f), s.next_id + 1)
        /\ AskedLast(Append(s.inbox, f), s.next_id, f.doc)
    BY <2>3, <2>4, QuestionSent
  <2>6. /\ new \in Server /\ new.inbox = Append(s.inbox, f) /\ new.rx = s.rx /\ new.next_id = s.next_id + 1
        /\ new.asked = s.asked /\ new.knows = s.knows
    <3>1. s.next_id + 1 \in Nat \ {0}
      BY <2>3
    <3> QED BY <2>2, <2>5, <3>1 DEF Server
  <2>7. x \in Lookup /\ x.pc = "wait" /\ x.proc = p /\ x.doc = lookups[o].doc /\ x.text = lookups[o].text /\ x.id = s.next_id
    <3>1. s.next_id \in Nat
      BY <2>3
    <3> QED BY <1>1, <3>1 DEF Lookup
  <2>8. lookups' = [lookups EXCEPT ![o] = x]
    BY <2>1, Types
  <2> HIDE DEF new, x
  <2>9. \A i \in 1..Len(s.rx) : s.rx[i].kind = "answer" => s.rx[i].id \in Nat /\ s.rx[i].id < s.next_id
    <3>1. \A i \in 1..Len(s.rx) : s.rx[i] \in FromServer
      BY <2>3
    <3> QED BY <2>3, <3>1, FromServerKinds DEF AnswersBelow
  <2>10. Below(new)
    <3>1. new.asked < new.next_id
      BY <2>3, <2>6
    <3>2. AnswersBelow(s.rx, s.next_id + 1)
      BY <2>3, <2>9 DEF AnswersBelow
    <3>3. AnswersBelow(new.rx, new.next_id)
      BY <2>6, <3>2
    <3> QED BY <2>5, <2>6, <3>1, <3>3 DEF Below
  <2>11. Talk(new, x)
    <3>1. Told(new.inbox, new.knows, x.doc, x.text)
      BY <1>1, <2>2, <2>5, <2>6, <2>7 DEF Talk
    <3>2. AnsweredFrom(new.rx, x.id, x.text)
      <4>1. AnsweredFrom(s.rx, s.next_id, x.text)
        <5>1. \A i \in 1..Len(s.rx) : s.rx[i].kind = "answer" => s.rx[i].id # s.next_id
          BY <2>3, <2>9
        <5> QED BY <5>1 DEF AnsweredFrom
      <4> QED BY <2>6, <2>7, <4>1
    <3>3. x.id < new.next_id /\ x.id # 0 /\ new.asked # x.id
      BY <2>3, <2>6, <2>7
    <3>4. AskedLast(new.inbox, x.id, x.doc)
      BY <2>4, <2>5, <2>6, <2>7
    <3> QED BY <3>1, <3>2, <3>3, <3>4 DEF Talk, Waiting
  <2> QED BY <1>1, <2>1, <2>6, <2>7, <2>8, <2>10, <2>11, CallMoves
<1> QED BY <1>2, <1>3

(* A frame is taken from the pipe: the call goes on, or is done. *)
LEMMA TakeMoves ==
  ASSUME LspInv, NEW o \in Lookups, lookups[o].pc \notin {"idle", "start"}, procs[lookups[o].proc].rx # <<>>,
         procs' = [procs EXCEPT ![lookups[o].proc] = Take(procs[lookups[o].proc])],
         NEW x \in Lookup, x.proc = lookups[o].proc, x.pc \notin {"idle", "start"},
         Talk(procs[lookups[o].proc], x),
         lookups' = [lookups EXCEPT ![o] = x], UNCHANGED <<disk, lspcfg, pooled>>
  PROVE  LspInv'
<1>1. procs[lookups[o].proc] \in Server /\ Below(procs[lookups[o].proc])
  BY Types
<1>2. /\ Take(procs[lookups[o].proc]) \in Server /\ Below(Take(procs[lookups[o].proc]))
      /\ Talk(Take(procs[lookups[o].proc]), x)
  BY <1>1, TakeIs
<1> QED BY <1>2, CallMoves

LEMMA TakeFinishes ==
  ASSUME LspInv, NEW o \in Lookups, lookups[o].pc \notin {"idle", "start"}, procs[lookups[o].proc].rx # <<>>,
         Finish(o, lookups[o].proc, Take(procs[lookups[o].proc])), UNCHANGED <<disk, lspcfg>>
  PROVE  LspInv'
<1>1. procs[lookups[o].proc] \in Server /\ Below(procs[lookups[o].proc])
  BY Types
<1>2. Take(procs[lookups[o].proc]) \in Server /\ Below(Take(procs[lookups[o].proc]))
  BY <1>1, TakeIs
<1>3. LspCore(procs, pooled, lookups)'
  BY <1>2, FinishKeeps
<1> QED BY <1>3 DEF LspInv, Sources

LEMMA StepAwait ==
  ASSUME LspInv, NEW o \in Lookups, AwaitResponse(o)
  PROVE  LspInv'
<1> DEFINE p == lookups[o].proc
           s == procs[p]
           f == Head(s.rx)
<1>1. /\ lookups[o].pc = "wait" /\ lookups[o].pc \notin {"idle", "start"} /\ s.rx # <<>>
      /\ UNCHANGED <<disk, lspcfg>> /\ lookups[o] \in Lookup /\ Talk(s, lookups[o])
  BY Types DEF AwaitResponse
<1>2. \/ Fail(o)
      \/ procs' = [procs EXCEPT ![p] = Take(s)] /\ UNCHANGED <<lookups, pooled>>
      \/ Finish(o, p, Take(s))
      \/ procs' = [procs EXCEPT ![p] = Take(s)] /\ lookups' = [lookups EXCEPT ![o].pc = "ask"] /\ UNCHANGED pooled
  BY DEF AwaitResponse
<1> HIDE DEF f
<1>3. CASE Fail(o)
  <2>1. LspCore(procs, pooled, lookups)'
    BY <1>1, <1>3, FailKeeps
  <2> QED BY <1>1, <2>1 DEF LspInv, Sources
<1>4. CASE procs' = [procs EXCEPT ![p] = Take(s)] /\ UNCHANGED <<lookups, pooled>>
  <2>1. lookups' = [lookups EXCEPT ![o] = lookups[o]]
    BY <1>4, Types
  <2> QED BY <1>1, <1>4, <2>1, TakeMoves
<1>5. CASE Finish(o, p, Take(s))
  BY <1>1, <1>5, TakeFinishes
<1>6. CASE procs' = [procs EXCEPT ![p] = Take(s)] /\ lookups' = [lookups EXCEPT ![o].pc = "ask"] /\ UNCHANGED pooled
  <2> DEFINE x == [lookups[o] EXCEPT !.pc = "ask"]
  <2>1. x \in Lookup /\ x.pc = "ask" /\ x.proc = p /\ x.doc = lookups[o].doc /\ x.text = lookups[o].text
    BY <1>1 DEF Lookup
  <2>2. lookups' = [lookups EXCEPT ![o] = x]
    BY <1>6, Types
  <2> HIDE DEF x
  <2>3. Talk(s, x)
    BY <1>1, <2>1 DEF Talk
  <2> QED BY <1>1, <1>6, <2>1, <2>2, <2>3, TakeMoves
<1> QED BY <1>2, <1>3, <1>4, <1>5, <1>6

LEMMA StepCollect ==
  ASSUME LspInv, NEW o \in Lookups, CollectDiagnostics(o)
  PROVE  LspInv'
<1> DEFINE p   == lookups[o].proc
           s   == procs[p]
           f   == Head(s.rx)
           hit == f.kind = "diagnostics" /\ f.doc = lookups[o].doc
<1>1. /\ lookups[o].pc = "collect" /\ lookups[o].pc \notin {"idle", "start"} /\ s.rx # <<>>
      /\ UNCHANGED <<disk, lspcfg>> /\ lookups[o] \in Lookup /\ s \in Server
  BY Types DEF CollectDiagnostics
<1>2. \/ Fail(o)
      \/ Finish(o, p, Take(s))
      \/ /\ procs' = [procs EXCEPT ![p] = Take(s)]
         /\ lookups' = [lookups EXCEPT ![o].got = IF hit THEN f.text ELSE @] /\ UNCHANGED pooled
  BY DEF CollectDiagnostics
<1>3. f \in FromServer
  BY <1>1, FrameTaken DEF Server
<1> HIDE DEF f
<1>4. CASE Fail(o)
  <2>1. LspCore(procs, pooled, lookups)'
    BY <1>1, <1>4, FailKeeps
  <2> QED BY <1>1, <2>1 DEF LspInv, Sources
<1>5. CASE Finish(o, p, Take(s))
  BY <1>1, <1>5, TakeFinishes
<1>6. CASE /\ procs' = [procs EXCEPT ![p] = Take(s)]
           /\ lookups' = [lookups EXCEPT ![o].got = IF hit THEN f.text ELSE @] /\ UNCHANGED pooled
  <2> DEFINE got == IF hit THEN f.text ELSE lookups[o].got
             x   == [lookups[o] EXCEPT !.got = got]
  <2>1. got \in Nat
    BY <1>1, <1>3, FromServerKinds, LspAssumption DEF Lookup, Texts
  <2>2. lookups' = [lookups EXCEPT ![o] = x]
    BY <1>6, Types
  <2> HIDE DEF got
  <2>3. x \in Lookup /\ x.pc = "collect" /\ x.proc = p
    BY <1>1, <2>1 DEF Lookup
  <2> HIDE DEF x
  <2>4. Talk(s, x)
    BY <2>3 DEF Talk
  <2> QED BY <1>1, <1>6, <2>2, <2>3, <2>4, TakeMoves
<1> QED BY <1>2, <1>4, <1>5, <1>6

LEMMA StepTimeUp ==
  ASSUME LspInv, NEW o \in Lookups, TimeUp(o)
  PROVE  LspInv'
<1>1. /\ lookups[o].pc \notin {"idle", "start"} /\ UNCHANGED <<disk, lspcfg>>
      /\ Fail(o) \/ Finish(o, lookups[o].proc, procs[lookups[o].proc])
  BY DEF TimeUp
<1>2. procs[lookups[o].proc] \in Server /\ Below(procs[lookups[o].proc])
  BY <1>1, Types
<1>3. LspCore(procs, pooled, lookups)'
  BY <1>1, <1>2, FailKeeps, FinishKeeps
<1> QED BY <1>1, <1>3 DEF LspInv, Sources

(* A call takes the session of its key, or drops it, or goes without one. *)
LEMMA StepOpen ==
  ASSUME LspInv, NEW o \in Lookups, NEW tool \in {"position", "diagnostics"}, NEW d \in Docs, OpenSession(o, tool, d)
  PROVE  LspInv'
<1> DEFINE mine == {e \in {pooled[i] : i \in DOMAIN pooled} : e.exe = lspcfg}
           free == {e.proc : e \in {x \in mine : procs[x.proc].alive}}
           dead == {e.proc : e \in mine} \ free
           rest == Without(pooled, lspcfg)
           op(p) == [Quiet EXCEPT !.pc = IF p = 0 THEN "start" ELSE "sync", !.tool = tool, !.doc = d,
                       !.exe = lspcfg, !.text = disk[d], !.proc = p]
<1>1. /\ lookups[o].pc = "idle" /\ lspcfg # "off" /\ pooled' = rest /\ procs' = Kill(procs, dead)
      /\ UNCHANGED <<disk, lspcfg>>
  BY DEF OpenSession
<1>2. PICK p \in IF free = {} THEN {0} ELSE free : lookups' = [lookups EXCEPT ![o] = op(p)]
  BY DEF OpenSession
<1> DEFINE x == op(p)
<1>3. /\ Pool(rest) /\ Len(rest) <= Len(pooled)
      /\ \A q : q \in Held(rest) <=> q \in Held(pooled) /\ ~\E i \in DOMAIN pooled : pooled[i].exe = lspcfg /\ pooled[i].proc = q
  BY Types, WithoutIs
<1>4. /\ \A q : q \in {e.proc : e \in mine} <=> \E i \in DOMAIN pooled : pooled[i].exe = lspcfg /\ pooled[i].proc = q
      /\ \A q : q \in free => q \in {e.proc : e \in mine} /\ procs[q].alive
  OBVIOUS
<1>5. \A e, g \in mine : e = g
  <2>1. DOMAIN pooled = 1..Len(pooled) /\ Distinct(pooled)
    BY Types DEF Pool
  <2> QED BY <2>1 DEF Distinct
<1>6. \A q, r \in {e.proc : e \in mine} : q = r
  BY <1>5
<1>7. lookups[o] \in Lookup /\ lookups[o].proc = 0 /\ \A q \in Held(pooled) : q \in 1..MaxProcs /\ q # 0
  BY <1>1, Types, HeldIs DEF Started
<1>8. \A q : q \in {e.proc : e \in mine} => q \in Held(pooled)
  BY <1>4 DEF Held
<1>9. p = 0 \/ (p \in free /\ p \in 1..MaxProcs /\ p # 0)
  BY <1>4, <1>7, <1>8
<1>10. x \in Lookup /\ x.proc = p /\ x.pc = (IF p = 0 THEN "start" ELSE "sync")
  <2>1. disk[d] \in Texts /\ lspcfg \in Exes \cup {"none"} /\ p \in 0..MaxProcs
    BY <1>1, <1>9, LspAssumption DEF LspInv, Sources
  <2>2. Quiet \in Lookup
    BY QuietIs
  <2> DEFINE pc == IF p = 0 THEN "start" ELSE "sync"
             t  == disk[d]
  <2>3. x = [Quiet EXCEPT !.pc = pc, !.tool = tool, !.doc = d, !.exe = lspcfg, !.text = t, !.proc = p]
    OBVIOUS
  <2>4. pc \in {"start", "sync"}
    OBVIOUS
  <2> HIDE DEF pc, t, mine
  <2> QED BY <2>1, <2>2, <2>3, <2>4 DEF Lookup, pc, t
<1>11. lookups' = [lookups EXCEPT ![o] = x]
  BY <1>2
<1> HIDE DEF x, op, rest, free, mine
<1>12. /\ lookups' \in [Lookups -> Lookup] /\ lookups'[o] = x /\ \A q \in Lookups : q # o => lookups'[q] = lookups[q]
  BY <1>10, <1>11, Types
<1>13. procs' \in Procs /\ \A q \in 1..MaxProcs : procs'[q] = IF q \in dead THEN Gone ELSE procs[q]
  BY <1>1, Types, KillIs
<1>14. \A q \in Lookups : lookups[q].proc \notin Held(pooled)
  BY Types DEF Owned
<1>15. Owned(procs', pooled', lookups')
  <2>1. \A q, r \in Lookups : q # r /\ lookups'[q].proc # 0 => lookups'[q].proc # lookups'[r].proc
    <3> SUFFICES ASSUME NEW q \in Lookups, NEW r \in Lookups, q # r, lookups'[q].proc # 0,
                        lookups'[q].proc = lookups'[r].proc
                 PROVE  FALSE
      OBVIOUS
    <3>1. CASE q # o /\ r # o
      BY <1>12, <3>1, Types DEF Owned
    <3>2. CASE q = o \/ r = o
      <4>1. p \in Held(pooled) /\ \E w \in Lookups : lookups[w].proc = p
        BY <1>4, <1>8, <1>9, <1>10, <1>12, <3>2
      <4> QED BY <1>14, <4>1
    <3> QED BY <3>1, <3>2
  <2>2. \A q \in Lookups : lookups'[q].proc \notin Held(rest)
    BY <1>3, <1>4, <1>7, <1>9, <1>10, <1>12, <1>14
  <2>3. ASSUME NEW r \in 1..MaxProcs
        PROVE  procs'[r] # Gone <=> r \in Held(rest) \/ \E q \in Lookups : lookups'[q].proc = r
    <3>1. procs[r] # Gone <=> r \in Held(pooled) \/ \E q \in Lookups : lookups[q].proc = r
      BY Types DEF Owned
    <3>2. r # 0
      BY LspAssumption
    <3>3. CASE r \in {e.proc : e \in mine}
      <4>1. r \in Held(pooled) /\ r \notin Held(rest) /\ \A q \in Lookups : lookups[q].proc # r
        <5>1. r \in Held(pooled)
          BY <1>8, <3>3
        <5>2. \E i \in DOMAIN pooled : pooled[i].exe = lspcfg /\ pooled[i].proc = r
          BY <1>4, <3>3
        <5>3. r \notin Held(rest)
          BY <1>3, <5>2
        <5>4. \A q \in Lookups : lookups[q].proc # r
          BY <1>14, <5>1
        <5> QED BY <5>1, <5>3, <5>4
      <4>2. (\E q \in Lookups : lookups'[q].proc = r) <=> p = r
        BY <1>10, <1>12, <4>1
      <4>3. p = r <=> r \in free
        BY <1>2, <1>4, <1>6, <1>9, <3>2, <3>3
      <4> QED BY <1>13, <3>1, <3>3, <4>1, <4>2, <4>3
    <3>4. CASE r \notin {e.proc : e \in mine}
      <4>1. r \in Held(rest) <=> r \in Held(pooled)
        BY <1>3, <1>4, <3>4
      <4>2. p # r /\ r \notin dead
        BY <1>4, <1>9, <3>2, <3>4
      <4>3. (\E q \in Lookups : lookups'[q].proc = r) <=> \E q \in Lookups : lookups[q].proc = r
        BY <1>7, <1>10, <1>12, <3>2, <4>2
      <4> QED BY <1>13, <3>1, <4>1, <4>2, <4>3
    <3> QED BY <3>3, <3>4
  <2> QED BY <1>1, <2>1, <2>2, <2>3 DEF Owned
<1>16. \A q \in Lookups : Started(lookups'[q])
  <2>1. Started(x)
    BY <1>10 DEF Started
  <2> QED BY <1>12, <2>1, Types
<1>17. \A q \in 1..MaxProcs : procs'[q] # Gone => Below(procs'[q])
  BY <1>13, Types
<1>18. ASSUME NEW q \in Lookups, lookups'[q].proc # 0
       PROVE  \/ lookups'[q].pc = "sync"
              \/ lookups'[q] = lookups[q] /\ procs'[lookups[q].proc] = procs[lookups[q].proc]
  <2>1. CASE q = o
    BY <1>10, <1>12, <1>18, <2>1
  <2>2. CASE q # o
    <3>1. lookups[q].proc \in 1..MaxProcs /\ lookups[q].proc \notin dead
      BY <1>8, <1>12, <1>14, <1>18, <2>2, Types, LspAssumption DEF Lookup
    <3> QED BY <1>12, <1>13, <2>2, <3>1
  <2> QED BY <2>1, <2>2
<1>19. Pool(pooled') /\ Len(pooled') <= MaxPooled
  BY <1>1, <1>3, Types, LspAssumption DEF Pool
<1>20. LspCore(procs, pooled, lookups)'
  BY <1>12, <1>13, <1>15, <1>16, <1>17, <1>18, <1>19, HandedOver
<1> QED BY <1>1, <1>20 DEF LspInv, Sources

LEMMA NewServerIs ==
  ASSUME NEW exe \in Exes \cup {"none"}
  PROVE  LET new == [NewServer(exe) EXCEPT !.next_id = 2] IN new \in Server /\ Below(new)
<1> DEFINE new == [NewServer(exe) EXCEPT !.next_id = 2]
<1>1. (CHOOSE d \in Docs : TRUE) \in Docs /\ [d \in Docs |-> 0] \in [Docs -> Texts]
  BY LspAssumption DEF Texts
<1>2. <<>> \in Seq(ToServer) /\ <<>> \in Seq(FromServer) /\ 2 \in Nat \ {0} /\ 1 \in Nat \ {0} /\ 0 \in Nat
  OBVIOUS
<1>3. NewServer(exe) \in Server
  BY <1>1, <1>2 DEF NewServer, Server
<1>4. new \in Server /\ new.inbox = <<>> /\ new.rx = <<>> /\ new.asked = 0 /\ new.next_id = 2
  BY <1>2, <1>3 DEF NewServer, Server
<1> HIDE DEF new
<1>5. Below(new)
  BY <1>4 DEF Below, AsksBelow, AnswersBelow
<1> QED BY <1>4, <1>5 DEF new

LEMMA StepStart ==
  ASSUME LspInv, NEW o \in Lookups, StartServer(o)
  PROVE  LspInv'
<1>1. lookups[o].pc = "start" /\ UNCHANGED <<disk, lspcfg, pooled>> /\ lookups[o] \in Lookup
  BY Types DEF StartServer
<1>2. lookups[o].proc = 0 /\ lookups[o].exe \in Exes \cup {"none"}
  BY <1>1, Types DEF Started, Lookup
<1>3. ASSUME NEW p \in 1..MaxProcs, procs[p] = Gone,
             procs' = [procs EXCEPT ![p] = [NewServer(lookups[o].exe) EXCEPT !.next_id = 2]],
             lookups' = [lookups EXCEPT ![o].pc = "sync", ![o].proc = p]
      PROVE  LspInv'
  <2> DEFINE new == [NewServer(lookups[o].exe) EXCEPT !.next_id = 2]
             x   == [lookups[o] EXCEPT !.pc = "sync", !.proc = p]
  <2>1. new \in Server /\ Below(new)
    BY <1>2, NewServerIs
  <2>2. p \in 0..MaxProcs /\ p # 0
    BY LspAssumption
  <2>3. x \in Lookup /\ x.pc = "sync" /\ x.proc = p
    BY <1>1, <2>2 DEF Lookup
  <2>4. lookups' = [lookups EXCEPT ![o] = x]
    BY <1>3, Types
  <2> HIDE DEF new, x
  <2>5. procs' = [procs EXCEPT ![p] = new]
    BY <1>3 DEF new
  <2>6. /\ lookups' \in [Lookups -> Lookup] /\ lookups'[o] = x /\ \A q \in Lookups : q # o => lookups'[q] = lookups[q]
    BY <2>3, <2>4, Types
  <2>7. /\ procs' \in Procs /\ procs'[p] = new /\ new # Gone /\ \A q \in 1..MaxProcs : q # p => procs'[q] = procs[q]
    BY <2>1, <2>5, Types, NotGone DEF Procs
  <2>8. p \notin Held(pooled) /\ \A q \in Lookups : lookups[q].proc # p
    BY <1>3, Types DEF Owned
  <2>9. Owned(procs', pooled', lookups')
    <3>1. \A q, r \in Lookups : q # r /\ lookups'[q].proc # 0 => lookups'[q].proc # lookups'[r].proc
      BY <2>3, <2>6, <2>8, Types DEF Owned
    <3>2. \A q \in Lookups : lookups'[q].proc \notin Held(pooled)
      BY <2>3, <2>6, <2>8, Types DEF Owned
    <3>3. ASSUME NEW r \in 1..MaxProcs
          PROVE  procs'[r] # Gone <=> r \in Held(pooled) \/ \E q \in Lookups : lookups'[q].proc = r
      <4>1. CASE r = p
        BY <2>3, <2>6, <2>7, <4>1
      <4>2. CASE r # p
        <5>1. (\E q \in Lookups : lookups'[q].proc = r) <=> \E q \in Lookups : lookups[q].proc = r
          BY <1>2, <2>3, <2>6, <4>2, LspAssumption
        <5> QED BY <2>7, <4>2, <5>1, Types DEF Owned
      <4> QED BY <4>1, <4>2
    <3> QED BY <1>1, <3>1, <3>2, <3>3 DEF Owned
  <2>10. \A q \in Lookups : Started(lookups'[q])
    <3>1. Started(x)
      BY <2>2, <2>3 DEF Started
    <3> QED BY <2>6, <3>1, Types
  <2>11. \A q \in 1..MaxProcs : procs'[q] # Gone => Below(procs'[q])
    BY <2>1, <2>7, Types
  <2>12. ASSUME NEW q \in Lookups, lookups'[q].proc # 0
         PROVE  \/ lookups'[q].pc = "sync"
                \/ lookups'[q] = lookups[q] /\ procs'[lookups[q].proc] = procs[lookups[q].proc]
    <3>1. CASE q = o
      BY <2>3, <2>6, <3>1
    <3>2. CASE q # o
      <4>1. lookups[q].proc \in 1..MaxProcs /\ lookups[q].proc # p
        BY <2>6, <2>8, <2>12, <3>2, Types, LspAssumption DEF Lookup
      <4> QED BY <2>6, <2>7, <3>2, <4>1
    <3> QED BY <3>1, <3>2
  <2>13. Pool(pooled') /\ Len(pooled') <= MaxPooled
    BY <1>1, Types
  <2>14. LspCore(procs, pooled, lookups)'
    BY <2>6, <2>7, <2>9, <2>10, <2>11, <2>12, <2>13, HandedOver
  <2> QED BY <1>1, <2>14 DEF LspInv, Sources
<1>4. ASSUME lookups' = [lookups EXCEPT ![o] = Quiet], UNCHANGED procs PROVE LspInv'
  <2>1. /\ lookups' \in [Lookups -> Lookup] /\ lookups'[o] = Quiet /\ \A q \in Lookups : q # o => lookups'[q] = lookups[q]
    BY <1>4, Types, QuietIs
  <2>2. \A q \in Lookups : lookups'[q].proc = lookups[q].proc
    BY <1>2, <2>1, QuietIs
  <2>3. Owned(procs', pooled', lookups')
    BY <1>1, <1>4, <2>2, Types DEF Owned
  <2>4. \A q \in Lookups : Started(lookups'[q])
    BY <2>1, Types, QuietIs
  <2>5. \A q \in Lookups : lookups'[q].proc # 0 => lookups'[q] = lookups[q]
    BY <2>1, QuietIs
  <2>6. LspCore(procs, pooled, lookups)'
    BY <1>1, <1>4, <2>1, <2>3, <2>4, <2>5, Types, HandedOver
  <2> QED BY <1>1, <2>6 DEF LspInv, Sources
<1> QED BY <1>3, <1>4 DEF StartServer

LEMMA StepReap ==
  ASSUME LspInv, NEW n \in 1..MaxPooled, ReapIdle(n)
  PROVE  LspInv'
<1> DEFINE rest  == SubSeq(pooled, n + 1, Len(pooled))
           first == SubSeq(pooled, 1, n)
<1>1. n \in 1..Len(pooled) /\ procs' = Kill(procs, Held(first)) /\ pooled' = rest /\ UNCHANGED <<disk, lspcfg, lookups>>
  BY DEF ReapIdle
<1>2. n \in 0..Len(pooled) /\ Len(pooled) - n <= MaxPooled
  BY <1>1, Types, LspAssumption DEF Pool
<1>3. /\ Pool(rest) /\ Len(rest) = Len(pooled) - n
      /\ \A p : p \in Held(pooled) <=> p \in Held(rest) \/ p \in Held(first)
      /\ \A p : ~(p \in Held(rest) /\ p \in Held(first))
  BY <1>2, Types, PoolPart
<1> HIDE DEF rest, first
<1>4. procs' \in Procs /\ \A q \in 1..MaxProcs : procs'[q] = IF q \in Held(first) THEN Gone ELSE procs[q]
  BY <1>1, Types, KillIs
<1>5. Owned(procs', pooled', lookups')
  BY <1>1, <1>3, <1>4, Types DEF Owned
<1>6. \A q \in 1..MaxProcs : procs'[q] # Gone => Below(procs'[q])
  BY <1>4, Types
<1>7. \A q \in Lookups : lookups[q].proc # 0 => procs'[lookups[q].proc] = procs[lookups[q].proc]
  <2> SUFFICES ASSUME NEW q \in Lookups, lookups[q].proc # 0 PROVE procs'[lookups[q].proc] = procs[lookups[q].proc]
    OBVIOUS
  <2>1. lookups[q].proc \in 1..MaxProcs /\ lookups[q].proc \notin Held(pooled)
    BY Types, LspAssumption DEF Lookup, Owned
  <2> QED BY <1>3, <1>4, <2>1
<1>8. lookups' \in [Lookups -> Lookup] /\ \A q \in Lookups : Started(lookups'[q])
  BY <1>1, Types
<1>9. Pool(pooled') /\ Len(pooled') <= MaxPooled
  BY <1>1, <1>2, <1>3
<1>10. LspCore(procs, pooled, lookups)'
  BY <1>1, <1>4, <1>5, <1>6, <1>7, <1>8, <1>9, HandedOver
<1> QED BY <1>1, <1>10 DEF LspInv, Sources

-----------------------------------------------------------------------------
LEMMA LspInitInv == LspInit => LspInv
<1> SUFFICES ASSUME LspInit PROVE LspInv
  OBVIOUS
<1>1. /\ disk = [d \in Docs |-> 1] /\ lspcfg \in Exes /\ procs = [p \in 1..MaxProcs |-> Gone] /\ pooled = <<>>
      /\ lookups = [o \in Lookups |-> Quiet]
  BY DEF LspInit
<1>2. Sources
  BY <1>1, LspAssumption DEF Sources, Texts
<1>3. procs \in Procs /\ \A p \in 1..MaxProcs : procs[p] = Gone
  BY <1>1 DEF Procs
<1>4. pooled \in Seq(Entry) /\ Len(pooled) = 0 /\ Pool(pooled) /\ Held(pooled) = {} /\ Len(pooled) <= MaxPooled
  BY <1>1, LspAssumption DEF Pool, Distinct, Held
<1>5. lookups \in [Lookups -> Lookup] /\ \A o \in Lookups : Started(lookups[o]) /\ lookups[o].proc = 0
  BY <1>1, QuietIs
<1>6. Owned(procs, pooled, lookups)
  BY <1>3, <1>4, <1>5, LspAssumption DEF Owned
<1>7. Going(procs, lookups)
  BY <1>3, <1>5 DEF Going
<1> QED BY <1>2, <1>3, <1>4, <1>5, <1>6, <1>7 DEF LspInv, LspCore

LEMMA SameLsp ==
  ASSUME LspInv, UNCHANGED <<procs, pooled, lookups>>, Sources'
  PROVE  LspInv'
<1>1. LspCore(procs, pooled, lookups)'
  BY DEF LspInv
<1> QED BY <1>1 DEF LspInv

LEMMA LspStep == LspInv /\ [LspNext]_lspvars => LspInv'
<1> SUFFICES ASSUME LspInv, [LspNext]_lspvars PROVE LspInv'
  OBVIOUS
<1>1. ASSUME NEW o \in Lookups, NEW tool \in {"position", "diagnostics"}, NEW d \in Docs, OpenSession(o, tool, d) PROVE LspInv'
  BY <1>1, StepOpen
<1>2. ASSUME NEW o \in Lookups, StartServer(o) \/ SyncDocument(o) \/ Request(o)
                                \/ AwaitResponse(o) \/ CollectDiagnostics(o) \/ TimeUp(o)
      PROVE  LspInv'
  BY <1>2, StepStart, StepSync, StepRequest, StepAwait, StepCollect, StepTimeUp
<1>3. ASSUME NEW p \in DOMAIN procs,
             \/ ServerReads(p) \/ ServerAnswers(p) \/ ServerRequests(p) \/ ServerDies(p)
             \/ \E d \in Docs : ServerPublishes(p, d)
      PROVE  LspInv'
  <2>1. p \in 1..MaxProcs
    BY Types DEF Procs
  <2> QED BY <1>3, <2>1, StepReads, StepAnswers, StepSays
<1>4. ASSUME NEW n \in 1..MaxPooled, ReapIdle(n) PROVE LspInv'
  BY <1>4, StepReap
<1>5. ASSUME NEW d \in Docs, EditDoc(d) PROVE LspInv'
  <2>1. disk' = [disk EXCEPT ![d] = disk[d] + 1] /\ disk[d] < MaxText /\ disk \in [Docs -> Texts] /\ lspcfg' = lspcfg
        /\ lspcfg \in Exes \cup {"off"}
    BY <1>5 DEF EditDoc, LspInv, Sources
  <2>2. disk[d] + 1 \in Texts
    BY <2>1, LspAssumption DEF Texts
  <2>3. Sources'
    BY <2>1, <2>2 DEF Sources
  <2> QED BY <1>5, <2>3, SameLsp DEF EditDoc
<1>6. ASSUME NEW exe \in Exes \cup {"off"}, SaveLspServerConfig(exe) PROVE LspInv'
  <2>1. Sources'
    BY <1>6 DEF SaveLspServerConfig, LspInv, Sources
  <2> QED BY <1>6, <2>1, SameLsp DEF SaveLspServerConfig
<1>7. CASE UNCHANGED lspvars
  <2>1. Sources'
    BY <1>7 DEF lspvars, LspInv, Sources
  <2> QED BY <1>7, <2>1, SameLsp DEF lspvars
<1> QED BY <1>1, <1>2, <1>3, <1>4, <1>5, <1>6, <1>7 DEF LspNext

LEMMA LspMeans == LspInv => LspTypeOK /\ ServersOwned
<1> SUFFICES ASSUME LspInv PROVE LspTypeOK /\ ServersOwned
  OBVIOUS
<1>1. DOMAIN pooled = 1..Len(pooled) /\ Distinct(pooled)
  BY Types DEF Pool
<1>2. LspTypeOK
  <2>1. \A o \in Lookups : lookups[o].text \in Texts /\ lookups[o].proc \in 0..MaxProcs
    BY Types DEF Lookup
  <2> QED BY <1>1, <2>1, Types DEF LspTypeOK, LspInv, Sources, Distinct
<1>3. ASSUME NEW p \in 1..MaxProcs
      PROVE  Cardinality({i \in DOMAIN pooled : pooled[i].proc = p}) + Cardinality({o \in Lookups : lookups[o].proc = p})
               = IF procs[p] = Gone THEN 0 ELSE 1
  <2> DEFINE A == {i \in DOMAIN pooled : pooled[i].proc = p}
             B == {o \in Lookups : lookups[o].proc = p}
  <2>1. p # 0
    BY LspAssumption
  <2>2. A # {} <=> p \in Held(pooled)
    BY DEF Held
  <2>3. B # {} <=> \E o \in Lookups : lookups[o].proc = p
    OBVIOUS
  <2>4. \A i, j \in A : i = j
    BY <1>1 DEF Distinct
  <2>5. \A q, r \in B : q = r
    BY <2>1, Types DEF Owned
  <2>6. procs[p] # Gone <=> A # {} \/ B # {}
    BY <2>2, <2>3, Types DEF Owned
  <2>7. A = {} \/ B = {}
    BY <2>2, Types DEF Owned
  <2> HIDE DEF A, B
  <2>8. \A S : (\A u, v \in S : u = v) => Cardinality(S) = IF S = {} THEN 0 ELSE 1
    <3> SUFFICES ASSUME NEW S, \A u, v \in S : u = v PROVE Cardinality(S) = IF S = {} THEN 0 ELSE 1
      OBVIOUS
    <3>1. CASE S = {}
      BY <3>1, FS_EmptySet
    <3>2. ASSUME NEW u \in S PROVE Cardinality(S) = 1
      <4>1. S = {u}
        BY <3>2
      <4> QED BY <4>1, FS_Singleton
    <3> QED BY <3>1, <3>2
  <2>9. Cardinality(A) = (IF A = {} THEN 0 ELSE 1) /\ Cardinality(B) = IF B = {} THEN 0 ELSE 1
    BY <2>4, <2>5, <2>8
  <2>10. Cardinality(A) + Cardinality(B) = IF procs[p] = Gone THEN 0 ELSE 1
    BY <2>6, <2>7, <2>9
  <2> QED BY <2>10 DEF A, B
<1> QED BY <1>2, <1>3 DEF ServersOwned

(* A call that waits ends here: its own step, with what it waited for.     *)
LEMMA OwnTextStep ==
  ASSUME LspInv, [LspNext]_lspvars, NEW o \in Lookups,
         lookups[o].pc = "wait", lookups[o].proc # 0,
         procs[lookups[o].proc].rx # <<>>, Head(procs[lookups[o].proc].rx).kind = "answer",
         Head(procs[lookups[o].proc].rx).text # 0, lookups'[o].pc = "idle", procs'[lookups[o].proc] # Gone
  PROVE  Head(procs[lookups[o].proc].rx).text = lookups[o].text
<1> DEFINE p == lookups[o].proc
           s == procs[p]
           f == Head(s.rx)
<1>1. /\ lookups[o] \in Lookup /\ p \in 1..MaxProcs /\ s \in Server /\ Below(s) /\ Talk(s, lookups[o])
      /\ lookups \in [Lookups -> Lookup] /\ procs \in Procs
  BY Types
<1>2. f.kind = "answer" /\ f.id = lookups[o].id => f.text \in {0, lookups[o].text}
  BY <1>1, TakeIs
<1>3. lookups'[o] # lookups[o]
  OBVIOUS
<1>4. \A q \in Lookups : \A x : q # o => lookups' # [lookups EXCEPT ![q] = x]
  BY <1>1, <1>3
<1>5. ~Fail(o)
  <2>1. Fail(o) => procs'[p] = Gone
    <3>1. Fail(o) => procs' = Kill(procs, {p})
      BY DEF Fail
    <3>2. Kill(procs, {p})[p] = Gone
      <4> HIDE DEF p
      <4> QED BY <1>1, KillIs
    <3> HIDE DEF p
    <3> QED BY <3>1, <3>2
  <2> QED BY <2>1
<1>6. \A q \in Lookups : q # o => ~Fail(q)
  BY <1>4 DEF Fail
<1>7. \A q \in Lookups : \A r, session : q # o => ~Finish(q, r, session)
  BY <1>4 DEF Finish
<1>8. \A q \in Lookups : \A tool, d : ~OpenSession(q, tool, d)
  <2> SUFFICES ASSUME NEW q \in Lookups, NEW tool, NEW d, OpenSession(q, tool, d) PROVE FALSE
    OBVIOUS
  <2>1. lookups[q].pc = "idle" /\ \E x : lookups' = [lookups EXCEPT ![q] = x]
    BY DEF OpenSession
  <2> QED BY <1>4, <2>1
<1>9. \A q \in Lookups : ~StartServer(q)
  <2> SUFFICES ASSUME NEW q \in Lookups, StartServer(q) PROVE FALSE
    OBVIOUS
  <2>1. lookups[q].pc = "start"
    BY DEF StartServer
  <2>2. \E x : lookups' = [lookups EXCEPT ![q] = x]
    <3>1. \A y : [lookups EXCEPT ![q].pc = "sync", ![q].proc = y] = [lookups EXCEPT ![q] = [lookups[q] EXCEPT !.pc = "sync", !.proc = y]]
      BY <1>1
    <3> QED BY <3>1 DEF StartServer
  <2> QED BY <1>4, <2>1, <2>2
<1>10. \A q \in Lookups : ~SyncDocument(q) /\ ~Request(q)
  <2> SUFFICES ASSUME NEW q \in Lookups, SyncDocument(q) \/ Request(q) PROVE FALSE
    OBVIOUS
  <2>1. lookups[q].pc # "wait" /\ q # o
    BY DEF SyncDocument, Request
  <2>2. Fail(q) \/ \E x : lookups' = [lookups EXCEPT ![q] = x]
    <3>1. \A y : [lookups EXCEPT ![q].pc = y] = [lookups EXCEPT ![q] = [lookups[q] EXCEPT !.pc = y]]
      BY <1>1
    <3>2. \A y, z : [lookups EXCEPT ![q].pc = y, ![q].id = z] = [lookups EXCEPT ![q] = [lookups[q] EXCEPT !.pc = y, !.id = z]]
      BY <1>1
    <3>3. SyncDocument(q) => Fail(q) \/ \E x : lookups' = [lookups EXCEPT ![q] = x]
      BY <3>1 DEF SyncDocument
    <3>4. Request(q) => Fail(q) \/ \E x : lookups' = [lookups EXCEPT ![q] = x]
      <4> DEFINE n == procs[lookups[q].proc].next_id
      <4>1. Request(q) => Fail(q) \/ lookups' = [lookups EXCEPT ![q].pc = "wait", ![q].id = n]
        BY DEF Request
      <4>2. [lookups EXCEPT ![q].pc = "wait", ![q].id = n] = [lookups EXCEPT ![q] = [lookups[q] EXCEPT !.pc = "wait", !.id = n]]
        BY <3>2
      <4> HIDE DEF n
      <4> QED BY <4>1, <4>2
    <3> QED BY <3>3, <3>4
  <2> QED BY <1>4, <1>6, <2>1, <2>2
<1>11. \A q \in Lookups : ~TimeUp(q)
  BY <1>5, <1>6, <1>7 DEF TimeUp
<1>12. \A q \in Lookups : ~CollectDiagnostics(q)
  <2> SUFFICES ASSUME NEW q \in Lookups, CollectDiagnostics(q) PROVE FALSE
    OBVIOUS
  <2>1. q # o
    BY DEF CollectDiagnostics
  <2>2. \E x : lookups' = [lookups EXCEPT ![q] = x]
    <3>1. \A y : [lookups EXCEPT ![q].got = y] = [lookups EXCEPT ![q] = [lookups[q] EXCEPT !.got = y]]
      BY <1>1
    <3>2. Fail(q) \/ (\E r, session : Finish(q, r, session)) \/ \E y : lookups' = [lookups EXCEPT ![q].got = y]
      BY DEF CollectDiagnostics
    <3> QED BY <2>1, <1>6, <1>7, <3>1, <3>2
  <2> QED BY <1>4, <2>1, <2>2
<1>13. \A q \in Lookups : q # o => ~AwaitResponse(q)
  <2> SUFFICES ASSUME NEW q \in Lookups, q # o, AwaitResponse(q) PROVE FALSE
    OBVIOUS
  <2>1. Fail(q) \/ (\E r, session : Finish(q, r, session)) \/ UNCHANGED lookups \/ lookups' = [lookups EXCEPT ![q].pc = "ask"]
    BY DEF AwaitResponse
  <2>2. [lookups EXCEPT ![q].pc = "ask"] = [lookups EXCEPT ![q] = [lookups[q] EXCEPT !.pc = "ask"]]
    BY <1>1
  <2> QED BY <1>3, <1>4, <1>6, <1>7, <2>1, <2>2
<1>14. \A r, n, d, exe : /\ ~ServerReads(r) /\ ~ServerAnswers(r) /\ ~ServerRequests(r) /\ ~ServerDies(r)
                         /\ ~ServerPublishes(r, d) /\ ~ReapIdle(n) /\ ~EditDoc(d) /\ ~SaveLspServerConfig(exe)
  BY <1>3 DEF ServerReads, ServerAnswers, ServerRequests, ServerDies, ServerPublishes, ReapIdle, EditDoc, SaveLspServerConfig
<1>15. ~UNCHANGED lspvars
  BY <1>3 DEF lspvars
<1>16. AwaitResponse(o)
  BY <1>8, <1>9, <1>10, <1>11, <1>12, <1>13, <1>14, <1>15 DEF LspNext
<1>17. Answers(o, f)
  <2>1. CASE ~Answers(o, f)
    <3>1. UNCHANGED lookups
      BY <1>16, <2>1 DEF AwaitResponse
    <3> QED BY <1>3, <3>1
  <2> QED BY <2>1
<1> QED BY <1>2, <1>17 DEF Answers

(* An answer is computed from the text the call read (see LspPool). *)
THEOREM OwnTextIsAnswered == LspSpec => OwnTextAnswered
<1>1. LspSpec => []LspInv
  BY LspInitInv, LspStep, PTL DEF LspSpec
<1>2. LspInv /\ [LspNext]_lspvars =>
        [\A o \in Lookups :
           lookups[o].pc = "wait" /\ lookups[o].proc # 0 =>
             LET s == procs[lookups[o].proc]
             IN s.rx # <<>> /\ Head(s.rx).kind = "answer" /\ Head(s.rx).text # 0 /\ lookups'[o].pc = "idle"
                  /\ procs'[lookups[o].proc] # Gone
                  => Head(s.rx).text = lookups[o].text]_lspvars
  BY OwnTextStep
<1> QED BY <1>1, <1>2, PTL DEF LspSpec, OwnTextAnswered

-----------------------------------------------------------------------------
(***************************************************************************)
(* Theorem about Shells, for any number of commands and lines and any sizes*)
(* of the buffers: a command that is done or killed has exited, its readers*)
(* have returned, and all that was written is shown, once.                 *)
(*                                                                         *)
(* FinalStatusIsLast is not inductive. ShellInv adds where the lines are   *)
(* that are not shown yet: in one of the two pipes (LinesKept); that a     *)
(* reader ends only when its pipe is empty and nobody has it open          *)
(* (ReadersEnd); what of the lines shown is in the buffer and in the result*)
(* (ShownKept); and that the call waits for the process and then for the   *)
(* readers (Waits).                                                        *)
(***************************************************************************)
(* A command: its pipes, what was read and shown, how far the call is. *)
Shell ==
  [pc : {"none", "spawn", "run", "join", "returned"}, background : BOOLEAN, alive : BOOLEAN, child : BOOLEAN,
   wrote : Seq(Nat), pipe : [Pipes -> Seq(Nat)], reader : [Pipes -> {"none", "reading", "died", "ended"}],
   collected : [Pipes -> Seq(Nat)], truncated : BOOLEAN, shown : Seq(Nat), output : Seq(Nat),
   status : Final \cup {"none", "running"}, cancel : BOOLEAN, timed_out : BOOLEAN]

(* Every line is shown or still in a pipe. *)
Parted(shown, out, err, wrote) ==
  /\ Len(shown) + Len(out) + Len(err) = Len(wrote)
  /\ Lines(shown) \cup Lines(out) \cup Lines(err) = Lines(wrote)
LinesKept(sh) == Parted(sh.shown, sh.pipe["stdout"], sh.pipe["stderr"], sh.wrote)

(* What is shown is in the buffer, as far as it goes, and in the result,    *)
(* unless that says that it is cut or a reader died.                        *)
ShownKept(sh) ==
  /\ sh.output = Last(sh.shown, OutputBuffer)
  /\ \A p \in Pipes : Len(sh.collected[p]) <= MaxCollected
  /\ sh.truncated \/ sh.reader["stdout"] = "died" \/ sh.reader["stderr"] = "died"
       \/ Lines(sh.collected["stdout"]) \cup Lines(sh.collected["stderr"]) = Lines(sh.shown)

(* A reader ends when nothing is left in its pipe and no one holds it open. *)
ReadersEnd(sh) ==
  \A p \in Pipes : sh.reader[p] = "ended" => sh.pipe[p] = <<>> /\ ~sh.alive /\ ~sh.child

(* The call waits for the process, then for the readers. *)
Waits(sh) ==
  /\ sh.alive => sh.pc = "run"
  /\ sh.pc \in {"none", "spawn"} => ~sh.child /\ sh.reader = NotRun.reader
  /\ sh.pc \in {"run", "join"} => \A p \in Pipes : sh.reader[p] # "none"
  /\ sh.pc = "returned" /\ sh.reader # NotRun.reader => \A p \in Pipes : sh.reader[p] # "reading"
  /\ sh.reader = NotRun.reader => ~sh.child
  /\ sh.status \in {"done", "killed"} => sh.pc = "returned"
  /\ sh.status = "killed" => sh.cancel

ShellInv(sh) == sh \in Shell /\ LinesKept(sh) /\ ShownKept(sh) /\ ReadersEnd(sh) /\ Waits(sh)

ShInv == shells \in [ShellIds -> Shell] /\ \A s \in ShellIds : ShellInv(shells[s])

-----------------------------------------------------------------------------
(* A line more, a line less. *)
LEMMA LineMore ==
  ASSUME NEW seq \in Seq(Nat), NEW x \in Nat
  PROVE  /\ Append(seq, x) \in Seq(Nat)
         /\ Len(Append(seq, x)) = Len(seq) + 1
         /\ Lines(Append(seq, x)) = Lines(seq) \cup {x}
<1>1. DOMAIN Append(seq, x) = 1..Len(seq) + 1 /\ DOMAIN seq = 1..Len(seq)
  OBVIOUS
<1>2. \A i \in 1..Len(seq) : Append(seq, x)[i] = seq[i]
  OBVIOUS
<1>3. Append(seq, x)[Len(seq) + 1] = x
  OBVIOUS
<1>4. \A y : y \in Lines(Append(seq, x)) <=> y \in Lines(seq) \/ y = x
  BY <1>1, <1>2, <1>3 DEF Lines
<1> QED BY <1>4

LEMMA LineLess ==
  ASSUME NEW seq \in Seq(Nat), seq # <<>>
  PROVE  /\ Head(seq) \in Nat /\ Tail(seq) \in Seq(Nat)
         /\ Len(seq) = Len(Tail(seq)) + 1
         /\ Lines(seq) = Lines(Tail(seq)) \cup {Head(seq)}
<1>1. Len(seq) \in Nat \ {0} /\ DOMAIN seq = 1..Len(seq)
  OBVIOUS
<1>2. Head(seq) \in Nat /\ Tail(seq) \in Seq(Nat) /\ Len(Tail(seq)) = Len(seq) - 1 /\ Head(seq) = seq[1]
  BY <1>1
<1>3. DOMAIN Tail(seq) = 1..Len(seq) - 1 /\ \A i \in 1..Len(seq) - 1 : Tail(seq)[i] = seq[i + 1]
  BY <1>1, <1>2
<1>4. \A i \in 1..Len(seq) : i = 1 \/ (i - 1 \in 1..Len(seq) - 1 /\ Tail(seq)[i - 1] = seq[i])
  BY <1>1, <1>3
<1>5. \A y : y \in Lines(seq) <=> y \in Lines(Tail(seq)) \/ y = Head(seq)
  <2>1. ASSUME NEW y \in Lines(seq) PROVE y \in Lines(Tail(seq)) \/ y = Head(seq)
    <3>1. PICK i \in 1..Len(seq) : y = seq[i]
      BY <2>1, <1>1 DEF Lines
    <3>2. CASE i = 1
      BY <3>1, <3>2, <1>2
    <3>3. CASE i # 1
      <4>1. i - 1 \in DOMAIN Tail(seq) /\ Tail(seq)[i - 1] = y
        BY <3>1, <3>3, <1>3, <1>4
      <4> QED BY <4>1 DEF Lines
    <3> QED BY <3>2, <3>3
  <2>2. ASSUME NEW y \in Lines(Tail(seq)) PROVE y \in Lines(seq)
    <3>1. PICK i \in 1..Len(seq) - 1 : y = Tail(seq)[i]
      BY <2>2, <1>3 DEF Lines
    <3>2. i + 1 \in DOMAIN seq /\ y = seq[i + 1]
      BY <3>1, <1>1, <1>3
    <3> QED BY <3>2 DEF Lines
  <2>3. Head(seq) \in Lines(seq)
    BY <1>1, <1>2 DEF Lines
  <2> QED BY <2>1, <2>2, <2>3
<1> QED BY <1>1, <1>2, <1>5

LEMMA NoLines == Lines(<<>>) = {} /\ Len(<<>>) = 0
BY DEF Lines

(* A line that is written goes into one pipe; one that is read is shown. *)
LEMMA PartWritten ==
  ASSUME NEW shown \in Seq(Nat), NEW out \in Seq(Nat), NEW err \in Seq(Nat), NEW wrote \in Seq(Nat),
         NEW n \in Nat, Parted(shown, out, err, wrote)
  PROVE  Parted(shown, Append(out, n), err, Append(wrote, n)) /\ Parted(shown, out, Append(err, n), Append(wrote, n))
<1>1. /\ Len(Append(out, n)) = Len(out) + 1 /\ Len(Append(err, n)) = Len(err) + 1 /\ Len(Append(wrote, n)) = Len(wrote) + 1
      /\ Lines(Append(out, n)) = Lines(out) \cup {n} /\ Lines(Append(err, n)) = Lines(err) \cup {n}
      /\ Lines(Append(wrote, n)) = Lines(wrote) \cup {n}
  BY LineMore
<1>2. /\ Len(shown) + Len(Append(out, n)) + Len(err) = Len(Append(wrote, n))
      /\ Len(shown) + Len(out) + Len(Append(err, n)) = Len(Append(wrote, n))
  BY <1>1 DEF Parted
<1>3. /\ Lines(shown) \cup (Lines(out) \cup {n}) \cup Lines(err) = Lines(wrote) \cup {n}
      /\ Lines(shown) \cup Lines(out) \cup (Lines(err) \cup {n}) = Lines(wrote) \cup {n}
  BY DEF Parted
<1> QED BY <1>1, <1>2, <1>3, Zenon DEF Parted

LEMMA PartRead ==
  ASSUME NEW shown \in Seq(Nat), NEW out \in Seq(Nat), NEW err \in Seq(Nat), NEW wrote, Parted(shown, out, err, wrote)
  PROVE  /\ out # <<>> => Parted(Append(shown, Head(out)), Tail(out), err, wrote)
         /\ err # <<>> => Parted(Append(shown, Head(err)), out, Tail(err), wrote)
<1>1. ASSUME out # <<>> PROVE Parted(Append(shown, Head(out)), Tail(out), err, wrote)
  <2>1. /\ Head(out) \in Nat /\ Tail(out) \in Seq(Nat) /\ Len(out) = Len(Tail(out)) + 1
        /\ Lines(out) = Lines(Tail(out)) \cup {Head(out)}
    BY <1>1, LineLess
  <2>2. Len(Append(shown, Head(out))) = Len(shown) + 1 /\ Lines(Append(shown, Head(out))) = Lines(shown) \cup {Head(out)}
    BY <2>1, LineMore
  <2>3. Len(Append(shown, Head(out))) + Len(Tail(out)) + Len(err) = Len(wrote)
    BY <2>1, <2>2 DEF Parted
  <2>4. (Lines(shown) \cup {Head(out)}) \cup Lines(Tail(out)) \cup Lines(err) = Lines(wrote)
    BY <2>1 DEF Parted
  <2> QED BY <2>2, <2>3, <2>4, Zenon DEF Parted
<1>2. ASSUME err # <<>> PROVE Parted(Append(shown, Head(err)), out, Tail(err), wrote)
  <2>1. /\ Head(err) \in Nat /\ Tail(err) \in Seq(Nat) /\ Len(err) = Len(Tail(err)) + 1
        /\ Lines(err) = Lines(Tail(err)) \cup {Head(err)}
    BY <1>2, LineLess
  <2>2. Len(Append(shown, Head(err))) = Len(shown) + 1 /\ Lines(Append(shown, Head(err))) = Lines(shown) \cup {Head(err)}
    BY <2>1, LineMore
  <2>3. Len(Append(shown, Head(err))) + Len(out) + Len(Tail(err)) = Len(wrote)
    BY <2>1, <2>2 DEF Parted
  <2>4. (Lines(shown) \cup {Head(err)}) \cup Lines(out) \cup Lines(Tail(err)) = Lines(wrote)
    BY <2>1 DEF Parted
  <2> QED BY <2>2, <2>3, <2>4, Zenon DEF Parted
<1> QED BY <1>1, <1>2

(* The buffer is kept short one line at a time: that is the same as cutting *)
(* the whole.                                                              *)
LEMMA LastType ==
  ASSUME NEW seq \in Seq(Nat), NEW n \in Nat
  PROVE  Last(seq, n) \in Seq(Nat) /\ Len(Last(seq, n)) = (IF Len(seq) > n THEN n ELSE Len(seq))
<1>1. CASE Len(seq) > n
  <2>1. Len(seq) - n + 1 \in 1..Len(seq) + 1 /\ Len(seq) \in Nat
    BY <1>1
  <2>2. \A i \in Len(seq) - n + 1..Len(seq) : seq[i] \in Nat
    BY <2>1
  <2>3. SubSeq(seq, Len(seq) - n + 1, Len(seq)) \in Seq(Nat) /\ Len(SubSeq(seq, Len(seq) - n + 1, Len(seq))) = n
    <3>1. Len(seq) - n + 1 \in Int /\ Len(seq) \in Int
      BY <2>1
    <3>2. IF Len(seq) - n + 1 <= Len(seq) THEN Len(seq) - (Len(seq) - n + 1) + 1 = n ELSE n = 0
      BY <1>1, <2>1
    <3> QED BY <2>1, <2>2, <3>1, <3>2, SubSeqProperties
  <2> QED BY <1>1, <2>3 DEF Last
<1>2. CASE Len(seq) <= n
  BY <1>2 DEF Last
<1> QED BY <1>1, <1>2

LEMMA LastAt ==
  ASSUME NEW seq \in Seq(Nat), NEW n \in Nat, Len(seq) > n
  PROVE  \A i \in 1..n : Last(seq, n)[i] = seq[Len(seq) - n + i]
<1>1. Len(seq) - n + 1 \in Int /\ Len(seq) \in Int /\ Len(seq) - n + 1 \in 1..Len(seq) + 1
  OBVIOUS
<1>2. \A i \in 1..n : SubSeq(seq, Len(seq) - n + 1, Len(seq))[i] = seq[Len(seq) - n + 1 + i - 1]
  <2>1. \A i \in Len(seq) - n + 1..Len(seq) : seq[i] \in Nat
    BY <1>1
  <2>2. Len(seq) - (Len(seq) - n + 1) + 1 = n
    BY <1>1
  <2> QED BY <1>1, <2>1, <2>2, SubSeqProperties
<1>3. \A i \in 1..n : Len(seq) - n + 1 + i - 1 = Len(seq) - n + i
  OBVIOUS
<1> QED BY <1>2, <1>3 DEF Last

LEMMA LastOfLast ==
  ASSUME NEW seq \in Seq(Nat), NEW x \in Nat, NEW n \in Nat
  PROVE  Last(Append(Last(seq, n), x), n) = Last(Append(seq, x), n)
<1> DEFINE cut == Last(seq, n)
           one == Append(cut, x)
           all == Append(seq, x)
<1>1. CASE Len(seq) <= n
  BY <1>1 DEF Last
<1>2. CASE Len(seq) > n
  <2>1. cut \in Seq(Nat) /\ Len(cut) = n /\ \A i \in 1..n : cut[i] = seq[Len(seq) - n + i]
    BY <1>2, LastType, LastAt
  <2>2. one \in Seq(Nat) /\ Len(one) = n + 1 /\ one[n + 1] = x /\ \A i \in 1..n : one[i] = cut[i]
    BY <2>1
  <2>3. all \in Seq(Nat) /\ Len(all) = Len(seq) + 1 /\ all[Len(seq) + 1] = x /\ \A i \in 1..Len(seq) : all[i] = seq[i]
    OBVIOUS
  <2> HIDE DEF cut, one, all
  <2>4. Last(one, n) \in Seq(Nat) /\ Len(Last(one, n)) = n /\ \A i \in 1..n : Last(one, n)[i] = one[1 + i]
    <3>1. Len(one) > n /\ Len(one) - n = 1
      BY <2>2
    <3> QED BY <2>2, <3>1, LastType, LastAt
  <2>5. Last(all, n) \in Seq(Nat) /\ Len(Last(all, n)) = n /\ \A i \in 1..n : Last(all, n)[i] = all[Len(seq) + 1 - n + i]
    <3>1. Len(all) > n
      BY <1>2, <2>3
    <3>2. Last(all, n) \in Seq(Nat) /\ Len(Last(all, n)) = n /\ \A i \in 1..n : Last(all, n)[i] = all[Len(all) - n + i]
      BY <2>3, <3>1, LastType, LastAt
    <3> QED BY <2>3, <3>2
  <2>6. \A i \in 1..n : one[1 + i] = all[Len(seq) + 1 - n + i]
    <3> SUFFICES ASSUME NEW i \in 1..n PROVE one[1 + i] = all[Len(seq) + 1 - n + i]
      OBVIOUS
    <3>1. CASE i = n
      <4>1. Len(seq) + 1 - n + i = Len(seq) + 1 /\ 1 + i = n + 1
        BY <3>1
      <4> QED BY <4>1, <2>2, <2>3
    <3>2. CASE i # n
      <4>1. 1 + i \in 1..n /\ Len(seq) + 1 - n + i \in 1..Len(seq) /\ Len(seq) - n + (1 + i) = Len(seq) + 1 - n + i
        BY <1>2, <3>2
      <4>2. one[1 + i] = cut[1 + i] /\ cut[1 + i] = seq[Len(seq) - n + (1 + i)]
        BY <4>1, <2>1, <2>2
      <4>3. all[Len(seq) + 1 - n + i] = seq[Len(seq) + 1 - n + i]
        BY <4>1, <2>3
      <4> QED BY <4>1, <4>2, <4>3, Zenon
    <3> QED BY <3>1, <3>2
  <2>7. Last(one, n) = Last(all, n)
    <3>1. \A i \in 1..n : Last(one, n)[i] = Last(all, n)[i]
      BY <2>4, <2>5, <2>6
    <3> QED BY <2>4, <2>5, <3>1, SeqEqual
  <2> QED BY <2>7 DEF cut, one, all
<1> QED BY <1>1, <1>2

-----------------------------------------------------------------------------
LEMMA NotRunYet == ShellInv(NotRun)
<1>1. NotRun \in Shell
  BY DEF NotRun, Shell, Pipes, Final
<1>2. /\ NotRun.pipe["stdout"] = <<>> /\ NotRun.pipe["stderr"] = <<>>
      /\ NotRun.collected["stdout"] = <<>> /\ NotRun.collected["stderr"] = <<>>
      /\ NotRun.wrote = <<>> /\ NotRun.shown = <<>> /\ NotRun.output = <<>>
      /\ \A p \in Pipes : NotRun.collected[p] = <<>>
  BY DEF NotRun, Pipes
<1>3. LinesKept(NotRun)
  <2>1. Parted(<<>>, <<>>, <<>>, <<>>)
    BY NoLines DEF Parted
  <2> QED BY <1>2, <2>1, Zenon DEF LinesKept
<1>4. ShownKept(NotRun)
  <2>1. Last(<<>>, OutputBuffer) = <<>>
    BY ShellsAssumption DEF Last
  <2> QED BY <1>2, <2>1, NoLines, ShellsAssumption DEF ShownKept
<1>5. ReadersEnd(NotRun) /\ Waits(NotRun)
  BY DEF ReadersEnd, Waits, NotRun
<1> QED BY <1>1, <1>3, <1>4, <1>5 DEF ShellInv

LEMMA ShInitInv == ShInit => ShInv
BY NotRunYet DEF ShInit, ShInv, ShellInv

(* A step changes one command, to one in order. *)
LEMMA OneShell ==
  ASSUME ShInv, NEW s \in ShellIds, NEW new, Put(s, new), ShellInv(new)
  PROVE  ShInv'
<1>1. shells' = [shells EXCEPT ![s] = new] /\ new \in Shell
  BY DEF Put, ShellInv
<1>2. shells' \in [ShellIds -> Shell]
  BY <1>1 DEF ShInv
<1>3. \A t \in ShellIds : ShellInv(shells'[t])
  BY <1>1 DEF ShInv
<1> QED BY <1>2, <1>3 DEF ShInv, ShellInv, LinesKept, Parted, ShownKept, ReadersEnd, Waits

(* What does not touch the lines. *)
LEMMA SameLines ==
  ASSUME NEW old, ShellInv(old), NEW new \in Shell,
         new.wrote = old.wrote, new.pipe = old.pipe, new.shown = old.shown, new.output = old.output,
         new.collected = old.collected, new.truncated = old.truncated,
         \A p \in Pipes : old.reader[p] = "died" <=> new.reader[p] = "died"
  PROVE  LinesKept(new) /\ ShownKept(new)
BY DEF ShellInv, LinesKept, ShownKept, Pipes

LEMMA ShStart ==
  ASSUME ShInv, NEW s \in ShellIds, NEW background \in BOOLEAN, StartCommand(s, background)
  PROVE  ShInv'
<1> DEFINE new == [NotRun EXCEPT !.pc = "spawn", !.background = background, !.status = "running"]
<1>1. NotRun \in Shell /\ ShellInv(NotRun)
  BY NotRunYet DEF ShellInv
<1>2. new \in Shell
  BY <1>1 DEF Shell
<1>3. LinesKept(new) /\ ShownKept(new)
  BY <1>1, <1>2, SameLines DEF Shell
<1>4. ReadersEnd(new) /\ Waits(new)
  BY DEF ReadersEnd, Waits, NotRun
<1>5. Put(s, new)
  BY DEF StartCommand
<1> QED BY <1>2, <1>3, <1>4, <1>5, OneShell DEF ShellInv

LEMMA ShProcess ==
  ASSUME ShInv, NEW s \in ShellIds,
         Spawn(s) \/ CommandForks(s) \/ CommandExits(s) \/ ChildExits(s) \/ SeesExit(s) \/ SeesCancel(s)
           \/ CommandTimesOut(s) \/ JoinReaders(s) \/ KillShell(s)
  PROVE  ShInv'
<1> DEFINE old == shells[s]
<1>0. ShellInv(old) /\ old \in Shell /\ ReadersEnd(old) /\ Waits(old)
  BY DEF ShInv, ShellInv
<1> HIDE DEF old
<1>1. CASE Spawn(s)
  <2>1. CASE Put(s, [old EXCEPT !.pc = "run", !.alive = TRUE, !.reader = [p \in Pipes |-> "reading"]])
    <3> DEFINE new == [old EXCEPT !.pc = "run", !.alive = TRUE, !.reader = [p \in Pipes |-> "reading"]]
    <3>1. old.pc = "spawn" /\ old.reader = NotRun.reader
      BY <1>0, <1>1 DEF Spawn, Is, old, Waits
    <3>2. new \in Shell
      BY <1>0 DEF Shell
    <3>3. \A p \in Pipes : old.reader[p] = "died" <=> new.reader[p] = "died"
      BY <1>0, <3>1 DEF NotRun, Shell
    <3>4. LinesKept(new) /\ ShownKept(new)
      BY <1>0, <3>2, <3>3, SameLines DEF Shell
    <3>5. ReadersEnd(new) /\ Waits(new)
      BY <1>0, <3>1 DEF ReadersEnd, Waits, Shell, NotRun, Pipes
    <3> QED BY <2>1, <3>2, <3>4, <3>5, OneShell DEF ShellInv
  <2>2. CASE Put(s, [old EXCEPT !.pc = "returned", !.status = IF old.cancel THEN "killed" ELSE "error"])
    <3> DEFINE new == [old EXCEPT !.pc = "returned", !.status = IF old.cancel THEN "killed" ELSE "error"]
    <3>1. old.pc = "spawn" /\ old.reader = NotRun.reader
      BY <1>0, <1>1 DEF Spawn, Is, old, Waits
    <3>2. new \in Shell
      BY <1>0 DEF Shell, Final
    <3>4. LinesKept(new) /\ ShownKept(new)
      BY <1>0, <3>2, SameLines DEF Shell
    <3>5. ReadersEnd(new) /\ Waits(new)
      BY <1>0, <3>1 DEF ReadersEnd, Waits, Shell, NotRun, Pipes
    <3> QED BY <2>2, <3>2, <3>4, <3>5, OneShell DEF ShellInv
  <2> QED BY <1>1, <2>1, <2>2 DEF Spawn, old
<1>2. CASE CommandForks(s)
  <2> DEFINE new == [old EXCEPT !.child = TRUE]
  <2>1. new \in Shell /\ old.alive
    BY <1>0, <1>2 DEF Shell, CommandForks, old
  <2>2. LinesKept(new) /\ ShownKept(new)
    BY <1>0, <2>1, SameLines DEF Shell
  <2>3. ReadersEnd(new) /\ Waits(new)
    BY <1>0, <2>1 DEF ReadersEnd, Waits, Shell, NotRun, Pipes
  <2>4. Put(s, new)
    BY <1>2 DEF CommandForks, old
  <2> QED BY <2>1, <2>2, <2>3, <2>4, OneShell DEF ShellInv
<1>3. CASE CommandExits(s)
  <2> DEFINE new == [old EXCEPT !.alive = FALSE]
  <2>1. new \in Shell
    BY <1>0 DEF Shell
  <2>2. LinesKept(new) /\ ShownKept(new)
    BY <1>0, <2>1, SameLines DEF Shell
  <2>3. ReadersEnd(new) /\ Waits(new)
    BY <1>0 DEF ReadersEnd, Waits, Shell
  <2>4. Put(s, new)
    BY <1>3 DEF CommandExits, old
  <2> QED BY <2>1, <2>2, <2>3, <2>4, OneShell DEF ShellInv
<1>4. CASE ChildExits(s)
  <2> DEFINE new == [old EXCEPT !.child = FALSE]
  <2>1. new \in Shell
    BY <1>0 DEF Shell
  <2>2. LinesKept(new) /\ ShownKept(new)
    BY <1>0, <2>1, SameLines DEF Shell
  <2>3. ReadersEnd(new) /\ Waits(new)
    BY <1>0 DEF ReadersEnd, Waits, Shell
  <2>4. Put(s, new)
    BY <1>4 DEF ChildExits, old
  <2> QED BY <2>1, <2>2, <2>3, <2>4, OneShell DEF ShellInv
<1>5. CASE SeesExit(s)
  <2> DEFINE new == [old EXCEPT !.pc = "join"]
  <2>1. new \in Shell /\ old.pc = "run" /\ ~old.alive
    BY <1>0, <1>5 DEF Shell, SeesExit, Is, old
  <2>2. LinesKept(new) /\ ShownKept(new)
    BY <1>0, <2>1, SameLines DEF Shell
  <2>3. ReadersEnd(new) /\ Waits(new)
    BY <1>0, <2>1 DEF ReadersEnd, Waits, Shell
  <2>4. Put(s, new)
    BY <1>5 DEF SeesExit, old
  <2> QED BY <2>1, <2>2, <2>3, <2>4, OneShell DEF ShellInv
<1>6. CASE SeesCancel(s)
  <2> DEFINE new == [old EXCEPT !.pc = "join", !.alive = FALSE]
  <2>1. new \in Shell /\ old.pc = "run"
    BY <1>0, <1>6 DEF Shell, SeesCancel, Is, old
  <2>2. LinesKept(new) /\ ShownKept(new)
    BY <1>0, <2>1, SameLines DEF Shell
  <2>3. ReadersEnd(new) /\ Waits(new)
    BY <1>0, <2>1 DEF ReadersEnd, Waits, Shell
  <2>4. Put(s, new)
    BY <1>6 DEF SeesCancel, old
  <2> QED BY <2>1, <2>2, <2>3, <2>4, OneShell DEF ShellInv
<1>7. CASE CommandTimesOut(s)
  <2> DEFINE new == [old EXCEPT !.pc = "join", !.alive = FALSE, !.timed_out = TRUE]
  <2>1. new \in Shell /\ old.pc = "run"
    BY <1>0, <1>7 DEF Shell, CommandTimesOut, Is, old
  <2>2. LinesKept(new) /\ ShownKept(new)
    BY <1>0, <2>1, SameLines DEF Shell
  <2>3. ReadersEnd(new) /\ Waits(new)
    BY <1>0, <2>1 DEF ReadersEnd, Waits, Shell
  <2>4. Put(s, new)
    BY <1>7 DEF CommandTimesOut, old
  <2> QED BY <2>1, <2>2, <2>3, <2>4, OneShell DEF ShellInv
<1>8. CASE JoinReaders(s)
  <2> DEFINE new == [old EXCEPT !.pc = "returned", !.status = IF old.cancel THEN "killed" ELSE "done"]
  <2>1. new \in Shell /\ old.pc = "join" /\ \A p \in Pipes : old.reader[p] # "reading"
    BY <1>0, <1>8 DEF Shell, JoinReaders, Is, Final, old
  <2>2. LinesKept(new) /\ ShownKept(new)
    BY <1>0, <2>1, SameLines DEF Shell
  <2>3. ReadersEnd(new) /\ Waits(new)
    BY <1>0, <2>1 DEF ReadersEnd, Waits, Shell
  <2>4. Put(s, new)
    BY <1>8 DEF JoinReaders, old
  <2> QED BY <2>1, <2>2, <2>3, <2>4, OneShell DEF ShellInv
<1>9. CASE KillShell(s)
  <2> DEFINE new == [old EXCEPT !.cancel = TRUE]
  <2>1. new \in Shell
    BY <1>0 DEF Shell
  <2>2. LinesKept(new) /\ ShownKept(new)
    BY <1>0, <2>1, SameLines DEF Shell
  <2>3. ReadersEnd(new) /\ Waits(new)
    BY <1>0 DEF ReadersEnd, Waits, Shell
  <2>4. Put(s, new)
    BY <1>9 DEF KillShell, old
  <2> QED BY <2>1, <2>2, <2>3, <2>4, OneShell DEF ShellInv
<1> QED BY <1>1, <1>2, <1>3, <1>4, <1>5, <1>6, <1>7, <1>8, <1>9

(* The pipes. *)
LEMMA ShWrites ==
  ASSUME ShInv, NEW s \in ShellIds, NEW p \in Pipes, CommandWrites(s, p)
  PROVE  ShInv'
<1> DEFINE old == shells[s]
           n   == Len(old.wrote) + 1
           new == [old EXCEPT !.wrote = Append(@, n), !.pipe[p] = Append(@, n)]
<1>1. ShellInv(old) /\ old \in Shell /\ Put(s, new) /\ (old.alive \/ old.child)
  BY DEF ShInv, CommandWrites, ShellInv
<1> HIDE DEF old
<1>2. old.wrote \in Seq(Nat) /\ old.pipe \in [Pipes -> Seq(Nat)] /\ old.pipe[p] \in Seq(Nat) /\ n \in Nat
  BY <1>1 DEF Shell
<1>3. /\ Append(old.wrote, n) \in Seq(Nat) /\ Len(Append(old.wrote, n)) = Len(old.wrote) + 1
      /\ Lines(Append(old.wrote, n)) = Lines(old.wrote) \cup {n}
  BY <1>2, LineMore
<1>4. /\ Append(old.pipe[p], n) \in Seq(Nat) /\ Len(Append(old.pipe[p], n)) = Len(old.pipe[p]) + 1
      /\ Lines(Append(old.pipe[p], n)) = Lines(old.pipe[p]) \cup {n}
  BY <1>2, LineMore
<1> HIDE DEF n
<1>5. new.wrote = Append(old.wrote, n) /\ new.pipe = [old.pipe EXCEPT ![p] = Append(old.pipe[p], n)]
       /\ new.pc = old.pc /\ new.alive = old.alive /\ new.child = old.child /\ new.reader = old.reader
       /\ new.collected = old.collected /\ new.truncated = old.truncated /\ new.shown = old.shown
       /\ new.output = old.output /\ new.status = old.status /\ new.cancel = old.cancel
       /\ new.background = old.background /\ new.timed_out = old.timed_out
  BY <1>1 DEF Shell
<1>6. new \in Shell
  BY <1>1, <1>3, <1>4 DEF Shell
<1> HIDE DEF new
<1>7. /\ p = "stdout" \/ p = "stderr"
      /\ new.pipe[p] = Append(old.pipe[p], n)
      /\ \A q \in Pipes : q # p => new.pipe[q] = old.pipe[q]
  BY <1>2, <1>5 DEF Pipes
<1>8. LinesKept(new)
  <2>1. /\ Parted(old.shown, old.pipe["stdout"], old.pipe["stderr"], old.wrote)
        /\ old.shown \in Seq(Nat) /\ old.pipe["stdout"] \in Seq(Nat) /\ old.pipe["stderr"] \in Seq(Nat)
    BY <1>1 DEF ShellInv, Shell, Pipes, LinesKept
  <2>2. /\ Parted(old.shown, Append(old.pipe["stdout"], n), old.pipe["stderr"], Append(old.wrote, n))
        /\ Parted(old.shown, old.pipe["stdout"], Append(old.pipe["stderr"], n), Append(old.wrote, n))
    BY <1>2, <2>1, PartWritten
  <2>3. \/ new.pipe["stdout"] = Append(old.pipe["stdout"], n) /\ new.pipe["stderr"] = old.pipe["stderr"]
        \/ new.pipe["stderr"] = Append(old.pipe["stderr"], n) /\ new.pipe["stdout"] = old.pipe["stdout"]
    BY <1>7 DEF Pipes
  <2> QED BY <1>5, <2>2, <2>3, Zenon DEF LinesKept
<1>9. ShownKept(new)
  BY <1>1, <1>5 DEF ShellInv, ShownKept
<1>10. ReadersEnd(new) /\ Waits(new)
  BY <1>1, <1>5 DEF ShellInv, ReadersEnd, Waits
<1> QED BY <1>1, <1>6, <1>8, <1>9, <1>10, OneShell DEF ShellInv

LEMMA ShEof ==
  ASSUME ShInv, NEW s \in ShellIds, NEW p \in Pipes, ReadEof(s, p)
  PROVE  ShInv'
<1> DEFINE old == shells[s]
           new == [old EXCEPT !.reader[p] = "ended"]
<1>1. /\ ShellInv(old) /\ old \in Shell /\ Put(s, new)
      /\ old.reader[p] = "reading" /\ old.pipe[p] = <<>> /\ ~old.alive /\ ~old.child
  BY DEF ShInv, ReadEof, ShellInv
<1> HIDE DEF old
<1>2. /\ new.wrote = old.wrote /\ new.pipe = old.pipe /\ new.reader = [old.reader EXCEPT ![p] = "ended"]
      /\ new.pc = old.pc /\ new.alive = old.alive /\ new.child = old.child
      /\ new.collected = old.collected /\ new.truncated = old.truncated /\ new.shown = old.shown
      /\ new.output = old.output /\ new.status = old.status /\ new.cancel = old.cancel
      /\ new.background = old.background /\ new.timed_out = old.timed_out
  BY <1>1 DEF Shell
<1>3. new \in Shell
  BY <1>1 DEF Shell
<1> HIDE DEF new
<1>4. old.reader \in [Pipes -> {"none", "reading", "died", "ended"}] /\ p \in Pipes
  BY <1>1 DEF Shell
<1>5. \A q \in Pipes : new.reader[q] = IF q = p THEN "ended" ELSE old.reader[q]
  BY <1>2, <1>4
<1>6. LinesKept(new) /\ ShownKept(new)
  <2>1. \A q \in Pipes : old.reader[q] = "died" <=> new.reader[q] = "died"
    BY <1>1, <1>5
  <2>2. ShellInv(old)
    BY <1>1
  <2> QED BY <1>2, <1>3, <2>1, <2>2, SameLines, Zenon
<1>7. ReadersEnd(new)
  BY <1>1, <1>2, <1>5 DEF ShellInv, ReadersEnd
<1>8. Waits(new)
  <2>1. new.reader # NotRun.reader /\ old.reader # NotRun.reader
    BY <1>1, <1>5 DEF NotRun
  <2> QED BY <1>1, <1>2, <1>5, <2>1 DEF ShellInv, Waits
<1> QED BY <1>1, <1>3, <1>6, <1>7, <1>8, OneShell DEF ShellInv

(* A line that was read, and what becomes of it in the result. *)
LEMMA ShRead ==
  ASSUME ShInv, NEW s \in ShellIds, NEW p \in Pipes, ReadLine(s, p)
  PROVE  ShInv'
<1> DEFINE old  == shells[s]
           line == Head(old.pipe[p])
           read == [old EXCEPT !.pipe[p] = Tail(@), !.shown = Append(@, line), !.output = Last(Append(@, line), OutputBuffer)]
<1>1. /\ ShellInv(old) /\ old \in Shell /\ old.reader[p] = "reading" /\ old.pipe[p] # <<>>
      /\ \E new : Put(s, new) /\
           \/ Len(old.collected[p]) < MaxCollected /\ new = [read EXCEPT !.collected[p] = Append(@, line)]
           \/ Len(old.collected[p]) < MaxCollected /\ new = [read EXCEPT !.collected[p] = Append(@, line), !.truncated = TRUE]
           \/ new = [read EXCEPT !.collected[p] = <<>>, !.reader[p] = "died"]
           \/ new = [read EXCEPT !.truncated = TRUE]
  BY Zenon DEF ShInv, ReadLine, ShellInv
<1> HIDE DEF old
<1>2. PICK new : /\ Put(s, new)
                 /\ \/ Len(old.collected[p]) < MaxCollected /\ new = [read EXCEPT !.collected[p] = Append(@, line)]
                    \/ Len(old.collected[p]) < MaxCollected /\ new = [read EXCEPT !.collected[p] = Append(@, line), !.truncated = TRUE]
                    \/ new = [read EXCEPT !.collected[p] = <<>>, !.reader[p] = "died"]
                    \/ new = [read EXCEPT !.truncated = TRUE]
  BY <1>1
<1>3. /\ old.pipe \in [Pipes -> Seq(Nat)] /\ old.pipe[p] \in Seq(Nat) /\ old.collected \in [Pipes -> Seq(Nat)]
      /\ old.shown \in Seq(Nat) /\ old.output \in Seq(Nat) /\ old.collected[p] \in Seq(Nat)
      /\ old.reader \in [Pipes -> {"none", "reading", "died", "ended"}]
  BY <1>1 DEF Shell
<1>4. /\ line \in Nat /\ Tail(old.pipe[p]) \in Seq(Nat) /\ Len(old.pipe[p]) = Len(Tail(old.pipe[p])) + 1
      /\ Lines(old.pipe[p]) = Lines(Tail(old.pipe[p])) \cup {line}
  BY <1>1, <1>3, LineLess
<1> HIDE DEF line
<1>5. /\ Append(old.shown, line) \in Seq(Nat) /\ Len(Append(old.shown, line)) = Len(old.shown) + 1
      /\ Lines(Append(old.shown, line)) = Lines(old.shown) \cup {line}
  BY <1>3, <1>4, LineMore
<1>6. /\ Append(old.collected[p], line) \in Seq(Nat) /\ Len(Append(old.collected[p], line)) = Len(old.collected[p]) + 1
      /\ Lines(Append(old.collected[p], line)) = Lines(old.collected[p]) \cup {line}
  BY <1>3, <1>4, LineMore
<1>7. /\ Last(Append(old.output, line), OutputBuffer) = Last(Append(old.shown, line), OutputBuffer)
      /\ Last(Append(old.shown, line), OutputBuffer) \in Seq(Nat)
  <2>1. old.output = Last(old.shown, OutputBuffer)
    BY <1>1 DEF ShellInv, ShownKept
  <2>2. Last(Append(Last(old.shown, OutputBuffer), line), OutputBuffer) = Last(Append(old.shown, line), OutputBuffer)
    BY <1>3, <1>4, ShellsAssumption, LastOfLast
  <2>3. Last(Append(old.output, line), OutputBuffer) = Last(Append(old.shown, line), OutputBuffer)
    BY <2>1, <2>2, Zenon
  <2> QED BY <1>5, <2>3, ShellsAssumption, LastType
<1>8. /\ read \in Shell
      /\ read.pipe = [old.pipe EXCEPT ![p] = Tail(old.pipe[p])] /\ read.shown = Append(old.shown, line)
      /\ read.output = Last(Append(old.output, line), OutputBuffer)
      /\ read.wrote = old.wrote /\ read.reader = old.reader /\ read.collected = old.collected
      /\ read.pc = old.pc /\ read.alive = old.alive /\ read.child = old.child /\ read.truncated = old.truncated
      /\ read.status = old.status /\ read.cancel = old.cancel
  BY <1>1, <1>3, <1>4, <1>5, <1>7 DEF Shell
<1> HIDE DEF read
<1>9. /\ new \in Shell
      /\ new.pipe = read.pipe /\ new.shown = read.shown /\ new.output = read.output /\ new.wrote = read.wrote
      /\ new.pc = read.pc /\ new.alive = read.alive /\ new.child = read.child
      /\ new.status = read.status /\ new.cancel = read.cancel
      /\ \/ /\ new.collected = [old.collected EXCEPT ![p] = Append(old.collected[p], line)] /\ new.reader = old.reader
            /\ Len(old.collected[p]) < MaxCollected /\ (new.truncated \/ new.truncated = old.truncated)
         \/ /\ new.collected = [old.collected EXCEPT ![p] = <<>>] /\ new.reader = [old.reader EXCEPT ![p] = "died"]
         \/ new.collected = old.collected /\ new.reader = old.reader /\ new.truncated
  <2>1. CASE Len(old.collected[p]) < MaxCollected /\ new = [read EXCEPT !.collected[p] = Append(@, line)]
    BY <2>1, <1>6, <1>8 DEF Shell
  <2>2. CASE Len(old.collected[p]) < MaxCollected /\ new = [read EXCEPT !.collected[p] = Append(@, line), !.truncated = TRUE]
    BY <2>2, <1>6, <1>8 DEF Shell
  <2>3. CASE new = [read EXCEPT !.collected[p] = <<>>, !.reader[p] = "died"]
    <3>1. new.collected = [old.collected EXCEPT ![p] = <<>>] /\ new.reader = [old.reader EXCEPT ![p] = "died"]
           /\ new.pipe = read.pipe /\ new.shown = read.shown /\ new.output = read.output /\ new.wrote = read.wrote
           /\ new.pc = read.pc /\ new.alive = read.alive /\ new.child = read.child
           /\ new.status = read.status /\ new.cancel = read.cancel
      BY <2>3, <1>8 DEF Shell
    <3>2. [old.collected EXCEPT ![p] = <<>>] \in [Pipes -> Seq(Nat)]
           /\ [old.reader EXCEPT ![p] = "died"] \in [Pipes -> {"none", "reading", "died", "ended"}]
      BY <1>3
    <3>3. new \in Shell
      BY <2>3, <3>2, <1>8 DEF Shell
    <3> QED BY <3>1, <3>3
  <2>4. CASE new = [read EXCEPT !.truncated = TRUE]
    BY <2>4, <1>8 DEF Shell
  <2> QED BY <1>2, <2>1, <2>2, <2>3, <2>4
<1>10. /\ p = "stdout" \/ p = "stderr"
       /\ new.pipe[p] = Tail(old.pipe[p]) /\ \A q \in Pipes : q # p => new.pipe[q] = old.pipe[q]
       /\ \A q \in Pipes : q # p => new.collected[q] = old.collected[q] /\ new.reader[q] = old.reader[q]
  BY <1>3, <1>8, <1>9 DEF Pipes
<1>11. LinesKept(new)
  <2>1. /\ Parted(old.shown, old.pipe["stdout"], old.pipe["stderr"], old.wrote)
        /\ old.pipe["stdout"] \in Seq(Nat) /\ old.pipe["stderr"] \in Seq(Nat)
    BY <1>1, <1>3 DEF ShellInv, Pipes, LinesKept
  <2>2. /\ old.pipe["stdout"] # <<>> =>
             Parted(Append(old.shown, Head(old.pipe["stdout"])), Tail(old.pipe["stdout"]), old.pipe["stderr"], old.wrote)
        /\ old.pipe["stderr"] # <<>> =>
             Parted(Append(old.shown, Head(old.pipe["stderr"])), old.pipe["stdout"], Tail(old.pipe["stderr"]), old.wrote)
    BY <1>3, <2>1, PartRead
  <2>3. \/ /\ old.pipe["stdout"] # <<>> /\ line = Head(old.pipe["stdout"])
           /\ new.pipe["stdout"] = Tail(old.pipe["stdout"]) /\ new.pipe["stderr"] = old.pipe["stderr"]
        \/ /\ old.pipe["stderr"] # <<>> /\ line = Head(old.pipe["stderr"])
           /\ new.pipe["stderr"] = Tail(old.pipe["stderr"]) /\ new.pipe["stdout"] = old.pipe["stdout"]
    BY <1>1, <1>10 DEF Pipes, line
  <2>4. new.shown = Append(old.shown, line) /\ new.wrote = old.wrote
    BY <1>8, <1>9
  <2> QED BY <2>2, <2>3, <2>4, Zenon DEF LinesKept
<1>12. ShownKept(new)
  <2>1. new.output = Last(new.shown, OutputBuffer)
    BY <1>7, <1>8, <1>9, Zenon
  <2>2. ShownKept(old)
    BY <1>1 DEF ShellInv
  <2>3. CASE /\ new.collected = [old.collected EXCEPT ![p] = Append(old.collected[p], line)] /\ new.reader = old.reader
             /\ Len(old.collected[p]) < MaxCollected /\ (new.truncated \/ new.truncated = old.truncated)
    <3>1. new.collected[p] = Append(old.collected[p], line)
      BY <1>3, <2>3
    <3>2. \A q \in Pipes : Len(new.collected[q]) <= MaxCollected
      BY <1>3, <1>6, <1>10, <2>2, <2>3, <3>1, ShellsAssumption DEF ShownKept
    <3>3. new.truncated \/ new.reader["stdout"] = "died" \/ new.reader["stderr"] = "died"
           \/ Lines(new.collected["stdout"]) \cup Lines(new.collected["stderr"]) = Lines(new.shown)
      <4>1. CASE p = "stdout"
        BY <1>5, <1>6, <1>8, <1>9, <1>10, <2>2, <2>3, <3>1, <4>1 DEF ShownKept, Pipes
      <4>2. CASE p = "stderr"
        BY <1>5, <1>6, <1>8, <1>9, <1>10, <2>2, <2>3, <3>1, <4>2 DEF ShownKept, Pipes
      <4> QED BY <1>10, <4>1, <4>2
    <3> QED BY <2>1, <3>2, <3>3 DEF ShownKept
  <2>4. CASE new.collected = [old.collected EXCEPT ![p] = <<>>] /\ new.reader = [old.reader EXCEPT ![p] = "died"]
    <3>1. new.collected[p] = <<>> /\ new.reader[p] = "died"
      BY <1>3, <2>4
    <3>2. \A q \in Pipes : Len(new.collected[q]) <= MaxCollected
      BY <1>10, <2>2, <3>1, ShellsAssumption DEF ShownKept
    <3> QED BY <1>10, <2>1, <3>1, <3>2 DEF ShownKept
  <2>5. CASE new.collected = old.collected /\ new.reader = old.reader /\ new.truncated
    BY <2>1, <2>2, <2>5 DEF ShownKept
  <2> QED BY <1>9, <2>3, <2>4, <2>5
<1>13. /\ new.reader[p] # "ended" /\ new.reader[p] # "none"
       /\ \A q \in Pipes : q # p => new.reader[q] = old.reader[q]
       /\ new.reader[p] = "reading" \/ new.reader[p] = "died"
  BY <1>1, <1>3, <1>9, <1>10
<1>14. ReadersEnd(new)
  BY <1>1, <1>8, <1>9, <1>10, <1>13 DEF ShellInv, ReadersEnd
<1>15. Waits(new)
  <2>1. old.reader # NotRun.reader /\ new.reader # NotRun.reader
    BY <1>1, <1>13 DEF NotRun
  <2>2. new.pc = "returned" => FALSE \/ old.pc = "returned"
    BY <1>8, <1>9
  <2>3. Waits(old)
    BY <1>1 DEF ShellInv
  <2>4. old.pc # "returned"
    BY <1>1, <2>1, <2>3 DEF Waits
  <2> QED BY <1>1, <1>8, <1>9, <1>13, <2>1, <2>3, <2>4 DEF Waits
<1> QED BY <1>2, <1>9, <1>11, <1>12, <1>14, <1>15, OneShell DEF ShellInv

LEMMA ShStep == ShInv /\ [ShNext]_shvars => ShInv'
<1> SUFFICES ASSUME ShInv, [ShNext]_shvars PROVE ShInv'
  OBVIOUS
<1>1. ASSUME NEW s \in ShellIds, NEW background \in BOOLEAN, StartCommand(s, background) PROVE ShInv'
  BY <1>1, ShStart
<1>2. ASSUME NEW s \in ShellIds,
             Spawn(s) \/ CommandForks(s) \/ CommandExits(s) \/ ChildExits(s) \/ SeesExit(s) \/ SeesCancel(s)
               \/ CommandTimesOut(s) \/ JoinReaders(s) \/ KillShell(s)
      PROVE ShInv'
  BY <1>2, ShProcess
<1>3. ASSUME NEW s \in ShellIds, NEW p \in Pipes, CommandWrites(s, p) PROVE ShInv'
  BY <1>3, ShWrites
<1>4. ASSUME NEW s \in ShellIds, NEW p \in Pipes, ReadLine(s, p) PROVE ShInv'
  BY <1>4, ShRead
<1>5. ASSUME NEW s \in ShellIds, NEW p \in Pipes, ReadEof(s, p) PROVE ShInv'
  BY <1>5, ShEof
<1>6. CASE UNCHANGED shells
  <2>1. shells' \in [ShellIds -> Shell] /\ \A t \in ShellIds : ShellInv(shells'[t])
    BY <1>6 DEF ShInv
  <2> QED BY <2>1 DEF ShInv, ShellInv, LinesKept, Parted, ShownKept, ReadersEnd, Waits
<1>7. CASE ShNext
  BY <1>1, <1>2, <1>3, <1>4, <1>5, <1>6, <1>7 DEF ShNext, PollOutput, PollStatus
<1> QED BY <1>6, <1>7 DEF shvars

(* The call returns when nothing is left to read. *)
LEMMA ShMeans == ShInv => ShTypeOK /\ FinalStatusIsLast
<1> SUFFICES ASSUME ShInv, NEW s \in ShellIds
             PROVE  /\ shells[s].status \in Final \cup {"none", "running"}
                    /\ Len(shells[s].output) <= OutputBuffer
                    /\ \A p \in Pipes : Len(shells[s].collected[p]) <= MaxCollected
                    /\ shells[s].status \in {"done", "killed"} /\ shells[s].reader # NotRun.reader =>
                         /\ ~shells[s].alive /\ \A p \in Pipes : shells[s].reader[p] # "reading"
                         /\ (\A p \in Pipes : shells[s].reader[p] = "ended") =>
                              /\ ~shells[s].child /\ Lines(shells[s].shown) = Lines(shells[s].wrote)
                              /\ Len(shells[s].shown) = Len(shells[s].wrote)
                              /\ shells[s].output = Last(shells[s].shown, OutputBuffer)
                              /\ shells[s].truncated \/ Lines(shells[s].collected["stdout"]) \cup Lines(shells[s].collected["stderr"])
                                                          = Lines(shells[s].wrote)
                         /\ shells[s].status = "killed" => shells[s].cancel
  BY DEF ShTypeOK, FinalStatusIsLast
<1> DEFINE sh == shells[s]
<1>1. sh \in Shell /\ LinesKept(sh) /\ ShownKept(sh) /\ ReadersEnd(sh) /\ Waits(sh)
  BY DEF ShInv, ShellInv
<1> HIDE DEF sh
<1>2. sh.status \in Final \cup {"none", "running"} /\ sh.shown \in Seq(Nat)
  BY <1>1 DEF Shell
<1>3. Len(sh.output) <= OutputBuffer /\ \A p \in Pipes : Len(sh.collected[p]) <= MaxCollected
  BY <1>1, <1>2, ShellsAssumption, LastType DEF ShownKept
<1>4. ASSUME sh.status \in {"done", "killed"}, sh.reader # NotRun.reader
      PROVE  ~sh.alive /\ (\A p \in Pipes : sh.reader[p] # "reading") /\ (sh.status = "killed" => sh.cancel)
  BY <1>1, <1>4 DEF Waits
<1>5. ASSUME \A p \in Pipes : sh.reader[p] = "ended"
      PROVE  /\ ~sh.child /\ Lines(sh.shown) = Lines(sh.wrote) /\ Len(sh.shown) = Len(sh.wrote)
             /\ sh.output = Last(sh.shown, OutputBuffer)
             /\ sh.truncated \/ Lines(sh.collected["stdout"]) \cup Lines(sh.collected["stderr"]) = Lines(sh.wrote)
  <2>1. sh.pipe["stdout"] = <<>> /\ sh.pipe["stderr"] = <<>> /\ ~sh.child
    BY <1>1, <1>5 DEF ReadersEnd, Pipes
  <2>2. Len(sh.shown) + 0 + 0 = Len(sh.wrote) /\ Lines(sh.shown) \cup {} \cup {} = Lines(sh.wrote)
    BY <1>1, <2>1, NoLines, Zenon DEF LinesKept, Parted
  <2>3. Lines(sh.shown) = Lines(sh.wrote) /\ Len(sh.shown) = Len(sh.wrote)
    <3>1. Len(sh.shown) \in Nat
      BY <1>2
    <3> QED BY <2>2, <3>1
  <2> QED BY <1>1, <1>5, <2>1, <2>3 DEF ShownKept, Pipes
<1> QED BY <1>2, <1>3, <1>4, <1>5 DEF sh

(* For every number of commands, lines and sizes of the buffers: done or    *)
(* killed is said when the process has exited and both readers have        *)
(* returned, and then everything that was written has been shown once.      *)
THEOREM FinalStatusLast == ShSpec => []FinalStatusIsLast
<1>1. ShInv => FinalStatusIsLast
  BY ShMeans
<1> QED BY <1>1, ShInitInv, ShStep, PTL DEF ShSpec
=============================================================================
