----------------------------- MODULE McpClients ------------------------------
(***************************************************************************)
(* The MCP servers: connected in the background by threads of their own,   *)
(* turned off and deleted by the settings page, called by any number of    *)
(* tool calls at a time over one pipe                                      *)
(* (apps/desktop/src-tauri/src/mcp.rs, crates/mcp-client).                 *)
(* A client is numbered by the thread that connects it.  It is shared      *)
(* (Arc): the last one to let go of it drops it, which kills its server.   *)
(***************************************************************************)
EXTENDS Naturals, Sequences, FiniteSets

CONSTANTS
  ServerIds,            \* rows of the table of servers
  Callers,              \* tool calls that run at a time
  MaxConnects, MaxSent  \* bounds: connecting threads, tool calls

ASSUME McpAssumption ==
  ServerIds # {} /\ MaxConnects \in Nat /\ MaxSent \in Nat

VARIABLES
  table,     \* mcp_servers: absent, on, off or deleted, and the saved token
  mcp,       \* state.mcp: the connected client of a server; 0: none
  threads,   \* spawn_mcp_connect: what each has come to
  clients,   \* per client: its server's process and the pipe between them
  callers,   \* the tool calls
  sent       \* how many there were: numbers them

mcpvars == <<table, mcp, threads, clients, callers, sent>>

Conns == 1..MaxConnects

NoClient == [up |-> FALSE, next_id |-> 1, pending |-> {}, asked |-> {}, replies |-> <<>>]
NoCall   == [pc |-> "idle", server |-> CHOOSE s \in ServerIds : TRUE, client |-> 0, id |-> 0, mine |-> 0, got |-> 0]

McpInit ==
  /\ table \in [ServerIds -> [row : {"absent", "on"}, token : {FALSE}]]
  /\ mcp = [s \in ServerIds |-> 0]
  /\ threads = [k \in Conns |-> [pc |-> "none", server |-> CHOOSE s \in ServerIds : TRUE, token |-> FALSE]]
  /\ clients = [k \in Conns |-> NoClient]
  /\ callers = [c \in Callers |-> NoCall] /\ sent = 0

(* Who holds a client: the map, its connecting thread, the calls on it.    *)
Holders(map, ths, cs) ==
  {map[s] : s \in ServerIds} \cup {k \in Conns : ths[k].pc \in {"connecting", "oauth"}} \cup {cs[c].client : c \in Callers}

(* What no one holds any more is dropped. *)
Dropped(cls, held) == [k \in Conns |-> IF k \in held THEN cls[k] ELSE NoClient]

LetGo(map, ths, cls, cs) ==
  /\ mcp' = map /\ threads' = ths /\ callers' = cs
  /\ clients' = Dropped(cls, Holders(map, ths, cs))

-----------------------------------------------------------------------------
(* spawn_mcp_connect *)
SpawnConnect(s, ths) ==
  \E k \in Conns :
    /\ ths[k].pc = "none" /\ \A j \in 1..k-1 : ths[j].pc # "none"
    /\ threads' = [ths EXCEPT ![k] = [pc |-> "connecting", server |-> s, token |-> table[s].token]]
    /\ clients' = [clients EXCEPT ![k] = [NoClient EXCEPT !.up = TRUE]]

(* The servers that are on connect when the application starts.            *)
ConnectAtStart(s) ==
  /\ table[s].row = "on" /\ \A k \in Conns : threads[k].pc = "none" \/ threads[k].server # s
  /\ SpawnConnect(s, threads) /\ UNCHANGED <<table, mcp, callers, sent>>

(* A server is added, by the user or by the agent's tool; or turned on.    *)
CreateMcpServer(s) ==
  /\ table[s].row = "absent" /\ table' = [table EXCEPT ![s] = [row |-> "on", token |-> FALSE]]
  /\ SpawnConnect(s, threads) /\ UNCHANGED <<mcp, callers, sent>>

ToggleOn(s) ==
  /\ table[s].row = "off" /\ table' = [table EXCEPT ![s].row = "on"]
  /\ SpawnConnect(s, threads) /\ UNCHANGED <<mcp, callers, sent>>

ToggleOff(s) ==
  /\ table[s].row = "on" /\ table' = [table EXCEPT ![s].row = "off"]
  /\ LetGo([mcp EXCEPT ![s] = 0], threads, clients, callers) /\ UNCHANGED sent

DeleteMcpServer(s) ==
  /\ table[s].row \in {"on", "off"} /\ table' = [table EXCEPT ![s] = [row |-> "deleted", token |-> FALSE]]
  /\ LetGo([mcp EXCEPT ![s] = 0], threads, clients, callers) /\ UNCHANGED sent

(* The handshake is through: the token the user granted is saved, if the   *)
(* row is still there, and the client takes its place in the map.          *)
ConnectOk(k) ==
  LET s == threads[k].server
  IN /\ threads[k].pc = "connecting" /\ clients[k].up
     /\ table' = IF threads[k].token /\ table[s].row # "deleted" THEN [table EXCEPT ![s].token = TRUE] ELSE table
     /\ LetGo([mcp EXCEPT ![s] = k], [threads EXCEPT ![k].pc = "done"], clients, callers)
     /\ UNCHANGED sent

(* A server that asks for authorisation and has no token yet: the worker   *)
(* opens the browser and waits for minutes, the handshake for 30 seconds.  *)
OAuthBegins(k) ==
  /\ threads[k].pc = "connecting" /\ ~threads[k].token
  /\ threads' = [threads EXCEPT ![k].pc = "oauth"] /\ UNCHANGED <<table, mcp, clients, callers, sent>>

OAuthGranted(k) ==
  /\ threads[k].pc = "oauth"
  /\ threads' = [threads EXCEPT ![k].pc = "connecting", ![k].token = TRUE]
  /\ UNCHANGED <<table, mcp, clients, callers, sent>>

ConnectFails(k) ==
  /\ threads[k].pc \in {"connecting", "oauth"}
  /\ LetGo(mcp, [threads EXCEPT ![k].pc = "failed"], clients, callers)
  /\ UNCHANGED <<table, sent>>

-----------------------------------------------------------------------------
(* execute_mcp_tool: the client of the server, as the map has it now.  The *)
(* tools offered to the model were those of an earlier moment.             *)
CallTool(c, s) ==
  /\ callers[c].pc = "idle" /\ sent < MaxSent
  /\ mcp[s] # 0   \* no client: the tool answers with an error
  /\ sent' = sent + 1
  /\ callers' = [callers EXCEPT ![c] = [NoCall EXCEPT !.pc = "send", !.server = s, !.client = mcp[s], !.mine = sent + 1]]
  /\ UNCHANGED <<table, mcp, threads, clients>>

EndCall(c, cls) == LetGo(mcp, threads, cls, [callers EXCEPT ![c] = NoCall])

(* Slip: the first id that no one waits under is used again. *)
SlipSendCall(c) ==
  LET k == callers[c].client  cl == clients[k]
      id == CHOOSE i \in 1..MaxSent : i \notin cl.pending
  IN /\ callers[c].pc = "send" /\ cl.up
     /\ clients' = [clients EXCEPT ![k] = [cl EXCEPT !.next_id = MaxSent + 1, !.pending = @ \cup {id},
                                             !.asked = @ \cup {[id |-> id, call |-> callers[c].mine]}]]
     /\ callers' = [callers EXCEPT ![c].pc = "wait", ![c].id = id]
     /\ UNCHANGED <<table, mcp, threads, sent>>

(* request: an id of its own, a sender under that id, a line on the pipe.  *)
SendCall(c) ==
  LET k == callers[c].client  cl == clients[k]
      noted == [cl EXCEPT !.next_id = @ + 1, !.pending = @ \cup {cl.next_id}]
  IN /\ callers[c].pc = "send"
     /\ IF cl.up THEN /\ clients' = [clients EXCEPT ![k] = [noted EXCEPT !.asked = @ \cup {[id |-> cl.next_id, call |-> callers[c].mine]}]]
                      /\ callers' = [callers EXCEPT ![c].pc = "wait", ![c].id = cl.next_id]
                      /\ UNCHANGED <<mcp, threads>>
                 ELSE EndCall(c, [clients EXCEPT ![k] = noted])   \* the entry stays behind
     /\ UNCHANGED <<table, sent>>

(* External: the server answers what it was asked, in any order. *)
ServerAnswersCall(k) ==
  /\ clients[k].up
  /\ \E q \in clients[k].asked :
       clients' = [clients EXCEPT ![k].asked = @ \ {q}, ![k].replies = Append(@, q)]
  /\ UNCHANGED <<table, mcp, threads, callers, sent>>

McpServerDies(k) ==
  /\ clients[k].up
  /\ clients' = [clients EXCEPT ![k].up = FALSE] /\ UNCHANGED <<table, mcp, threads, callers, sent>>

(* The reader thread hands a reply to whoever left a sender under its id.  *)
ReaderRoutes(k) ==
  LET r == Head(clients[k].replies)
      cl == [clients[k] EXCEPT !.replies = Tail(@), !.pending = @ \ {r.id}]
  IN /\ clients[k].replies # <<>>
     /\ clients' = [clients EXCEPT ![k] = cl]
     /\ callers' = [c \in Callers |->
          IF callers[c].pc = "wait" /\ callers[c].client = k /\ callers[c].id = r.id /\ r.id \in clients[k].pending
          THEN [callers[c] EXCEPT !.pc = "answered", !.got = r.call] ELSE callers[c]]
     /\ UNCHANGED <<table, mcp, threads, sent>>

ReturnAnswer(c) ==
  /\ callers[c].pc = "answered" /\ EndCall(c, clients) /\ UNCHANGED <<table, sent>>

(* The caller has waited long enough: its sender is taken back.            *)
CallTimesOut(c) ==
  /\ callers[c].pc = "wait"
  /\ EndCall(c, [clients EXCEPT ![callers[c].client].pending = @ \ {callers[c].id}])
  /\ UNCHANGED <<table, sent>>

McpNext ==
  \/ \E s \in ServerIds : ConnectAtStart(s) \/ CreateMcpServer(s) \/ ToggleOn(s) \/ ToggleOff(s) \/ DeleteMcpServer(s)
  \/ \E k \in Conns : \/ ConnectOk(k) \/ OAuthBegins(k) \/ OAuthGranted(k) \/ ConnectFails(k)
                      \/ ServerAnswersCall(k) \/ McpServerDies(k) \/ ReaderRoutes(k)
  \/ \E c \in Callers : \/ \E s \in ServerIds : CallTool(c, s)
                        \/ SendCall(c) \/ ReturnAnswer(c) \/ CallTimesOut(c)

McpSpec == McpInit /\ [][McpNext]_mcpvars

-----------------------------------------------------------------------------
(* Types: the map and the calls name clients, ids below the next one.      *)
McpTypeOK ==
  /\ mcp \in [ServerIds -> 0..MaxConnects] /\ sent \in 0..MaxSent
  /\ \A k \in Conns : \A i \in clients[k].pending : i < clients[k].next_id
  /\ \A c \in Callers : callers[c].client \in 0..MaxConnects

(* However calls on one client overlap, run out of time and are answered   *)
(* late or in another order: a call gets the answer to itself, and while   *)
(* it lasts its client is kept, though the server was turned off, deleted  *)
(* or connected anew; a client no one holds has no process left.           *)
AnswersOwnCall ==
  /\ \A c \in Callers : callers[c].got # 0 => callers[c].got = callers[c].mine
  /\ \A c \in Callers : callers[c].pc = "wait" =>
       /\ callers[c].id \in clients[callers[c].client].pending
       /\ \A d \in Callers \ {c} : callers[d].pc = "wait" /\ callers[d].client = callers[c].client => callers[d].id # callers[c].id
  /\ \A k \in Conns : clients[k].up => k \in Holders(mcp, threads, callers)

(* A server that is off or deleted is not connected.  It does not hold: a  *)
(* thread that was connecting puts its client into the map all the same.   *)
OffIsDisconnected == \A s \in ServerIds : table[s].row # "on" => mcp[s] = 0
=============================================================================
