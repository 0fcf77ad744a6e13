---------------------------- MODULE ModelRegistry ----------------------------
(***************************************************************************)
(* Which model answers which role (crates/storage/src/lib.rs, the tables   *)
(* connections, models, role_models; commands.rs; embedding.rs).  A role   *)
(* points to a model, a model to a connection: endpoint and key.  A role   *)
(* without a usable row follows main.  Two older layouts, one provider per *)
(* role and then one assignment per role, are moved to this one each time  *)
(* the database is opened.  The process keeps one thing it derived from    *)
(* the tables: the endpoint and key that rank code by embeddings.          *)
(*                                                                         *)
(* Names, labels and times of rows are left out.  A row of the oldest      *)
(* layout is keyed by its role: its writer deletes before it inserts.      *)
(***************************************************************************)
EXTENDS Integers, FiniteSets

CONSTANTS
  RoleOrder,       \* [role -> Nat], the order of the role names
  Endpoints,       \* preset, base url and format of a connection
  Reachable,       \* endpoints with a base url of their own or of their preset
  Keys, Names,     \* API keys, model strings
  Windows,         \* context windows, 0 for none
  Billings, Prices,
  MaxIds           \* bound: uuids drawn

Main  == "main"
Embed == "embed"
Roles == DOMAIN RoleOrder
Ids   == 1..MaxIds

ASSUME RegistryAssumption ==
  /\ IsFiniteSet(Roles) /\ Main \in Roles /\ Embed \in Roles
  /\ RoleOrder \in [Roles -> Nat]
  /\ \A r, s \in Roles : RoleOrder[r] = RoleOrder[s] => r = s
  /\ Reachable \subseteq Endpoints
  /\ 0 \in Windows /\ MaxIds \in Nat
  /\ "api" \in Billings /\ "unset" \in Prices

VARIABLES
  legacy,          \* table model_providers, before 0.0.59
  assignments,     \* table role_assignments, 0.0.59
  connections, models, role_models,
  embedding_on,    \* setting embedding_enabled
  embedding,       \* EMBEDDING_CONFIG of the process
  up,              \* the process has opened the database
  uuids,           \* uuids drawn so far
  cascade,         \* history: roles the last forced delete reported
  moves            \* history: times the 0.0.60 migration moved rows

old     == <<legacy, assignments>>
tables  == <<connections, models, role_models>>
regvars == <<old, tables, embedding_on, embedding, up, uuids, cascade, moves>>

Nothing   == [endpoint |-> "nothing"]
Drawn     == 1..uuids
ConnRow   == [endpoint : Endpoints, key : Keys, billing : Billings]
ModelRow  == [conn : Drawn, name : Names, window : Windows, price : Prices]
RoleRow   == [model : Drawn, enabled : BOOLEAN]
AssignRow == [conn : Drawn, name : Names, window : Windows, enabled : BOOLEAN]
LegacyRow == [endpoint : Endpoints, key : Keys, name : Names, window : Windows, enabled : BOOLEAN]

IsTable(t, S, Row) == DOMAIN t \subseteq S /\ t \in [DOMAIN t -> Row]
Put(t, k, row) == [x \in DOMAIN t \cup {k} |-> IF x = k THEN row ELSE t[x]]
Empty(t)       == DOMAIN t = {}
Drop(t, S)     == [x \in DOMAIN t \ S |-> t[x]]

-----------------------------------------------------------------------------
(* What a role resolves to. *)

Complete(r) ==
  /\ r \in DOMAIN role_models
  /\ role_models[r].model \in DOMAIN models
  /\ models[role_models[r].model].conn \in DOMAIN connections

SynthesizeRoleProvider(r) ==
  IF ~Complete(r) THEN Nothing ELSE
    LET m == models[role_models[r].model]
        c == connections[m.conn]
    IN [endpoint |-> c.endpoint, key |-> c.key, name |-> m.name, window |-> m.window]

OwnRole(r) == r # Main /\ Complete(r) /\ role_models[r].enabled

ResolveRoleProvider(r) == SynthesizeRoleProvider(IF OwnRole(r) THEN r ELSE Main)

ResolveSubagentProvider ==
  SynthesizeRoleProvider(IF OwnRole("subagent") THEN "subagent"
                         ELSE IF OwnRole("action") THEN "action" ELSE Main)

PricingContext(r) ==
  LET owner == IF OwnRole(r) THEN r ELSE Main
  IN IF ~Complete(owner) THEN Nothing ELSE
       LET m == models[role_models[owner].model]
       IN [conn |-> m.conn, billing |-> connections[m.conn].billing,
           price |-> m.price, name |-> m.name]

(* What the process keeps for ranking code: off without the setting, an   *)
(* endpoint or a key.                                                      *)
ResolveEmbeddingConfig(on, provider) ==
  IF on /\ provider # Nothing /\ provider.endpoint \in Reachable
  THEN [endpoint |-> provider.endpoint, key |-> provider.key]
  ELSE Nothing

EmbeddingConfig == ResolveEmbeddingConfig(embedding_on, ResolveRoleProvider(Embed))

-----------------------------------------------------------------------------
(* Opening the database: two migrations, each a transaction of its own.    *)
(* The process may end between them; whoever opens the database next finds *)
(* what the first one moved, and goes on with the second.  Neither clears  *)
(* the tables it reads.                                                    *)

(* 0.0.59: one connection for each endpoint and key, found or made.        *)
Triple(row) == <<row.endpoint, row.key>>

MovedTo0059(conn_of) ==
  [r \in DOMAIN legacy |->
     [conn |-> conn_of[Triple(legacy[r])], name |-> legacy[r].name,
      window |-> legacy[r].window, enabled |-> legacy[r].enabled]]

Holds(c, triple) == c \in DOMAIN connections /\ Triple(connections[c]) = triple

(* 0.0.60: one model for each connection and name, with the window of main *)
(* if main uses it and has one, else of the model that is there, else of   *)
(* the first role.                                                         *)
Users(assigned, pair) == {r \in DOMAIN assigned : <<assigned[r].conn, assigned[r].name>> = pair}

FindModelId(pair) ==
  {i \in DOMAIN models : <<models[i].conn, models[i].name>> = pair}

(* Slip: the order of the roles decides, and main's window is lost. *)
SlipWindowOf(assigned, pair, id) ==
  LET users == Users(assigned, pair)
  IN assigned[CHOOSE r \in users : \A s \in users : RoleOrder[r] <= RoleOrder[s]].window

WindowOf(assigned, pair, id) ==
  LET users == Users(assigned, pair)
      first == CHOOSE r \in users : \A s \in users : RoleOrder[r] <= RoleOrder[s]
  IN IF Main \in users /\ assigned[Main].window # 0 THEN assigned[Main].window
     ELSE IF id \in DOMAIN models THEN models[id].window
     ELSE assigned[first].window

MigrateToConnections0059(conns, assigned, drawn) ==
  IF ~Empty(assignments) \/ Empty(legacy)
  THEN conns = connections /\ assigned = assignments /\ drawn = 0
  ELSE LET triples == {Triple(legacy[r]) : r \in DOMAIN legacy}
           missing == {t \in triples : \A c \in DOMAIN connections : ~Holds(c, t)}
       IN \E conn_of \in [triples -> Ids] :
            /\ \A t \in triples \ missing : Holds(conn_of[t], t)
            /\ {conn_of[t] : t \in missing} = uuids + 1 .. uuids + Cardinality(missing)
            /\ drawn = Cardinality(missing)
            /\ conns = [c \in DOMAIN connections \cup {conn_of[t] : t \in missing} |->
                          IF c \in DOMAIN connections THEN connections[c]
                          ELSE LET t == CHOOSE t \in missing : conn_of[t] = c
                               IN [endpoint |-> t[1], key |-> t[2], billing |-> "api"]]
            /\ assigned = MovedTo0059(conn_of)

MigrateToModelsLayer0060(assigned, first_id, mods, roles, drawn) ==
  IF ~Empty(role_models) \/ Empty(assigned)
  THEN mods = models /\ roles = role_models /\ drawn = 0
  ELSE LET pairs   == {<<assigned[r].conn, assigned[r].name>> : r \in DOMAIN assigned}
           missing == {p \in pairs : FindModelId(p) = {}}
       IN \E model_of \in [pairs -> Ids] :
            /\ \A p \in pairs \ missing : model_of[p] \in FindModelId(p)
            /\ {model_of[p] : p \in missing} = first_id .. first_id + Cardinality(missing) - 1
            /\ drawn = Cardinality(missing)
            /\ mods = [i \in DOMAIN models \cup {model_of[p] : p \in missing} |->
                         IF \E p \in pairs : model_of[p] = i
                         THEN LET p == CHOOSE p \in pairs : model_of[p] = i
                              IN [conn |-> p[1], name |-> p[2],
                                  window |-> WindowOf(assigned, p, i),
                                  price |-> IF i \in DOMAIN models THEN models[i].price
                                            ELSE "unset"]
                         ELSE models[i]]
            /\ roles = [r \in DOMAIN assigned |->
                          [model |-> model_of[<<assigned[r].conn, assigned[r].name>>],
                           enabled |-> assigned[r].enabled]]

RegInit ==
  /\ IsTable(legacy, Roles, LegacyRow)
  /\ IsTable(connections, Ids, ConnRow)
  /\ uuids \in 0..MaxIds /\ DOMAIN connections = 1..uuids
  /\ IsTable(assignments, Roles, AssignRow)
  /\ \A r \in DOMAIN assignments : assignments[r].conn \in DOMAIN connections
  /\ models = [x \in {} |-> x] /\ role_models = [x \in {} |-> x]
  /\ embedding_on \in BOOLEAN
  /\ embedding = Nothing /\ up = FALSE
  /\ cascade = {} /\ moves = 0

(* A command ends by deriving the snapshot again. *)
RefreshEmbeddingConfig == embedding' = EmbeddingConfig'

OpenConnections ==
  /\ ~up
  /\ \E drawn \in 0..MaxIds :
       /\ MigrateToConnections0059(connections', assignments', drawn)
       /\ uuids' = uuids + drawn /\ uuids' <= MaxIds
  /\ UNCHANGED <<legacy, models, role_models, embedding_on, embedding, up, cascade, moves>>

(* The second migration follows when the first has nothing left to move.   *)
Start ==
  /\ ~up /\ up' = TRUE
  /\ ~Empty(assignments) \/ Empty(legacy)
  /\ \E drawn \in 0..MaxIds :
       /\ MigrateToModelsLayer0060(assignments, uuids + 1, models', role_models', drawn)
       /\ uuids' = uuids + drawn /\ uuids' <= MaxIds
  /\ moves' = IF Empty(role_models) /\ ~Empty(role_models') THEN moves + 1 ELSE moves
  /\ UNCHANGED <<old, connections, embedding_on, cascade>>
  /\ RefreshEmbeddingConfig

(* The process ends, at any time. *)
Quit ==
  /\ up /\ up' = FALSE /\ embedding' = Nothing
  /\ UNCHANGED <<old, tables, embedding_on, uuids, cascade, moves>>

-----------------------------------------------------------------------------
(* Commands on connections. *)

Kept == UNCHANGED <<old, up, moves>>

CreateConnection(e, k) ==
  /\ up /\ uuids < MaxIds /\ uuids' = uuids + 1
  /\ connections' = Put(connections, uuids', [endpoint |-> e, key |-> k, billing |-> "api"])
  /\ Kept /\ UNCHANGED <<models, role_models, embedding_on, cascade>>
  /\ RefreshEmbeddingConfig

(* An edit with the key left blank keeps the key. *)
EditConnection(c, e, typed) ==
  /\ up /\ c \in DOMAIN connections
  /\ \E k \in typed \cup (IF typed = {} THEN {connections[c].key} ELSE {}) :
       connections' = [connections EXCEPT ![c].endpoint = e, ![c].key = k]
  /\ Kept /\ UNCHANGED <<models, role_models, embedding_on, uuids, cascade>>
  /\ RefreshEmbeddingConfig

SetConnectionBilling(c, b) ==
  /\ up /\ c \in DOMAIN connections
  /\ connections' = [connections EXCEPT ![c].billing = b]
  /\ Kept /\ UNCHANGED <<models, role_models, embedding_on, embedding, uuids, cascade>>

ModelsOf(c) == {i \in DOMAIN models : models[i].conn = c}

ConnectionReferencedBy(c) == {r \in DOMAIN role_models : role_models[r].model \in ModelsOf(c)}

DeleteConnection(c) ==
  /\ up /\ c \in DOMAIN connections /\ ConnectionReferencedBy(c) = {}
  /\ models' = Drop(models, ModelsOf(c))
  /\ connections' = Drop(connections, {c})
  /\ Kept /\ UNCHANGED <<role_models, embedding_on, uuids, cascade>>
  /\ RefreshEmbeddingConfig

(* Its two statements are not in a transaction: the process may end between. *)
DeleteConnectionTorn(c) ==
  /\ up /\ up' = FALSE /\ embedding' = Nothing
  /\ c \in DOMAIN connections /\ ConnectionReferencedBy(c) = {} /\ ModelsOf(c) # {}
  /\ models' = Drop(models, ModelsOf(c))
  /\ UNCHANGED <<old, connections, role_models, embedding_on, uuids, cascade, moves>>

DeleteConnectionCascade(c) ==
  /\ up /\ c \in DOMAIN connections
  /\ cascade' = ConnectionReferencedBy(c)
  /\ role_models' = Drop(role_models, cascade')
  /\ models' = Drop(models, ModelsOf(c))
  /\ connections' = Drop(connections, {c})
  /\ Kept /\ UNCHANGED <<embedding_on, uuids>>
  /\ RefreshEmbeddingConfig

-----------------------------------------------------------------------------
(* Commands on models, roles and the setting. *)

(* Slip: a second row instead of an edit. *)
SlipAddModel(c, name, w) ==
  /\ up /\ c \in DOMAIN connections
  /\ uuids < MaxIds /\ uuids' = uuids + 1
  /\ models' = Put(models, uuids', [conn |-> c, name |-> name, window |-> w, price |-> "unset"])
  /\ Kept /\ UNCHANGED <<connections, role_models, embedding_on, embedding, cascade>>

(* A model that is there by connection and name is edited, not doubled. *)
AddModel(c, name, w) ==
  /\ up /\ c \in DOMAIN connections
  /\ \/ /\ FindModelId(<<c, name>>) = {} /\ uuids < MaxIds /\ uuids' = uuids + 1
        /\ models' = Put(models, uuids', [conn |-> c, name |-> name, window |-> w, price |-> "unset"])
     \/ \E i \in FindModelId(<<c, name>>) :
          /\ models' = [models EXCEPT ![i].window = w] /\ uuids' = uuids
  /\ Kept /\ UNCHANGED <<connections, role_models, embedding_on, embedding, cascade>>

UpdateModel(i, w) ==
  /\ up /\ i \in DOMAIN models
  /\ models' = [models EXCEPT ![i].window = w]
  /\ Kept /\ UNCHANGED <<connections, role_models, embedding_on, uuids, cascade>>
  /\ RefreshEmbeddingConfig

SetModelPricing(i, price) ==
  /\ up /\ i \in DOMAIN models
  /\ models' = [models EXCEPT ![i].price = price]
  /\ Kept /\ UNCHANGED <<connections, role_models, embedding_on, uuids, cascade>>
  /\ RefreshEmbeddingConfig

(* Slip: a role that is turned off is not counted. *)
SlipModelReferencedBy(i) ==
  {r \in DOMAIN role_models : role_models[r].model = i /\ role_models[r].enabled}

ModelReferencedBy(i) == {r \in DOMAIN role_models : role_models[r].model = i}

DeleteModel(i) ==
  /\ up /\ i \in DOMAIN models /\ ModelReferencedBy(i) = {}
  /\ models' = Drop(models, {i})
  /\ Kept /\ UNCHANGED <<connections, role_models, embedding_on, uuids, cascade>>
  /\ RefreshEmbeddingConfig

DeleteModelCascade(i) ==
  /\ up /\ i \in DOMAIN models
  /\ cascade' = ModelReferencedBy(i)
  /\ role_models' = Drop(role_models, cascade')
  /\ models' = Drop(models, {i})
  /\ Kept /\ UNCHANGED <<connections, embedding_on, uuids>>
  /\ RefreshEmbeddingConfig

(* Slip: forgets that ranking falls back to main. *)
SlipSetRoleAssignment(r, i, on) ==
  /\ up /\ i \in DOMAIN models
  /\ role_models' = Put(role_models, r, [model |-> i, enabled |-> on])
  /\ Kept /\ UNCHANGED <<connections, models, embedding_on, uuids, cascade>>
  /\ IF r = Embed THEN RefreshEmbeddingConfig ELSE embedding' = embedding

SetRoleAssignment(r, i, on) ==
  /\ up /\ i \in DOMAIN models
  /\ role_models' = Put(role_models, r, [model |-> i, enabled |-> on])
  /\ Kept /\ UNCHANGED <<connections, models, embedding_on, uuids, cascade>>
  /\ IF r \in {Main, Embed} THEN RefreshEmbeddingConfig ELSE embedding' = embedding

ClearRoleAssignment(r) ==
  /\ up /\ r # Main
  /\ role_models' = Drop(role_models, {r})
  /\ Kept /\ UNCHANGED <<connections, models, embedding_on, uuids, cascade>>
  /\ IF r = Embed THEN RefreshEmbeddingConfig ELSE embedding' = embedding

SetAppSetting(on) ==
  /\ up /\ embedding_on' = on
  /\ Kept /\ UNCHANGED <<tables, uuids, cascade>>
  /\ RefreshEmbeddingConfig

ConnectionCommand ==
  \/ \E e \in Endpoints, k \in Keys : CreateConnection(e, k)
  \/ \E c \in Ids, e \in Endpoints, typed \in {{}} \cup {{k} : k \in Keys} :
       EditConnection(c, e, typed)
  \/ \E c \in Ids : \/ \E b \in Billings : SetConnectionBilling(c, b)
                    \/ DeleteConnection(c)
                    \/ DeleteConnectionTorn(c)
                    \/ DeleteConnectionCascade(c)

ModelCommand ==
  \/ \E c \in Ids, n \in Names, w \in Windows : AddModel(c, n, w)
  \/ \E i \in Ids : \/ \E w \in Windows : UpdateModel(i, w)
                    \/ \E price \in Prices : SetModelPricing(i, price)
                    \/ DeleteModel(i)
                    \/ DeleteModelCascade(i)

RoleCommand ==
  \/ \E r \in Roles, i \in Ids, on \in BOOLEAN : SetRoleAssignment(r, i, on)
  \/ \E r \in Roles : ClearRoleAssignment(r)
  \/ \E on \in BOOLEAN : SetAppSetting(on)

RegNext == OpenConnections \/ Start \/ Quit \/ ConnectionCommand \/ ModelCommand \/ RoleCommand

RegSpec == RegInit /\ [][RegNext]_regvars

-----------------------------------------------------------------------------
(* Every table holds rows of its kind, no uuid is used twice, and the      *)
(* tables refer to uuids that were drawn.                                  *)
RegTypeOK ==
  /\ IsTable(legacy, Roles, LegacyRow)
  /\ IsTable(assignments, Roles, AssignRow)
  /\ IsTable(connections, Drawn, ConnRow)
  /\ IsTable(models, Drawn, ModelRow)
  /\ IsTable(role_models, Roles, RoleRow)
  /\ embedding_on \in BOOLEAN /\ up \in BOOLEAN
  /\ embedding \in {Nothing} \cup [endpoint : Endpoints, key : Keys]
  /\ uuids \in 0..MaxIds /\ cascade \subseteq Roles /\ moves \in Nat

(* Whatever commands, crashes and migrations did, every role points to a    *)
(* model and every model to a connection: a role never falls back to main  *)
(* because part of its chain was deleted.  This is so until the 0.0.60     *)
(* migration runs a second time (see MovedOnce).                            *)
ChainsComplete ==
  moves <= 1 => /\ \A r \in DOMAIN role_models : Complete(r)
                /\ \A i \in DOMAIN models : models[i].conn \in DOMAIN connections

(* The snapshot the process ranks code with is what the tables say: a key   *)
(* that was replaced or a connection that was deleted is never used again.  *)
(* Commands refresh it by hand, each where it thinks the answer may change. *)
SnapshotFresh == up => embedding = EmbeddingConfig

(* One row for each connection and model string. *)
ModelsUnique ==
  \A i, j \in DOMAIN models :
    models[i].conn = models[j].conn /\ models[i].name = models[j].name => i = j

(* What a role resolves to by the layout before this one: by its            *)
(* assignment or, in a database without any, by its provider.  The tables   *)
(* older still are left filled, and say nothing any more.                   *)
OldRow(r) ==
  IF Empty(assignments)
  THEN [endpoint |-> legacy[r].endpoint, key |-> legacy[r].key,
        name |-> legacy[r].name, window |-> legacy[r].window]
  ELSE [endpoint |-> connections[assignments[r].conn].endpoint,
        key |-> connections[assignments[r].conn].key,
        name |-> assignments[r].name, window |-> assignments[r].window]

OldOwners(r) ==
  LET has   == IF Empty(assignments) THEN DOMAIN legacy ELSE DOMAIN assignments
      on(s) == IF Empty(assignments) THEN legacy[s].enabled ELSE assignments[s].enabled
  IN IF r \in has /\ (r = Main \/ on(r)) THEN {r} ELSE has \cap {Main}

SameModel(old_row, new) ==
  new # Nothing /\ new.endpoint = old_row.endpoint /\ new.key = old_row.key
                /\ new.name = old_row.name

(* Opening an older database changes no answer, whichever older tables are  *)
(* filled and wherever the process ends on the way.  The first migration    *)
(* leaves every role the row it had; the second has it resolve to the       *)
(* endpoint, key and model of that row, a role that had none to none, and   *)
(* main keeps its context window, the limit of compaction, even when        *)
(* another role that shares its model had another.                          *)
MigrationKeepsAnswers ==
  [][/\ moves = 0 /\ assignments' # assignments =>
          \A r \in Roles : /\ OldOwners(r)' = OldOwners(r)
                           /\ \A s \in OldOwners(r) : OldRow(s)' = OldRow(s)
     /\ moves = 0 /\ moves' = 1 =>
          \A r \in Roles :
            IF OldOwners(r) = {} THEN ResolveRoleProvider(r)' = Nothing
            ELSE \A s \in OldOwners(r) :
                   /\ SameModel(OldRow(s), ResolveRoleProvider(r)')
                   /\ s = Main /\ OldRow(s).window # 0
                        => ResolveRoleProvider(r)'.window = OldRow(s).window]_regvars

(* A delete tells the user the roles it takes the model from: a role not    *)
(* named still resolves as it did, unless it follows main and main is named.*)
(* A delete that is not forced changes no role.                             *)
DeletesTellAll ==
  [][~(DOMAIN models \subseteq DOMAIN models') =>
       \A r \in Roles :
         \/ ResolveRoleProvider(r)' = ResolveRoleProvider(r)
         \/ r \in cascade' /\ r \notin DOMAIN role_models'
         \/ Main \in cascade' /\ ~OwnRole(r)]_regvars

(* "One-time and idempotent" (crates/storage/src/lib.rs:2236): the 0.0.60  *)
(* migration moves rows once in the life of a database.                    *)
MovedOnce == moves <= 1
=============================================================================
