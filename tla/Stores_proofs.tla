--------------------------- MODULE Stores_proofs ----------------------------
(***************************************************************************)
(* Theorems about the parts that keep data, ModelRegistry, Rewind, Wiki    *)
(* with Okf, and Accounts with Pricing, and about MCStores, which puts them*)
(* into one system.                                                        *)
(***************************************************************************)
EXTENDS MCStores, FiniteSetTheorems, SequenceTheorems, WellFoundedInduction, TLAPS

-----------------------------------------------------------------------------
(***************************************************************************)
(* Theorems about ModelRegistry, for any roles, endpoints and keys, and    *)
(* however often the database is opened and edited. Rows refer to uuids    *)
(* that were drawn, so a new row never completes an old chain: that is what*)
(* lets a command that only adds rows leave the snapshot alone.            *)
(***************************************************************************)
(* Tables. *)

(* Adding or replacing a row keeps the others. *)
LEMMA PutTable ==
  ASSUME NEW t, NEW S, NEW Kind, NEW k \in S, NEW row \in Kind, IsTable(t, S, Kind)
  PROVE  /\ IsTable(Put(t, k, row), S, Kind)
         /\ DOMAIN Put(t, k, row) = DOMAIN t \cup {k}
         /\ Put(t, k, row)[k] = row
         /\ \A x \in DOMAIN t : x # k => Put(t, k, row)[x] = t[x]
BY DEF IsTable, Put

(* Dropping rows keeps the others. *)
LEMMA DropTable ==
  ASSUME NEW t, NEW S, NEW Kind, NEW D, IsTable(t, S, Kind)
  PROVE  /\ IsTable(Drop(t, D), S, Kind)
         /\ DOMAIN Drop(t, D) = DOMAIN t \ D
         /\ \A x \in DOMAIN t \ D : Drop(t, D)[x] = t[x]
BY DEF IsTable, Drop

(* A table is one of more keys and rows too. *)
LEMMA WiderTable ==
  ASSUME NEW t, NEW S, NEW T, NEW Kind, NEW Wide,
         IsTable(t, S, Kind), S \subseteq T, Kind \subseteq Wide
  PROVE  IsTable(t, T, Wide)
BY DEF IsTable

(* Roles are ordered by naturals, so a set of them has a first one. *)
LEMMA FirstRole ==
  ASSUME NEW users, users \subseteq Roles, users # {}
  PROVE  \E r \in users : \A s \in users : RoleOrder[r] <= RoleOrder[s]
<1> DEFINE ranks == {RoleOrder[r] : r \in users}
<1>1. RoleOrder \in [Roles -> Nat]
  BY RegistryAssumption
<1>2. ranks \subseteq Nat /\ ranks # {}
  BY <1>1
<1>3. PICK n \in ranks : \A m \in ranks : ~(<<m, n>> \in OpToRel(<, Nat))
  <2> HIDE DEF ranks
  <2> QED BY <1>2, NatLessThanWellFounded, WFMin
<1>4. PICK r \in users : n = RoleOrder[r]
  BY <1>3
<1>5. ASSUME NEW s \in users PROVE RoleOrder[r] <= RoleOrder[s]
  <2>1. RoleOrder[s] \in ranks /\ RoleOrder[s] \in Nat /\ RoleOrder[r] \in Nat
    BY <1>1
  <2>2. ~(RoleOrder[s] < RoleOrder[r])
    <3> HIDE DEF ranks
    <3> QED BY <1>3, <1>4, <2>1 DEF OpToRel
  <2> QED BY <2>1, <2>2
<1> QED BY <1>5

(* Values that fill as many consecutive numbers are distinct. *)
LEMMA FillsInterval ==
  ASSUME NEW S, IsFiniteSet(S), NEW f, NEW a \in Nat,
         {f[x] : x \in S} = a .. a + Cardinality(S) - 1
  PROVE  \A x, y \in S : f[x] = f[y] => x = y
<1> DEFINE T == a .. a + Cardinality(S) - 1
           g == [x \in S |-> f[x]]
<1>1. Cardinality(S) \in Nat
  BY FS_CardinalityType
<1>2. Cardinality(T) = Cardinality(S)
  <2> DEFINE n == Cardinality(S)
             b == a + n - 1
  <2>1. n \in Nat /\ b \in Int
    BY <1>1
  <2> HIDE DEF n
  <2>2. IF a > b THEN n = 0 ELSE b - a + 1 = n
    BY <1>1, <2>1 DEF n
  <2> HIDE DEF b
  <2>3. Cardinality(a..b) = IF a > b THEN 0 ELSE b - a + 1
    BY <2>1, FS_Interval
  <2> QED
    BY <2>2, <2>3 DEF b, n
<1>3. g \in [S -> T]
  OBVIOUS
<1>4. \A t \in T : \E x \in S : g[x] = t
  OBVIOUS
<1>5. g \in Surjection(S, T)
  <2> HIDE DEF T, g
  <2> QED BY <1>3, <1>4 DEF Surjection
<1>6. g \in Injection(S, T)
  <2> HIDE DEF T, g
  <2> QED BY <1>2, <1>5, FS_SurjSameCardinalityImpliesInj
<1> HIDE DEF T
<1> QED BY <1>6 DEF Injection, IsInjective

-----------------------------------------------------------------------------
(* The two migrations. *)

(* The endpoints and keys of the old rows are finitely many. *)
LEMMA FiniteTriples ==
  ASSUME IsTable(legacy, Roles, LegacyRow)
  PROVE  IsFiniteSet({Triple(legacy[r]) : r \in DOMAIN legacy})
<1> DEFINE triples == {Triple(legacy[r]) : r \in DOMAIN legacy}
           f == [r \in DOMAIN legacy |-> Triple(legacy[r])]
<1>1. IsFiniteSet(DOMAIN legacy)
  BY RegistryAssumption, FS_Subset DEF IsTable
<1>2. f \in Surjection(DOMAIN legacy, triples)
  BY DEF Surjection
<1> HIDE DEF triples, f
<1>3. IsFiniteSet(triples)
  BY <1>1, <1>2, FS_Surjection
<1> QED BY <1>3 DEF triples

(* What the first migration leaves: the connections that were there, and   *)
(* assignments of the rows as they were to connections of their endpoint   *)
(* and key.                                                                *)
ConnectionsKept(conns, upto) ==
  /\ DOMAIN connections \subseteq DOMAIN conns
  /\ \A c \in DOMAIN connections : conns[c] = connections[c]
  /\ IsTable(conns, upto, ConnRow)

AssignedAsRows(conns, assigned) ==
  \/ assigned = assignments
  \/ /\ Empty(assignments) /\ ~Empty(legacy) /\ DOMAIN assigned = DOMAIN legacy
     /\ \A r \in DOMAIN assigned :
          /\ assigned[r].conn \in DOMAIN conns
          /\ Triple(conns[assigned[r].conn]) = Triple(legacy[r])
          /\ assigned[r] = [conn |-> assigned[r].conn, name |-> legacy[r].name,
                            window |-> legacy[r].window, enabled |-> legacy[r].enabled]

(* The first migration: connections are kept, assignments are of its rows. *)
LEMMA Moved0059 ==
  ASSUME RegTypeOK, NEW conns, NEW assigned, NEW drawn \in Nat,
         MigrateToConnections0059(conns, assigned, drawn)
  PROVE  /\ ConnectionsKept(conns, 1..(uuids + drawn))
         /\ IsTable(assigned, Roles, [conn : 1..(uuids + drawn), name : Names,
                                      window : Windows, enabled : BOOLEAN])
         /\ AssignedAsRows(conns, assigned)
<1> DEFINE Wide == [conn : 1..(uuids + drawn), name : Names, window : Windows, enabled : BOOLEAN]
<1>0. uuids \in Nat /\ 1..uuids \subseteq 1..(uuids + drawn)
  BY RegistryAssumption DEF RegTypeOK
<1>1. CASE ~Empty(assignments) \/ Empty(legacy)
  <2>1. conns = connections /\ assigned = assignments
    BY <1>1 DEF MigrateToConnections0059
  <2>2. IsTable(conns, 1..(uuids + drawn), ConnRow)
    BY <1>0, <2>1, WiderTable DEF RegTypeOK, Drawn
  <2>3. AssignRow \subseteq Wide
    BY <1>0 DEF AssignRow, Drawn
  <2>4. IsTable(assigned, Roles, Wide)
    BY <2>1, <2>3, WiderTable DEF RegTypeOK
  <2> QED BY <2>1, <2>2, <2>4 DEF ConnectionsKept, AssignedAsRows
<1>2. CASE Empty(assignments) /\ ~Empty(legacy)
  <2> DEFINE triples == {Triple(legacy[r]) : r \in DOMAIN legacy}
             missing == {t \in triples : \A c \in DOMAIN connections : ~Holds(c, t)}
  <2>1. PICK conn_of \in [triples -> Ids] :
          /\ \A t \in triples \ missing : Holds(conn_of[t], t)
          /\ {conn_of[t] : t \in missing} = uuids + 1 .. uuids + Cardinality(missing)
          /\ drawn = Cardinality(missing)
          /\ conns = [c \in DOMAIN connections \cup {conn_of[t] : t \in missing} |->
                        IF c \in DOMAIN connections THEN connections[c]
                        ELSE LET t == CHOOSE t \in missing : conn_of[t] = c
                             IN [endpoint |-> t[1], key |-> t[2], billing |-> "api"]]
          /\ assigned = MovedTo0059(conn_of)
    BY <1>2 DEF MigrateToConnections0059
  <2>2. DOMAIN legacy \subseteq Roles /\ \A r \in DOMAIN legacy : legacy[r] \in LegacyRow
    BY DEF RegTypeOK, IsTable
  <2>3. \A t \in triples : t[1] \in Endpoints /\ t[2] \in Keys
    BY <2>2 DEF Triple, LegacyRow
  <2>4. DOMAIN connections \subseteq 1..uuids
        /\ \A c \in DOMAIN connections : connections[c] \in ConnRow
    BY DEF RegTypeOK, IsTable, Drawn
  <2>5. DOMAIN conns = DOMAIN connections \cup (uuids + 1 .. uuids + drawn)
    BY <2>1
  <2>6. DOMAIN conns \subseteq 1..(uuids + drawn)
    BY <1>0, <2>4, <2>5
  <2>7. ASSUME NEW c \in DOMAIN conns, c \notin DOMAIN connections
        PROVE  conns[c] \in ConnRow
    <3> DEFINE t == CHOOSE t \in missing : conn_of[t] = c
    <3>1. \E x \in missing : conn_of[x] = c
      BY <2>1, <2>7
    <3>2. t \in missing
      BY <3>1
    <3>3. t[1] \in Endpoints /\ t[2] \in Keys
      BY <2>3, <3>2
    <3>4. conns[c] = [endpoint |-> t[1], key |-> t[2], billing |-> "api"]
      BY <2>1, <2>7
    <3> HIDE DEF t
    <3> QED BY <3>3, <3>4, RegistryAssumption DEF ConnRow
  <2>8. /\ DOMAIN connections \subseteq DOMAIN conns
        /\ \A c \in DOMAIN connections : conns[c] = connections[c]
    BY <2>1, <2>5
  <2>9. IsTable(conns, 1..(uuids + drawn), ConnRow)
    <3>1. \A c \in DOMAIN conns : conns[c] \in ConnRow
      BY <2>4, <2>7, <2>8
    <3>2. conns = [c \in DOMAIN conns |-> conns[c]]
      BY <2>1
    <3> QED BY <2>6, <3>1, <3>2 DEF IsTable
  <2>10. \A t \in triples : conn_of[t] \in DOMAIN conns
    <3>1. \A t \in missing : conn_of[t] \in DOMAIN conns
      BY <2>1
    <3>2. \A t \in triples \ missing : conn_of[t] \in DOMAIN connections
      BY <2>1 DEF Holds
    <3> QED BY <2>8, <3>1, <3>2
  <2>11. /\ DOMAIN assigned = DOMAIN legacy
         /\ \A r \in DOMAIN legacy : assigned[r] =
              [conn |-> conn_of[Triple(legacy[r])], name |-> legacy[r].name,
               window |-> legacy[r].window, enabled |-> legacy[r].enabled]
         /\ assigned = [r \in DOMAIN assigned |-> assigned[r]]
    BY <2>1 DEF MovedTo0059
  <2>12. \A r \in DOMAIN legacy : Triple(legacy[r]) \in triples
    OBVIOUS
  <2>13. \A r \in DOMAIN assigned : assigned[r].conn \in DOMAIN conns
    <3> HIDE DEF triples, missing
    <3> QED BY <2>10, <2>11, <2>12
  <2>14. \A r \in DOMAIN assigned : assigned[r] \in Wide
    BY <2>2, <2>6, <2>11, <2>13 DEF LegacyRow
  <2>15. IsTable(assigned, Roles, Wide)
    BY <2>2, <2>11, <2>14 DEF IsTable
  <2>16. \A p, q \in missing : conn_of[p] = conn_of[q] => p = q
    <3>1. IsFiniteSet(missing)
      <4>1. IsFiniteSet(triples) /\ missing \in SUBSET triples
        BY FiniteTriples DEF RegTypeOK
      <4> HIDE DEF triples, missing
      <4> QED BY <4>1, FS_Subset
    <3>2. {conn_of[t] : t \in missing} = uuids + 1 .. (uuids + 1) + Cardinality(missing) - 1
      <4>1. Cardinality(missing) \in Nat
        BY <2>1
      <4> HIDE DEF missing
      <4> QED BY <1>0, <2>1, <4>1
    <3> HIDE DEF missing
    <3> QED BY <1>0, <3>1, <3>2, FillsInterval
  <2>17. ASSUME NEW t \in triples PROVE Triple(conns[conn_of[t]]) = t
    <3>1. CASE t \notin missing
      BY <2>1, <2>8, <3>1 DEF Holds
    <3>2. CASE t \in missing
      <4>1. conn_of[t] \in DOMAIN conns /\ conn_of[t] \notin DOMAIN connections
        <5>1. conn_of[t] \in uuids + 1 .. uuids + drawn
          <6> HIDE DEF missing
          <6> QED BY <2>1, <3>2
        <5> QED BY <1>0, <2>4, <2>5, <5>1
      <4>2. (CHOOSE u \in missing : conn_of[u] = conn_of[t]) = t
        <5> HIDE DEF missing
        <5> QED BY <2>16, <3>2
      <4>3. conns[conn_of[t]] = [endpoint |-> t[1], key |-> t[2], billing |-> "api"]
        BY <2>1, <4>1, <4>2
      <4>4. PICK r \in DOMAIN legacy : t = Triple(legacy[r])
        OBVIOUS
      <4> QED BY <4>3, <4>4 DEF Triple
    <3> QED BY <3>1, <3>2
  <2>18. ASSUME NEW r \in DOMAIN assigned
         PROVE  /\ Triple(conns[assigned[r].conn]) = Triple(legacy[r])
                /\ assigned[r] = [conn |-> assigned[r].conn, name |-> legacy[r].name,
                                  window |-> legacy[r].window, enabled |-> legacy[r].enabled]
    <3> HIDE DEF triples, missing
    <3> QED BY <2>11, <2>12, <2>17
  <2> HIDE DEF triples, missing
  <2> QED BY <1>2, <2>8, <2>9, <2>11, <2>13, <2>15, <2>18 DEF ConnectionsKept, AssignedAsRows
<1> QED BY <1>1, <1>2

(* The roles of a table are finitely many, and so are the pairs they use.  *)
LEMMA FinitePairs ==
  ASSUME NEW t, NEW Kind, IsTable(t, Roles, Kind)
  PROVE  IsFiniteSet({<<t[r].conn, t[r].name>> : r \in DOMAIN t})
<1> DEFINE pairs == {<<t[r].conn, t[r].name>> : r \in DOMAIN t}
           f == [r \in DOMAIN t |-> <<t[r].conn, t[r].name>>]
<1>1. IsFiniteSet(DOMAIN t)
  BY RegistryAssumption, FS_Subset DEF IsTable
<1>2. f \in Surjection(DOMAIN t, pairs)
  BY DEF Surjection
<1> HIDE DEF pairs, f
<1>3. IsFiniteSet(pairs)
  BY <1>1, <1>2, FS_Surjection
<1> QED BY <1>3 DEF pairs

(* The window a migrated model gets is a window. *)
LEMMA WindowType ==
  ASSUME NEW upto, IsTable(models, Drawn, ModelRow),
         NEW assigned,
         IsTable(assigned, Roles, [conn : upto, name : Names, window : Windows, enabled : BOOLEAN]),
         NEW pair, NEW id, Users(assigned, pair) # {}
  PROVE  WindowOf(assigned, pair, id) \in Windows
<1> DEFINE users == Users(assigned, pair)
           first == CHOOSE r \in users : \A s \in users : RoleOrder[r] <= RoleOrder[s]
<1>1. users \subseteq DOMAIN assigned /\ DOMAIN assigned \subseteq Roles
  BY DEF Users, IsTable
<1>2. first \in users
  <2>1. \E r \in users : \A s \in users : RoleOrder[r] <= RoleOrder[s]
    <3> HIDE DEF users
    <3> QED BY <1>1, FirstRole DEF users
  <2> QED BY <2>1
<1>3. \A r \in DOMAIN assigned : assigned[r].window \in Windows
  BY DEF IsTable
<1>4. id \in DOMAIN models => models[id].window \in Windows
  BY DEF IsTable, ModelRow
<1>5. WindowOf(assigned, pair, id) \in
        {assigned[Main].window, models[id].window, assigned[first].window}
  BY DEF WindowOf
<1>6. \/ Main \in users /\ WindowOf(assigned, pair, id) = assigned[Main].window
      \/ id \in DOMAIN models /\ WindowOf(assigned, pair, id) = models[id].window
      \/ WindowOf(assigned, pair, id) = assigned[first].window
  BY DEF WindowOf
<1> HIDE DEF users, first
<1> QED BY <1>1, <1>2, <1>3, <1>4, <1>6

(* What the second migration leaves when it moves: every role has the      *)
(* connection, the name and the switch it was assigned, main its window,   *)
(* and every row of a model is an old one or that of an assignment.        *)
RolesAsAssigned(assigned, mods, roles) ==
  /\ DOMAIN roles = DOMAIN assigned
  /\ roles = [r \in DOMAIN roles |-> roles[r]]
  /\ \A r \in DOMAIN assigned :
       /\ roles[r] = [model |-> roles[r].model, enabled |-> assigned[r].enabled]
       /\ roles[r].model \in DOMAIN mods
       /\ mods[roles[r].model].conn = assigned[r].conn
       /\ mods[roles[r].model].name = assigned[r].name
       /\ r = Main /\ assigned[r].window # 0 => mods[roles[r].model].window = assigned[r].window

ModelsAsAssigned(assigned, upto, first_id, mods, drawn) ==
  /\ DOMAIN mods \subseteq DOMAIN models \cup (first_id .. first_id + drawn - 1)
  /\ mods = [i \in DOMAIN mods |-> mods[i]]
  /\ \A i \in DOMAIN mods :
       \/ i \in DOMAIN models /\ mods[i] = models[i]
       \/ /\ mods[i] \in [conn : upto, name : Names, window : Windows, price : Prices]
          /\ \E r \in DOMAIN assigned : mods[i].conn = assigned[r].conn

(* A model is there once, by connection and name. *)
OneEach(mods) ==
  \A i, j \in DOMAIN mods : mods[i].conn = mods[j].conn /\ mods[i].name = mods[j].name => i = j

(* The second migration, when it moves.                                    *)
LEMMA Moved0060 ==
  ASSUME RegTypeOK, NEW assigned, NEW upto,
         IsTable(assigned, Roles, [conn : upto, name : Names, window : Windows, enabled : BOOLEAN]),
         NEW first_id \in Nat, uuids < first_id, NEW mods, NEW roles, NEW drawn \in Nat,
         MigrateToModelsLayer0060(assigned, first_id, mods, roles, drawn),
         Empty(role_models), ~Empty(assigned)
  PROVE  /\ RolesAsAssigned(assigned, mods, roles)
         /\ ModelsAsAssigned(assigned, upto, first_id, mods, drawn)
         /\ ModelsUnique => OneEach(mods)
<1> DEFINE pairs   == {<<assigned[r].conn, assigned[r].name>> : r \in DOMAIN assigned}
           missing == {p \in pairs : FindModelId(p) = {}}
<1>1. PICK model_of \in [pairs -> Ids] :
        /\ \A p \in pairs \ missing : model_of[p] \in FindModelId(p)
        /\ {model_of[p] : p \in missing} = first_id .. first_id + Cardinality(missing) - 1
        /\ drawn = Cardinality(missing)
        /\ mods = [i \in DOMAIN models \cup {model_of[p] : p \in missing} |->
                     IF \E p \in pairs : model_of[p] = i
                     THEN LET p == CHOOSE p \in pairs : model_of[p] = i
                          IN [conn |-> p[1], name |-> p[2],
                              window |-> WindowOf(assigned, p, i),
                              price |-> IF i \in DOMAIN models THEN models[i].price
                                        ELSE "unset"]
                     ELSE models[i]]
        /\ roles = [r \in DOMAIN assigned |->
                      [model |-> model_of[<<assigned[r].conn, assigned[r].name>>],
                       enabled |-> assigned[r].enabled]]
  BY DEF MigrateToModelsLayer0060
<1> DEFINE Pair(r) == <<assigned[r].conn, assigned[r].name>>
<1>2. \A p \in pairs : \E r \in DOMAIN assigned : p = Pair(r)
  OBVIOUS
<1>3. \A r \in DOMAIN assigned : Pair(r) \in pairs
  OBVIOUS
<1>4. DOMAIN models \subseteq 1..uuids /\ \A i \in DOMAIN models : models[i] \in ModelRow
  BY DEF RegTypeOK, IsTable, Drawn
<1>5. \A p, q \in missing : model_of[p] = model_of[q] => p = q
  <2>1. IsFiniteSet(pairs)
    BY FinitePairs
  <2>2. IsFiniteSet(missing)
    <3>1. missing \in SUBSET pairs
      OBVIOUS
    <3> HIDE DEF pairs, missing
    <3> QED BY <2>1, <3>1, FS_Subset
  <2> HIDE DEF missing
  <2> QED BY <1>1, <2>2, FillsInterval
<1>6. \A p \in pairs \ missing :
        model_of[p] \in DOMAIN models /\ model_of[p] < first_id
        /\ models[model_of[p]].conn = p[1] /\ models[model_of[p]].name = p[2]
  <2>1. \A p \in pairs \ missing :
          model_of[p] \in DOMAIN models
          /\ <<models[model_of[p]].conn, models[model_of[p]].name>> = p
    BY <1>1 DEF FindModelId
  <2>2. \A i \in DOMAIN models : i < first_id
    BY <1>4 DEF RegTypeOK
  <2>3. \A c, n, p : <<c, n>> = p => p[1] = c /\ p[2] = n
    OBVIOUS
  <2> HIDE DEF pairs, missing
  <2> QED BY <2>1, <2>2, <2>3
<1>7. \A p \in missing : model_of[p] >= first_id /\ model_of[p] \in Nat
  <2>1. \A p \in missing : model_of[p] \in first_id .. first_id + drawn - 1
    <3> HIDE DEF missing
    <3> QED BY <1>1
  <2> HIDE DEF missing
  <2> QED BY <2>1
<1>8. ASSUME NEW p \in pairs, NEW q \in pairs, model_of[p] = model_of[q]
      PROVE  p = q
  <2>1. CASE p \in missing /\ q \in missing
    BY <1>5, <1>8, <2>1
  <2>2. CASE p \notin missing /\ q \notin missing
    <3>1. PICK r \in DOMAIN assigned : p = Pair(r)
      BY <1>2
    <3>2. PICK s \in DOMAIN assigned : q = Pair(s)
      BY <1>2
    <3>3. p[1] = q[1] /\ p[2] = q[2]
      <4> HIDE DEF pairs, missing
      <4> QED BY <1>6, <1>8, <2>2
    <3> QED BY <3>1, <3>2, <3>3
  <2>3. CASE (p \in missing) # (q \in missing)
    <3>1. \A n, k \in Nat : n < first_id /\ k >= first_id => n # k
      OBVIOUS
    <3>2. \A x \in pairs : model_of[x] \in Nat
      BY <1>1 DEF Ids
    <3> HIDE DEF pairs, missing
    <3> QED BY <1>6, <1>7, <1>8, <2>3, <3>1, <3>2
  <2> QED BY <2>1, <2>2, <2>3
<1>9. \A p \in pairs : model_of[p] \in DOMAIN mods
  BY <1>1, <1>6
<1>10. ASSUME NEW p \in pairs
       PROVE  mods[model_of[p]] =
                [conn |-> p[1], name |-> p[2], window |-> WindowOf(assigned, p, model_of[p]),
                 price |-> IF model_of[p] \in DOMAIN models THEN models[model_of[p]].price
                           ELSE "unset"]
  <2>1. (CHOOSE q \in pairs : model_of[q] = model_of[p]) = p
    <3> HIDE DEF pairs
    <3> QED BY <1>8, <1>10
  <2> QED BY <1>1, <1>9, <2>1
<1>11. ASSUME NEW r \in DOMAIN assigned
       PROVE  /\ roles[r] = [model |-> roles[r].model, enabled |-> assigned[r].enabled]
              /\ roles[r].model \in DOMAIN mods
              /\ mods[roles[r].model].conn = assigned[r].conn
              /\ mods[roles[r].model].name = assigned[r].name
              /\ r = Main /\ assigned[r].window # 0 =>
                   mods[roles[r].model].window = assigned[r].window
  <2>1. roles[r] = [model |-> model_of[Pair(r)], enabled |-> assigned[r].enabled]
    BY <1>1
  <2>2. model_of[Pair(r)] \in DOMAIN mods
    BY <1>3, <1>9
  <2>3. /\ mods[model_of[Pair(r)]].conn = assigned[r].conn
        /\ mods[model_of[Pair(r)]].name = assigned[r].name
        /\ mods[model_of[Pair(r)]].window = WindowOf(assigned, Pair(r), model_of[Pair(r)])
    <3>1. Pair(r) \in pairs
      BY <1>3
    <3>2. mods[model_of[Pair(r)]] =
            [conn |-> Pair(r)[1], name |-> Pair(r)[2],
             window |-> WindowOf(assigned, Pair(r), model_of[Pair(r)]),
             price |-> IF model_of[Pair(r)] \in DOMAIN models THEN models[model_of[Pair(r)]].price
                       ELSE "unset"]
      <4> HIDE DEF Pair, pairs
      <4> QED BY <1>10, <3>1
    <3>3. Pair(r)[1] = assigned[r].conn /\ Pair(r)[2] = assigned[r].name
      OBVIOUS
    <3> HIDE DEF Pair, pairs
    <3> QED BY <3>2, <3>3
  <2>4. r \in Users(assigned, Pair(r))
    BY DEF Users
  <2>5. r = Main /\ assigned[r].window # 0 =>
          WindowOf(assigned, Pair(r), model_of[Pair(r)]) = assigned[r].window
    BY <2>4 DEF WindowOf
  <2> HIDE DEF Pair
  <2> QED BY <2>1, <2>2, <2>3, <2>5
<1>12. DOMAIN mods \subseteq DOMAIN models \cup (first_id .. first_id + drawn - 1)
  BY <1>1
<1>13. ASSUME NEW i \in DOMAIN mods
       PROVE  \/ i \in DOMAIN models /\ mods[i] = models[i]
              \/ /\ mods[i] \in [conn : upto, name : Names, window : Windows, price : Prices]
                 /\ \E r \in DOMAIN assigned : mods[i].conn = assigned[r].conn
  <2>1. CASE \A p \in pairs : model_of[p] # i
    <3>1. i \in DOMAIN models
      BY <1>1, <2>1
    <3>2. mods[i] = models[i]
      BY <1>1, <2>1
    <3> QED BY <3>1, <3>2
  <2>2. CASE \E p \in pairs : model_of[p] = i
    <3>1. PICK p \in pairs : model_of[p] = i
      BY <2>2
    <3>2. PICK r \in DOMAIN assigned : p = Pair(r)
      BY <1>2
    <3>3. p[1] = assigned[r].conn /\ p[2] = assigned[r].name
      BY <3>2
    <3>4. p[1] \in upto /\ p[2] \in Names
      BY <3>3 DEF IsTable
    <3>5. WindowOf(assigned, p, i) \in Windows
      <4>1. r \in Users(assigned, p)
        BY <3>2 DEF Users
      <4> QED BY <4>1, WindowType DEF RegTypeOK
    <3>6. (IF i \in DOMAIN models THEN models[i].price ELSE "unset") \in Prices
      BY <1>4, RegistryAssumption DEF ModelRow
    <3>7. mods[i] = [conn |-> p[1], name |-> p[2], window |-> WindowOf(assigned, p, i),
                     price |-> IF i \in DOMAIN models THEN models[i].price ELSE "unset"]
      BY <1>10, <3>1
    <3> HIDE DEF pairs
    <3> QED BY <3>3, <3>4, <3>5, <3>6, <3>7
  <2> QED BY <2>1, <2>2
<1>14. DOMAIN roles = DOMAIN assigned /\ roles = [r \in DOMAIN roles |-> roles[r]]
       /\ mods = [i \in DOMAIN mods |-> mods[i]]
  BY <1>1
<1>15. ASSUME ModelsUnique PROVE OneEach(mods)
  <2>1. \A p \in pairs : mods[model_of[p]].conn = p[1] /\ mods[model_of[p]].name = p[2]
    <3> SUFFICES ASSUME NEW p \in pairs PROVE mods[model_of[p]].conn = p[1] /\ mods[model_of[p]].name = p[2]
      OBVIOUS
    <3>1. mods[model_of[p]] =
            [conn |-> p[1], name |-> p[2], window |-> WindowOf(assigned, p, model_of[p]),
             price |-> IF model_of[p] \in DOMAIN models THEN models[model_of[p]].price
                       ELSE "unset"]
      BY <1>10
    <3> HIDE DEF pairs
    <3> QED BY <3>1
  <2>2. \A i \in DOMAIN mods :
          (\E p \in pairs : model_of[p] = i) \/ (i \in DOMAIN models /\ mods[i] = models[i])
    BY <1>1
  <2>3. ASSUME NEW p \in pairs, NEW q \in pairs, p[1] = q[1], p[2] = q[2] PROVE p = q
    <3>1. PICK r \in DOMAIN assigned : p = Pair(r)
      BY <1>2
    <3>2. PICK s \in DOMAIN assigned : q = Pair(s)
      BY <1>2
    <3> QED BY <2>3, <3>1, <3>2
  (* A row that stays is not that of a pair: the pair would have found it. *)
  <2>4. ASSUME NEW p \in pairs, NEW j \in DOMAIN models, models[j].conn = p[1], models[j].name = p[2]
        PROVE  model_of[p] = j
    <3>1. PICK r \in DOMAIN assigned : p = Pair(r)
      BY <1>2
    <3>2. <<models[j].conn, models[j].name>> = p
      BY <2>4, <3>1
    <3>3. p \notin missing
      BY <3>2 DEF FindModelId
    <3>4. model_of[p] \in DOMAIN models /\ models[model_of[p]].conn = p[1] /\ models[model_of[p]].name = p[2]
      <4> HIDE DEF pairs, missing
      <4> QED BY <1>6, <3>3
    <3> QED BY <1>15, <2>4, <3>4 DEF ModelsUnique
  <2> HIDE DEF pairs, missing, Pair
  <2>5. ASSUME NEW i \in DOMAIN mods, NEW j \in DOMAIN mods,
               mods[i].conn = mods[j].conn, mods[i].name = mods[j].name
        PROVE  i = j
    <3>1. ASSUME NEW p \in pairs, model_of[p] = i, NEW q \in pairs, model_of[q] = j PROVE i = j
      BY <2>1, <2>3, <2>5, <3>1
    <3>2. ASSUME NEW p \in pairs, model_of[p] = i, j \in DOMAIN models, mods[j] = models[j] PROVE i = j
      BY <2>1, <2>4, <2>5, <3>2
    <3>3. ASSUME NEW q \in pairs, model_of[q] = j, i \in DOMAIN models, mods[i] = models[i] PROVE i = j
      BY <2>1, <2>4, <2>5, <3>3
    <3>4. ASSUME i \in DOMAIN models, mods[i] = models[i], j \in DOMAIN models, mods[j] = models[j] PROVE i = j
      BY <1>15, <2>5, <3>4 DEF ModelsUnique
    <3> QED BY <2>2, <3>1, <3>2, <3>3, <3>4
  <2> QED BY <2>5 DEF OneEach
<1> HIDE DEF pairs, missing, Pair
<1> QED BY <1>11, <1>12, <1>13, <1>14, <1>15 DEF RolesAsAssigned, ModelsAsAssigned

-----------------------------------------------------------------------------
(* Types. *)

(* At first every table has rows of its kind. *)
LEMMA RegTypeInit == RegInit => RegTypeOK
<1> SUFFICES ASSUME RegInit PROVE RegTypeOK
  OBVIOUS
<1>1. /\ IsTable(legacy, Roles, LegacyRow) /\ IsTable(assignments, Roles, AssignRow)
      /\ uuids \in 0..MaxIds /\ embedding_on \in BOOLEAN
      /\ embedding = Nothing /\ up = FALSE /\ cascade = {} /\ moves = 0
  BY DEF RegInit
<1>2. IsTable(connections, Drawn, ConnRow)
  BY DEF RegInit, IsTable, Drawn
<1>3. IsTable(models, Drawn, ModelRow) /\ IsTable(role_models, Roles, RoleRow)
  BY DEF RegInit, IsTable
<1> QED BY <1>1, <1>2, <1>3 DEF RegTypeOK

Snapshots == {Nothing} \cup [endpoint : Endpoints, key : Keys]

(* All of the type but the snapshot. *)
RowsOK ==
  /\ IsTable(legacy, Roles, LegacyRow)
  /\ IsTable(assignments, Roles, AssignRow)
  /\ IsTable(connections, Drawn, ConnRow)
  /\ IsTable(models, Drawn, ModelRow)
  /\ IsTable(role_models, Roles, RoleRow)
  /\ embedding_on \in BOOLEAN /\ up \in BOOLEAN
  /\ uuids \in 0..MaxIds /\ cascade \subseteq Roles /\ moves \in Nat

(* The snapshot is an endpoint and a key of the tables, or nothing. *)
LEMMA EmbeddingType == RowsOK => EmbeddingConfig \in Snapshots
<1> SUFFICES ASSUME RowsOK PROVE EmbeddingConfig \in Snapshots
  OBVIOUS
<1> DEFINE provider == ResolveRoleProvider(Embed)
<1>1. ASSUME NEW r PROVE
        \/ SynthesizeRoleProvider(r) = Nothing
        \/ /\ SynthesizeRoleProvider(r).endpoint \in Endpoints
           /\ SynthesizeRoleProvider(r).key \in Keys
  BY DEF SynthesizeRoleProvider, Complete, RowsOK, IsTable, ConnRow
<1>2. provider = Nothing \/ (provider.endpoint \in Endpoints /\ provider.key \in Keys)
  BY <1>1 DEF ResolveRoleProvider
<1> HIDE DEF provider
<1>3. ResolveEmbeddingConfig(embedding_on, provider) \in Snapshots
  BY <1>2 DEF ResolveEmbeddingConfig, Snapshots
<1> QED BY <1>3 DEF provider, EmbeddingConfig

(* The same of the next state. *)
LEMMA EmbeddingTypeNext == RowsOK' => EmbeddingConfig' \in Snapshots
<1>1. (RowsOK => EmbeddingConfig \in Snapshots)'
  BY EmbeddingType, PTL
<1> QED BY <1>1 DEF Snapshots

(* A row of a table refers to uuids drawn until now, and a uuid that is    *)
(* drawn leaves the tables as they are.                                    *)
LEMMA MoreDrawn ==
  ASSUME RegTypeOK, uuids' \in Nat, uuids <= uuids'
  PROVE  /\ IsTable(assignments, Roles, AssignRow')
         /\ IsTable(connections, Drawn', ConnRow')
         /\ IsTable(models, Drawn', ModelRow')
         /\ IsTable(role_models, Roles, RoleRow')
         /\ Drawn \subseteq Drawn'
<1>1. uuids \in Nat
  BY RegistryAssumption DEF RegTypeOK
<1>2. Drawn \subseteq Drawn'
  BY <1>1 DEF Drawn
<1>3. AssignRow \subseteq AssignRow' /\ ModelRow \subseteq ModelRow' /\ RoleRow \subseteq RoleRow'
      /\ ConnRow \subseteq ConnRow'
  BY <1>2 DEF AssignRow, ModelRow, RoleRow, ConnRow
<1> QED BY <1>2, <1>3, WiderTable DEF RegTypeOK

(* What is left to show of a command: its tables, its uuids, its report    *)
(* and its snapshot.                                                       *)
LEMMA CommandType ==
  ASSUME RegTypeOK, UNCHANGED <<old, moves>>,
         uuids' \in 0..MaxIds, uuids <= uuids',
         IsTable(connections', Drawn', ConnRow'), IsTable(models', Drawn', ModelRow'),
         IsTable(role_models', Roles, RoleRow'), embedding_on' \in BOOLEAN, up' \in BOOLEAN,
         cascade' \subseteq Roles,
         embedding' = embedding \/ RefreshEmbeddingConfig \/ embedding' = Nothing
  PROVE  RegTypeOK'
<1>1. IsTable(assignments', Roles, AssignRow')
  BY MoreDrawn, RegistryAssumption DEF old
<1>2. IsTable(legacy', Roles, LegacyRow') /\ moves' \in Nat
  BY DEF RegTypeOK, old, LegacyRow
<1>3. RowsOK'
  BY <1>1, <1>2 DEF RowsOK
<1>4. embedding' \in Snapshots
  <2>1. CASE embedding' = embedding \/ embedding' = Nothing
    BY <2>1 DEF RegTypeOK, Snapshots
  <2>2. CASE RefreshEmbeddingConfig
    BY <1>3, <2>2, EmbeddingTypeNext DEF RefreshEmbeddingConfig
  <2> QED BY <2>1, <2>2
<1> QED BY <1>3, <1>4 DEF RegTypeOK, RowsOK, Snapshots

(* The first migration keeps every table of its kind. *)
LEMMA ConnectionsType == RegTypeOK /\ OpenConnections => RegTypeOK'
<1> SUFFICES ASSUME RegTypeOK, OpenConnections PROVE RegTypeOK'
  OBVIOUS
<1>1. PICK drawn \in 0..MaxIds :
        /\ MigrateToConnections0059(connections', assignments', drawn)
        /\ uuids' = uuids + drawn /\ uuids' <= MaxIds
  BY DEF OpenConnections
<1>2. uuids \in Nat /\ drawn \in Nat /\ MaxIds \in Nat
  BY RegistryAssumption DEF RegTypeOK
<1>3. uuids' \in 0..MaxIds /\ uuids' \in Nat /\ uuids <= uuids'
  BY <1>1, <1>2
<1>4. Drawn' = 1..(uuids + drawn) /\ ConnRow' = ConnRow
      /\ AssignRow' = [conn : 1..(uuids + drawn), name : Names, window : Windows, enabled : BOOLEAN]
  BY <1>1 DEF Drawn, ConnRow, AssignRow
<1>5. IsTable(connections', Drawn', ConnRow') /\ IsTable(assignments', Roles, AssignRow')
  BY <1>1, <1>2, <1>4, Moved0059 DEF ConnectionsKept
<1>6. IsTable(models', Drawn', ModelRow') /\ IsTable(role_models', Roles, RoleRow')
  BY <1>3, MoreDrawn DEF OpenConnections
<1>7. /\ IsTable(legacy', Roles, LegacyRow') /\ embedding_on' \in BOOLEAN
      /\ up' \in BOOLEAN /\ cascade' \subseteq Roles /\ moves' \in Nat
      /\ embedding' \in Snapshots
  BY DEF OpenConnections, RegTypeOK, LegacyRow, Snapshots
<1> QED BY <1>3, <1>5, <1>6, <1>7 DEF RegTypeOK, Snapshots

(* The second one, which starts the process, keeps them too. *)
LEMMA StartType == RegTypeOK /\ Start => RegTypeOK'
<1> SUFFICES ASSUME RegTypeOK, Start PROVE RegTypeOK'
  OBVIOUS
<1>1. PICK more \in 0..MaxIds :
        /\ MigrateToModelsLayer0060(assignments, uuids + 1, models', role_models', more)
        /\ uuids' = uuids + more /\ uuids' <= MaxIds
  BY DEF Start
<1>2. uuids \in Nat /\ more \in Nat /\ MaxIds \in Nat
  BY RegistryAssumption DEF RegTypeOK
<1>3. assignments' = assignments /\ connections' = connections /\ legacy' = legacy
      /\ IsTable(assignments, Roles, AssignRow)
  BY DEF Start, old, RegTypeOK
<1>4. uuids' \in 0..MaxIds /\ uuids' \in Nat /\ uuids <= uuids' /\ Drawn \subseteq Drawn'
  BY <1>1, <1>2 DEF Drawn
<1>5. IsTable(connections', Drawn', ConnRow') /\ IsTable(assignments', Roles, AssignRow')
  BY <1>3, <1>4, MoreDrawn
<1>7. IsTable(models', Drawn', ModelRow') /\ IsTable(role_models', Roles, RoleRow')
  <2>1. CASE ~Empty(role_models) \/ Empty(assignments)
    <3>1. models' = models /\ role_models' = role_models
      BY <1>1, <2>1 DEF MigrateToModelsLayer0060
    <3> QED BY <1>4, <3>1, MoreDrawn
  <2>2. CASE Empty(role_models) /\ ~Empty(assignments)
    <3> DEFINE first_id == uuids + 1
    <3>1. first_id \in Nat /\ uuids < first_id
      BY <1>2
    <3>0. /\ RolesAsAssigned(assignments', models', role_models')
          /\ ModelsAsAssigned(assignments', Drawn, first_id, models', more)
      <4>1. MigrateToModelsLayer0060(assignments, first_id, models', role_models', more)
        BY <1>1
      <4>2. IsTable(assignments, Roles, [conn : Drawn, name : Names, window : Windows, enabled : BOOLEAN])
        BY <1>3 DEF AssignRow
      <4> HIDE DEF first_id
      <4> QED BY <1>2, <1>3, <2>2, <3>1, <4>1, <4>2, Moved0060
    <3>2. /\ DOMAIN role_models' = DOMAIN assignments'
          /\ role_models' = [r \in DOMAIN role_models' |-> role_models'[r]]
          /\ \A r \in DOMAIN assignments' :
               /\ role_models'[r] = [model |-> role_models'[r].model,
                                     enabled |-> assignments'[r].enabled]
               /\ role_models'[r].model \in DOMAIN models'
          /\ DOMAIN models' \subseteq DOMAIN models \cup (first_id .. first_id + more - 1)
          /\ models' = [i \in DOMAIN models' |-> models'[i]]
          /\ \A i \in DOMAIN models' :
               \/ i \in DOMAIN models /\ models'[i] = models[i]
               \/ models'[i] \in [conn : Drawn, name : Names, window : Windows, price : Prices]
      <4> HIDE DEF first_id
      <4> QED BY <3>0 DEF RolesAsAssigned, ModelsAsAssigned
    <3>3. DOMAIN models' \subseteq Drawn'
      <4>1. DOMAIN models \subseteq 1..uuids
        BY DEF RegTypeOK, IsTable, Drawn
      <4>2. 1..uuids \subseteq Drawn' /\ first_id .. first_id + more - 1 \subseteq Drawn'
        BY <1>1, <1>2 DEF Drawn
      <4> QED BY <3>2, <4>1, <4>2
    <3>4. \A i \in DOMAIN models' : models'[i] \in ModelRow'
      <4>1. \A i \in DOMAIN models : models[i] \in ModelRow'
        BY <1>2, <1>4, MoreDrawn DEF IsTable
      <4>2. [conn : Drawn, name : Names, window : Windows, price : Prices] \subseteq ModelRow'
        BY <1>4 DEF ModelRow
      <4> QED BY <3>2, <4>1, <4>2
    <3>5. IsTable(models', Drawn', ModelRow')
      BY <3>2, <3>3, <3>4 DEF IsTable
    <3>6. IsTable(role_models', Roles, RoleRow')
      BY <1>5, <3>2, <3>3 DEF IsTable, RoleRow, AssignRow
    <3> QED BY <3>5, <3>6
  <2> QED BY <2>1, <2>2
<1>8. /\ IsTable(legacy', Roles, LegacyRow') /\ embedding_on' \in BOOLEAN
      /\ up' \in BOOLEAN /\ cascade' \subseteq Roles /\ moves' \in Nat
  BY DEF Start, old, RegTypeOK, LegacyRow
<1>9. RowsOK'
  BY <1>4, <1>5, <1>7, <1>8 DEF RowsOK
<1>10. embedding' \in Snapshots
  BY <1>9, EmbeddingTypeNext DEF Start, RefreshEmbeddingConfig
<1> QED BY <1>9, <1>10 DEF RegTypeOK, RowsOK, Snapshots

(* So does every command, and the end of the process. *)
LEMMA RegTypeStep == RegTypeOK /\ [RegNext]_regvars => RegTypeOK'
<1> SUFFICES ASSUME RegTypeOK, [RegNext]_regvars PROVE RegTypeOK'
  OBVIOUS
<1> USE RegistryAssumption
<1>0. /\ uuids \in Nat /\ uuids \in 0..MaxIds /\ embedding_on \in BOOLEAN
      /\ up \in BOOLEAN /\ cascade \subseteq Roles
  BY DEF RegTypeOK
<1> DEFINE Tables == /\ IsTable(connections', Drawn', ConnRow')
                     /\ IsTable(models', Drawn', ModelRow')
                     /\ IsTable(role_models', Roles, RoleRow')
<1>a. ConnRow' = ConnRow /\ IsTable(connections, Drawn, ConnRow)
      /\ IsTable(models, Drawn, ModelRow) /\ IsTable(role_models, Roles, RoleRow)
  BY DEF ConnRow, RegTypeOK
<1>b. uuids' = uuids => Drawn' = Drawn /\ ModelRow' = ModelRow /\ RoleRow' = RoleRow
  BY DEF Drawn, ModelRow, RoleRow
<1>c. uuids < MaxIds /\ uuids' = uuids + 1 =>
        /\ uuids' \in 0..MaxIds /\ uuids <= uuids' /\ uuids' \in Drawn'
        /\ IsTable(connections, Drawn', ConnRow') /\ IsTable(models, Drawn', ModelRow')
        /\ IsTable(role_models, Roles, RoleRow') /\ Drawn \subseteq Drawn'
  <2> SUFFICES ASSUME uuids < MaxIds, uuids' = uuids + 1
               PROVE  /\ uuids' \in 0..MaxIds /\ uuids <= uuids' /\ uuids' \in Drawn'
                      /\ IsTable(connections, Drawn', ConnRow') /\ IsTable(models, Drawn', ModelRow')
                      /\ IsTable(role_models, Roles, RoleRow') /\ Drawn \subseteq Drawn'
    OBVIOUS
  <2>1. uuids' \in 0..MaxIds /\ uuids' \in Nat /\ uuids <= uuids' /\ uuids' \in Drawn'
    BY <1>0 DEF Drawn
  <2> QED BY <2>1, MoreDrawn
<1>d. ASSUME uuids' = uuids, UNCHANGED <<old, moves, cascade>>, up' \in BOOLEAN, Tables,
             embedding_on' \in BOOLEAN,
             embedding' = embedding \/ RefreshEmbeddingConfig \/ embedding' = Nothing
      PROVE  RegTypeOK'
  <2>1. uuids' \in 0..MaxIds /\ uuids <= uuids' /\ cascade' \subseteq Roles
    BY <1>0, <1>d
  <2> QED BY <1>d, <2>1, CommandType
<1>1. CASE OpenConnections \/ Start
  BY <1>1, ConnectionsType, StartType
<1>2. CASE Quit
  <2>1. Tables
    BY <1>2, <1>a, <1>b DEF Quit, tables
  <2> QED BY <1>2, <1>0, <1>d, <2>1 DEF Quit
<1>3. ASSUME NEW e \in Endpoints, NEW k \in Keys, CreateConnection(e, k)
      PROVE  RegTypeOK'
  <2> DEFINE row == [endpoint |-> e, key |-> k, billing |-> "api"]
  <2>1. row \in ConnRow'
    BY DEF ConnRow
  <2>2. connections' = Put(connections, uuids', row)
    BY <1>3 DEF CreateConnection
  <2>3. uuids < MaxIds /\ uuids' = uuids + 1
    BY <1>3 DEF CreateConnection
  <2> HIDE DEF row
  <2>4. IsTable(connections', Drawn', ConnRow')
    BY <1>c, <2>1, <2>2, <2>3, PutTable
  <2>5. UNCHANGED <<old, up, moves, models, role_models, embedding_on, cascade>>
    BY <1>3 DEF CreateConnection, Kept
  <2> QED BY <1>0, <1>3, <1>c, <2>3, <2>4, <2>5, CommandType DEF CreateConnection
<1>4. ASSUME NEW c \in Ids, NEW e \in Endpoints, NEW typed \in {{}} \cup {{k} : k \in Keys},
             EditConnection(c, e, typed)
      PROVE  RegTypeOK'
  <2>1. PICK k \in Keys : connections' = [connections EXCEPT ![c].endpoint = e, ![c].key = k]
    <3>1. PICK k \in typed \cup (IF typed = {} THEN {connections[c].key} ELSE {}) :
             connections' = [connections EXCEPT ![c].endpoint = e, ![c].key = k]
      BY <1>4 DEF EditConnection
    <3>2. connections[c].key \in Keys
      BY <1>4 DEF RegTypeOK, IsTable, ConnRow, EditConnection
    <3> QED BY <3>1, <3>2
  <2>2. IsTable(connections', Drawn, ConnRow)
    BY <1>4, <2>1 DEF EditConnection, IsTable, ConnRow, RegTypeOK
  <2>3. Tables
    BY <1>4, <1>a, <1>b, <2>2 DEF EditConnection
  <2> HIDE DEF Tables
  <2> QED BY <1>0, <1>4, <1>d, <2>3 DEF EditConnection, Kept
<1>5. ASSUME NEW c \in Ids, NEW b \in Billings, SetConnectionBilling(c, b)
      PROVE  RegTypeOK'
  <2>1. IsTable(connections', Drawn, ConnRow)
    BY <1>5 DEF SetConnectionBilling, IsTable, ConnRow, RegTypeOK
  <2>2. Tables
    BY <1>5, <1>a, <1>b, <2>1 DEF SetConnectionBilling
  <2> HIDE DEF Tables
  <2> QED BY <1>0, <1>5, <1>d, <2>2 DEF SetConnectionBilling, Kept
<1>6. ASSUME NEW c \in Ids, DeleteConnection(c) \/ DeleteConnectionTorn(c)
      PROVE  RegTypeOK'
  <2>1. models' = Drop(models, ModelsOf(c))
        /\ (connections' = connections \/ connections' = Drop(connections, {c}))
        /\ UNCHANGED <<old, moves, role_models, embedding_on, uuids, cascade>> /\ up' \in BOOLEAN
        /\ (RefreshEmbeddingConfig \/ embedding' = Nothing)
    BY <1>0, <1>6 DEF DeleteConnection, DeleteConnectionTorn, Kept
  <2>2. Tables
    <3>1. IsTable(connections', Drawn, ConnRow)
      <4>1. IsTable(Drop(connections, {c}), Drawn, ConnRow)
        BY <1>a, DropTable
      <4> QED BY <1>a, <2>1, <4>1
    <3>2. IsTable(models', Drawn, ModelRow)
      BY <1>a, <2>1, DropTable
    <3> QED BY <1>a, <1>b, <2>1, <3>1, <3>2
  <2> HIDE DEF Tables
  <2> QED BY <1>0, <1>d, <2>1, <2>2
<1>7. ASSUME NEW c \in Ids, DeleteConnectionCascade(c)
      PROVE  RegTypeOK'
  <2>1. /\ cascade' = ConnectionReferencedBy(c) /\ role_models' = Drop(role_models, cascade')
        /\ models' = Drop(models, ModelsOf(c)) /\ connections' = Drop(connections, {c})
        /\ UNCHANGED <<old, up, moves, embedding_on, uuids>> /\ RefreshEmbeddingConfig
    BY <1>7 DEF DeleteConnectionCascade, Kept
  <2>2. Tables
    <3>1. IsTable(connections', Drawn, ConnRow)
      BY <1>a, <2>1, DropTable
    <3>2. IsTable(models', Drawn, ModelRow)
      BY <1>a, <2>1, DropTable
    <3>3. IsTable(role_models', Roles, RoleRow)
      BY <1>a, <2>1, DropTable
    <3> QED BY <1>a, <1>b, <2>1, <3>1, <3>2, <3>3
  <2>3. cascade' \subseteq Roles
    BY <2>1 DEF ConnectionReferencedBy, RegTypeOK, IsTable
  <2> QED BY <1>0, <2>1, <2>2, <2>3, CommandType
<1>8. ASSUME NEW c \in Ids, NEW n \in Names, NEW w \in Windows, AddModel(c, n, w)
      PROVE  RegTypeOK'
  <2>0. UNCHANGED <<old, up, moves, connections, role_models, embedding_on, embedding, cascade>>
        /\ c \in DOMAIN connections /\ c \in Drawn
    BY <1>8, <1>a DEF AddModel, Kept, IsTable
  <2>1. CASE \E i \in FindModelId(<<c, n>>) : models' = [models EXCEPT ![i].window = w] /\ uuids' = uuids
    <3>1. IsTable(models', Drawn, ModelRow)
      BY <2>1, <1>a DEF FindModelId, IsTable, ModelRow
    <3>2. Tables
      BY <1>a, <1>b, <2>0, <2>1, <3>1
    <3> HIDE DEF Tables
    <3> QED BY <1>0, <1>d, <2>0, <2>1, <3>2
  <2>2. CASE /\ uuids < MaxIds /\ uuids' = uuids + 1
             /\ models' = Put(models, uuids', [conn |-> c, name |-> n, window |-> w, price |-> "unset"])
    <3> DEFINE row == [conn |-> c, name |-> n, window |-> w, price |-> "unset"]
    <3>1. row \in ModelRow'
      BY <1>c, <2>0, <2>2 DEF ModelRow
    <3> HIDE DEF row
    <3>2. IsTable(models', Drawn', ModelRow')
      BY <1>c, <2>2, <3>1, PutTable DEF row
    <3> QED BY <1>0, <1>c, <2>0, <2>2, <3>2, CommandType
  <2> QED BY <1>8, <2>1, <2>2 DEF AddModel
<1>9. ASSUME NEW i \in Ids, NEW w \in Windows, NEW price \in Prices,
             UpdateModel(i, w) \/ SetModelPricing(i, price)
      PROVE  RegTypeOK'
  <2>1. IsTable(models', Drawn, ModelRow)
    BY <1>9, <1>a DEF UpdateModel, SetModelPricing, IsTable, ModelRow
  <2>2. Tables
    BY <1>9, <1>a, <1>b, <2>1 DEF UpdateModel, SetModelPricing
  <2> HIDE DEF Tables
  <2> QED BY <1>0, <1>9, <1>d, <2>2 DEF UpdateModel, SetModelPricing, Kept
<1>10. ASSUME NEW i \in Ids, DeleteModel(i) PROVE RegTypeOK'
  <2>1. Tables
    BY <1>10, <1>a, <1>b, DropTable DEF DeleteModel
  <2> HIDE DEF Tables
  <2> QED BY <1>0, <1>10, <1>d, <2>1 DEF DeleteModel, Kept
<1>11. ASSUME NEW i \in Ids, DeleteModelCascade(i) PROVE RegTypeOK'
  <2>1. /\ cascade' = ModelReferencedBy(i) /\ role_models' = Drop(role_models, cascade')
        /\ models' = Drop(models, {i})
        /\ UNCHANGED <<old, up, moves, connections, embedding_on, uuids>> /\ RefreshEmbeddingConfig
    BY <1>11 DEF DeleteModelCascade, Kept
  <2>2. Tables
    BY <1>a, <1>b, <2>1, DropTable
  <2>3. cascade' \subseteq Roles
    BY <2>1 DEF ModelReferencedBy, RegTypeOK, IsTable
  <2> QED BY <1>0, <2>1, <2>2, <2>3, CommandType
<1>12. ASSUME NEW r \in Roles, NEW i \in Ids, NEW on \in BOOLEAN, SetRoleAssignment(r, i, on)
       PROVE  RegTypeOK'
  <2> DEFINE row == [model |-> i, enabled |-> on]
  <2>1. row \in RoleRow
    BY <1>12 DEF SetRoleAssignment, RoleRow, RegTypeOK, IsTable
  <2>2. role_models' = Put(role_models, r, row)
    BY <1>12 DEF SetRoleAssignment
  <2> HIDE DEF row
  <2>3. IsTable(role_models', Roles, RoleRow)
    BY <1>a, <2>1, <2>2, PutTable
  <2>4. Tables
    BY <1>12, <1>a, <1>b, <2>3 DEF SetRoleAssignment
  <2> HIDE DEF Tables
  <2> QED BY <1>0, <1>12, <1>d, <2>4 DEF SetRoleAssignment, Kept
<1>13. ASSUME NEW r \in Roles, ClearRoleAssignment(r) PROVE RegTypeOK'
  <2>1. Tables
    BY <1>13, <1>a, <1>b, DropTable DEF ClearRoleAssignment
  <2> HIDE DEF Tables
  <2> QED BY <1>0, <1>13, <1>d, <2>1 DEF ClearRoleAssignment, Kept
<1>14. ASSUME NEW on \in BOOLEAN, SetAppSetting(on) PROVE RegTypeOK'
  <2>1. Tables
    BY <1>14, <1>a, <1>b DEF SetAppSetting, tables
  <2> HIDE DEF Tables
  <2> QED BY <1>0, <1>14, <1>d, <2>1 DEF SetAppSetting, Kept
<1>15. CASE UNCHANGED regvars
  <2>1. Tables
    BY <1>15, <1>a, <1>b DEF regvars, tables
  <2> HIDE DEF Tables
  <2> QED BY <1>0, <1>15, <1>d, <2>1 DEF regvars
<1>16. ASSUME ConnectionCommand PROVE RegTypeOK'
  BY <1>16, <1>3, <1>4, <1>5, <1>6, <1>7 DEF ConnectionCommand
<1>17. ASSUME ModelCommand PROVE RegTypeOK'
  BY <1>17, <1>8, <1>9, <1>10, <1>11 DEF ModelCommand
<1>18. ASSUME RoleCommand PROVE RegTypeOK'
  BY <1>18, <1>12, <1>13, <1>14 DEF RoleCommand
<1> QED BY <1>1, <1>2, <1>15, <1>16, <1>17, <1>18 DEF RegNext

(* Every table holds rows of its kind and refers to uuids that were drawn. *)
THEOREM RegTypeCorrect == RegSpec => []RegTypeOK
BY RegTypeInit, RegTypeStep, PTL DEF RegSpec

-----------------------------------------------------------------------------
(* One row for each connection and name. *)

(* Opening the database doubles no model.                                  *)
LEMMA StartUnique == RegTypeOK /\ ModelsUnique /\ Start => ModelsUnique'
<1> SUFFICES ASSUME RegTypeOK, ModelsUnique, Start PROVE ModelsUnique'
  OBVIOUS
<1>1. PICK drawn \in 0..MaxIds :
        MigrateToModelsLayer0060(assignments, uuids + 1, models', role_models', drawn)
  BY DEF Start
<1> DEFINE first_id == uuids + 1
<1>2. uuids \in Nat /\ drawn \in Nat /\ first_id \in Nat /\ uuids < first_id
  BY RegistryAssumption DEF RegTypeOK
<1>3. IsTable(assignments, Roles, [conn : Drawn, name : Names, window : Windows, enabled : BOOLEAN])
  BY DEF RegTypeOK, AssignRow
<1>4. CASE ~Empty(role_models) \/ Empty(assignments)
  <2>1. models' = models
    BY <1>1, <1>4 DEF MigrateToModelsLayer0060
  <2> QED BY <2>1 DEF ModelsUnique
<1>5. CASE Empty(role_models) /\ ~Empty(assignments)
  <2>1. MigrateToModelsLayer0060(assignments, first_id, models', role_models', drawn)
    BY <1>1
  <2> HIDE DEF first_id
  <2>2. OneEach(models')
    BY <1>2, <1>3, <1>5, <2>1, Moved0060
  <2> QED BY <2>2 DEF OneEach, ModelsUnique
<1> QED BY <1>4, <1>5

(* Commands drop rows, leave connection and name of a row alone, or add the *)
(* row that was looked for and not found.                                  *)
LEMMA CommandUnique ==
  ASSUME RegTypeOK, ModelsUnique, Quit \/ ConnectionCommand \/ ModelCommand \/ RoleCommand
  PROVE  ModelsUnique'
<1>1. IsTable(models, Drawn, ModelRow) /\ uuids \in Nat
  BY RegistryAssumption DEF RegTypeOK
<1>2. ASSUME DOMAIN models' \subseteq DOMAIN models,
             \A i \in DOMAIN models' : models'[i].conn = models[i].conn /\ models'[i].name = models[i].name
      PROVE  ModelsUnique'
  BY <1>2 DEF ModelsUnique
<1>3. ASSUME NEW D, models' = Drop(models, D) PROVE ModelsUnique'
  <2>1. DOMAIN models' = DOMAIN models \ D /\ \A i \in DOMAIN models \ D : models'[i] = models[i]
    BY <1>3 DEF Drop
  <2> QED BY <1>2, <2>1
<1>4. ASSUME UNCHANGED models PROVE ModelsUnique'
  BY <1>2, <1>4
<1>5. CASE Quit \/ RoleCommand
  BY <1>4, <1>5 DEF Quit, RoleCommand, SetRoleAssignment, ClearRoleAssignment, SetAppSetting, tables
<1>6. CASE ConnectionCommand
  <2>1. UNCHANGED models \/ \E D : models' = Drop(models, D)
    BY <1>6 DEF ConnectionCommand, CreateConnection, EditConnection, SetConnectionBilling,
                DeleteConnection, DeleteConnectionTorn, DeleteConnectionCascade
  <2> QED BY <1>3, <1>4, <2>1
<1>7. CASE ModelCommand
  <2>1. CASE \E c \in Ids, n \in Names, w \in Windows : AddModel(c, n, w)
    <3>1. PICK c \in Ids, n \in Names, w \in Windows : AddModel(c, n, w)
      BY <2>1
    <3>2. CASE \E i \in FindModelId(<<c, n>>) : models' = [models EXCEPT ![i].window = w]
      BY <1>1, <1>2, <3>2 DEF FindModelId, IsTable, ModelRow
    <3>3. CASE /\ FindModelId(<<c, n>>) = {} /\ uuids' = uuids + 1
               /\ models' = Put(models, uuids', [conn |-> c, name |-> n, window |-> w, price |-> "unset"])
      <4> DEFINE row == [conn |-> c, name |-> n, window |-> w, price |-> "unset"]
      <4>1. row.conn = c /\ row.name = n
        OBVIOUS
      <4>2. /\ DOMAIN models' = DOMAIN models \cup {uuids'} /\ models'[uuids'] = row
            /\ \A i \in DOMAIN models : i # uuids' => models'[i] = models[i]
        BY <3>3 DEF Put
      <4>3. uuids' \notin DOMAIN models
        BY <1>1, <3>3 DEF IsTable, Drawn
      <4> HIDE DEF row
      <4>4. \A i \in DOMAIN models : models[i].conn # c \/ models[i].name # n
        BY <3>3 DEF FindModelId
      <4> QED BY <4>1, <4>2, <4>3, <4>4 DEF ModelsUnique
    <3> QED BY <3>1, <3>2, <3>3 DEF AddModel
  <2>2. CASE \E i \in Ids : DeleteModel(i) \/ DeleteModelCascade(i)
    <3>1. \E D : models' = Drop(models, D)
      BY <2>2 DEF DeleteModel, DeleteModelCascade
    <3> QED BY <1>3, <3>1
  <2>3. CASE \E i \in Ids : (\E w \in Windows : UpdateModel(i, w)) \/ (\E price \in Prices : SetModelPricing(i, price))
    BY <1>1, <1>2, <2>3 DEF UpdateModel, SetModelPricing, IsTable, ModelRow
  <2> QED BY <1>7, <2>1, <2>2, <2>3 DEF ModelCommand
<1> QED BY <1>5, <1>6, <1>7

(* A model that is there by connection and name is edited, never doubled    *)
(* (upsert_model, crates/storage/src/lib.rs), also by the migrations.       *)
THEOREM ModelsAreUnique == RegSpec => []ModelsUnique
<1>1. RegInit => RegTypeOK /\ ModelsUnique
  BY RegTypeInit DEF RegInit, ModelsUnique
<1>2. RegTypeOK /\ ModelsUnique /\ [RegNext]_regvars => (RegTypeOK /\ ModelsUnique)'
  <2> SUFFICES ASSUME RegTypeOK, ModelsUnique, [RegNext]_regvars PROVE ModelsUnique'
    BY RegTypeStep
  <2>1. CASE UNCHANGED regvars
    BY <2>1 DEF regvars, tables, ModelsUnique
  <2>2. CASE OpenConnections
    BY <2>2 DEF OpenConnections, ModelsUnique
  <2> QED BY <2>1, <2>2, StartUnique, CommandUnique DEF RegNext
<1> QED BY <1>1, <1>2, PTL DEF RegSpec

-----------------------------------------------------------------------------
(* Chains from roles to connections. *)

(* A database with older rows that no process has opened yet. *)
Unopened ==
  /\ ~up /\ Empty(models) /\ Empty(role_models)
  /\ \A r \in DOMAIN assignments : assignments[r].conn \in DOMAIN connections

(* ChainsComplete is not inductive: the move that a start makes is from    *)
(* assignments whose connections are all there only because nothing could  *)
(* be deleted before it.  Without older rows there is no move.             *)
BeforeTheMove == moves = 0 => (Empty(legacy) /\ Empty(assignments)) \/ Unopened

ChainInv == BeforeTheMove /\ ChainsComplete

AllComplete ==
  /\ \A r \in DOMAIN role_models : Complete(r)
  /\ \A i \in DOMAIN models : models[i].conn \in DOMAIN connections

(* No command breaks a chain. *)
LEMMA CommandSound ==
  RegTypeOK /\ AllComplete /\ (ConnectionCommand \/ ModelCommand \/ RoleCommand) => AllComplete'
<1> SUFFICES ASSUME RegTypeOK, AllComplete, ConnectionCommand \/ ModelCommand \/ RoleCommand
             PROVE  AllComplete'
  OBVIOUS
<1>0. /\ DOMAIN connections \subseteq 1..uuids /\ DOMAIN models \subseteq 1..uuids
      /\ DOMAIN role_models \subseteq Roles /\ uuids \in Nat
  BY RegistryAssumption DEF RegTypeOK, IsTable, Drawn
<1>00. uuids + 1 \notin DOMAIN connections /\ uuids + 1 \notin DOMAIN models
  BY <1>0
<1>1. ASSUME NEW e \in Endpoints, NEW k \in Keys, CreateConnection(e, k) PROVE AllComplete'
  <2>1. /\ connections' = Put(connections, uuids + 1, [endpoint |-> e, key |-> k, billing |-> "api"])
        /\ models' = models /\ role_models' = role_models
    BY <1>1 DEF CreateConnection
  <2>2. DOMAIN connections \subseteq DOMAIN connections'
    BY <2>1 DEF Put
  <2> QED BY <2>1, <2>2 DEF AllComplete, Complete
<1>2. ASSUME NEW c \in Ids, NEW e \in Endpoints, NEW typed, NEW b \in Billings,
             EditConnection(c, e, typed) \/ SetConnectionBilling(c, b)
      PROVE  AllComplete'
  <2>1. DOMAIN connections' = DOMAIN connections /\ models' = models /\ role_models' = role_models
    BY <1>2 DEF EditConnection, SetConnectionBilling
  <2> QED BY <2>1 DEF AllComplete, Complete
<1>3. ASSUME NEW c \in Ids, DeleteConnection(c) \/ DeleteConnectionTorn(c) \/ DeleteConnectionCascade(c)
      PROVE  AllComplete'
  <2>1. /\ models' = Drop(models, ModelsOf(c))
        /\ connections' = connections \/ connections' = Drop(connections, {c})
        /\ role_models' = Drop(role_models, ConnectionReferencedBy(c))
    <3>1. ConnectionReferencedBy(c) = {} => Drop(role_models, ConnectionReferencedBy(c)) = role_models
      BY DEF Drop, RegTypeOK, IsTable
    <3> QED BY <1>3, <3>1 DEF DeleteConnection, DeleteConnectionTorn, DeleteConnectionCascade
  <2>2. ASSUME NEW i \in DOMAIN models'
        PROVE  models'[i] = models[i] /\ models[i].conn \in DOMAIN connections'
    BY <2>1 DEF Drop, ModelsOf, AllComplete
  <2>3. ASSUME NEW r \in DOMAIN role_models' PROVE Complete(r)'
    <3>1. /\ r \in DOMAIN role_models /\ role_models'[r] = role_models[r]
          /\ role_models[r].model \notin ModelsOf(c)
      BY <2>1 DEF Drop, ConnectionReferencedBy
    <3>2. role_models[r].model \in DOMAIN models'
      BY <2>1, <3>1 DEF AllComplete, Complete, Drop
    <3> QED BY <2>2, <3>1, <3>2 DEF Complete
  <2> QED BY <2>2, <2>3 DEF AllComplete
<1>4. ASSUME NEW c \in Ids, NEW n \in Names, NEW w \in Windows, AddModel(c, n, w)
      PROVE  AllComplete'
  <2>1. c \in DOMAIN connections /\ connections' = connections /\ role_models' = role_models
    BY <1>4 DEF AddModel
  <2>2. /\ DOMAIN models \subseteq DOMAIN models'
        /\ \A i \in DOMAIN models : models'[i].conn = models[i].conn
        /\ \A i \in DOMAIN models' \ DOMAIN models : models'[i].conn = c
    <3>1. CASE \E i \in FindModelId(<<c, n>>) : models' = [models EXCEPT ![i].window = w]
      <4>1. \A i \in DOMAIN models : models[i] \in ModelRow
        BY DEF RegTypeOK, IsTable
      <4> QED BY <3>1, <4>1 DEF ModelRow
    <3>2. CASE models' = Put(models, uuids + 1, [conn |-> c, name |-> n, window |-> w, price |-> "unset"])
      BY <1>00, <3>2 DEF Put
    <3> QED BY <1>4, <3>1, <3>2 DEF AddModel
  <2> QED BY <2>1, <2>2 DEF AllComplete, Complete
<1>5. ASSUME NEW i \in Ids, NEW w \in Windows, NEW price \in Prices,
             UpdateModel(i, w) \/ SetModelPricing(i, price)
      PROVE  AllComplete'
  <2>1. \A j \in DOMAIN models : models[j] \in ModelRow
    BY DEF RegTypeOK, IsTable
  <2>2. /\ DOMAIN models' = DOMAIN models
        /\ \A j \in DOMAIN models : models'[j].conn = models[j].conn
        /\ connections' = connections /\ role_models' = role_models
    BY <1>5, <2>1 DEF UpdateModel, SetModelPricing, ModelRow
  <2> QED BY <2>2 DEF AllComplete, Complete
<1>6. ASSUME NEW i \in Ids, DeleteModel(i) \/ DeleteModelCascade(i) PROVE AllComplete'
  <2>1. /\ models' = Drop(models, {i}) /\ connections' = connections
        /\ role_models' = Drop(role_models, ModelReferencedBy(i))
    <3>1. ModelReferencedBy(i) = {} => Drop(role_models, ModelReferencedBy(i)) = role_models
      BY DEF Drop, RegTypeOK, IsTable
    <3> QED BY <1>6, <3>1 DEF DeleteModel, DeleteModelCascade
  <2> QED BY <2>1 DEF AllComplete, Complete, Drop, ModelReferencedBy
<1>7. ASSUME NEW r \in Roles, NEW i \in Ids, NEW on \in BOOLEAN, SetRoleAssignment(r, i, on)
      PROVE  AllComplete'
  <2>1. /\ i \in DOMAIN models /\ connections' = connections /\ models' = models
        /\ role_models' = Put(role_models, r, [model |-> i, enabled |-> on])
    BY <1>7 DEF SetRoleAssignment
  <2> QED BY <2>1 DEF AllComplete, Complete, Put
<1>8. ASSUME NEW r \in Roles, ClearRoleAssignment(r) PROVE AllComplete'
  <2>1. connections' = connections /\ models' = models /\ role_models' = Drop(role_models, {r})
    BY <1>8 DEF ClearRoleAssignment
  <2> QED BY <2>1 DEF AllComplete, Complete, Drop
<1>9. ASSUME NEW on \in BOOLEAN, SetAppSetting(on) PROVE AllComplete'
  BY <1>9 DEF SetAppSetting, tables, AllComplete, Complete
<1>10. ASSUME ConnectionCommand PROVE AllComplete'
  <2>1. \/ \E e \in Endpoints, k \in Keys : CreateConnection(e, k)
        \/ \E c \in Ids, e \in Endpoints, typed \in {{}} \cup {{k} : k \in Keys} :
             EditConnection(c, e, typed)
        \/ \E c \in Ids, b \in Billings : SetConnectionBilling(c, b)
        \/ \E c \in Ids : DeleteConnection(c) \/ DeleteConnectionTorn(c) \/ DeleteConnectionCascade(c)
    BY <1>10 DEF ConnectionCommand
  <2>2. "api" \in Billings
    BY RegistryAssumption
  <2>3. ASSUME NEW c \in Ids, NEW b \in Billings, SetConnectionBilling(c, b) PROVE AllComplete'
    <3>1. DOMAIN connections' = DOMAIN connections /\ models' = models /\ role_models' = role_models
      BY <2>3 DEF SetConnectionBilling
    <3> QED BY <3>1 DEF AllComplete, Complete
  <2> QED BY <1>1, <1>2, <1>3, <2>1, <2>2, <2>3
<1>11. ASSUME ModelCommand PROVE AllComplete'
  <2>1. 0 \in Windows /\ "unset" \in Prices
    BY RegistryAssumption
  <2> QED BY <1>4, <1>5, <1>6, <1>11, <2>1 DEF ModelCommand
<1>12. ASSUME RoleCommand PROVE AllComplete'
  BY <1>7, <1>8, <1>9, <1>12 DEF RoleCommand
<1> QED BY <1>10, <1>11, <1>12

(* The first migration of a database nothing was deleted from gives every  *)
(* assignment a connection that is there, and keeps those there are.       *)
LEMMA ConnectionsChains ==
  RegTypeOK /\ ChainInv /\ OpenConnections => ChainInv'
<1> SUFFICES ASSUME RegTypeOK, ChainInv, OpenConnections PROVE ChainInv'
  OBVIOUS
<1>1. PICK drawn \in 0..MaxIds : MigrateToConnections0059(connections', assignments', drawn)
  BY DEF OpenConnections
<1>2. drawn \in Nat
  BY RegistryAssumption
<1>3. ConnectionsKept(connections', 1..(uuids + drawn)) /\ AssignedAsRows(connections', assignments')
  BY <1>1, <1>2, Moved0059
<1>4. DOMAIN connections \subseteq DOMAIN connections'
  BY <1>3 DEF ConnectionsKept
<1>5. /\ models' = models /\ role_models' = role_models /\ legacy' = legacy
      /\ moves' = moves /\ up' = up
  BY DEF OpenConnections
<1>6. ChainsComplete'
  BY <1>4, <1>5 DEF ChainInv, ChainsComplete, Complete
<1>7. ASSUME Unopened PROVE Unopened'
  <2>1. \A r \in DOMAIN assignments' : assignments'[r].conn \in DOMAIN connections'
    BY <1>3, <1>4, <1>7 DEF AssignedAsRows, Unopened
  <2> QED BY <1>5, <1>7, <2>1 DEF Unopened, Empty
<1>8. ASSUME Empty(legacy), Empty(assignments) PROVE Empty(legacy)' /\ Empty(assignments)'
  BY <1>3, <1>5, <1>8 DEF AssignedAsRows, Empty
<1> QED BY <1>5, <1>6, <1>7, <1>8 DEF ChainInv, BeforeTheMove

(* A start keeps every chain, or moves rows.  The first move is from a     *)
(* database nothing was deleted from.                                      *)
LEMMA StartChains ==
  RegTypeOK /\ ChainInv /\ Start => ChainInv'
<1> SUFFICES ASSUME RegTypeOK, ChainInv, Start PROVE ChainInv'
  OBVIOUS
<1>1. PICK drawn \in 0..MaxIds :
        MigrateToModelsLayer0060(assignments, uuids + 1, models', role_models', drawn)
  BY DEF Start
<1> DEFINE first_id == uuids + 1
<1>2. uuids \in Nat /\ drawn \in Nat /\ moves \in Nat /\ first_id \in Nat /\ uuids < first_id
  BY RegistryAssumption DEF RegTypeOK
<1>3. IsTable(assignments, Roles, [conn : Drawn, name : Names, window : Windows, enabled : BOOLEAN])
  BY DEF RegTypeOK, AssignRow
<1>4. ~Empty(assignments) \/ Empty(legacy)
  BY DEF Start
<1>5. /\ legacy' = legacy /\ assignments' = assignments /\ connections' = connections
      /\ moves' = IF Empty(role_models) /\ ~Empty(role_models') THEN moves + 1 ELSE moves
  BY DEF Start, old
<1>6. CASE ~Empty(role_models) \/ Empty(assignments)
  <2>1. models' = models /\ role_models' = role_models
    BY <1>1, <1>6 DEF MigrateToModelsLayer0060
  <2>2. moves' = moves
    BY <1>5, <2>1 DEF Empty
  <2>3. ChainsComplete'
    BY <1>5, <2>1, <2>2 DEF ChainInv, ChainsComplete, Complete
  <2>4. BeforeTheMove'
    BY <1>4, <1>5, <1>6, <2>2 DEF ChainInv, BeforeTheMove, Unopened, Empty
  <2> QED BY <2>3, <2>4 DEF ChainInv
<1>7. CASE Empty(role_models) /\ ~Empty(assignments)
  <2>1. /\ RolesAsAssigned(assignments, models', role_models')
        /\ ModelsAsAssigned(assignments, Drawn, first_id, models', drawn)
    <3>1. MigrateToModelsLayer0060(assignments, first_id, models', role_models', drawn)
      BY <1>1
    <3> HIDE DEF first_id
    <3> QED BY <1>2, <1>3, <1>7, <3>1, Moved0060
  <2>2. ~Empty(role_models') /\ moves' = moves + 1
    BY <1>5, <1>7, <2>1 DEF RolesAsAssigned, Empty
  <2>3. BeforeTheMove'
    BY <1>2, <2>2 DEF BeforeTheMove
  <2>4. ASSUME moves = 0 PROVE AllComplete'
    <3>1. Unopened
      BY <1>7, <2>4 DEF ChainInv, BeforeTheMove
    <3>2. \A r \in DOMAIN assignments : assignments[r].conn \in DOMAIN connections'
      BY <1>5, <3>1 DEF Unopened
    <3>3. \A i \in DOMAIN models' : models'[i].conn \in DOMAIN connections'
      BY <2>1, <3>1, <3>2 DEF ModelsAsAssigned, Unopened, Empty
    <3>4. \A r \in DOMAIN role_models' : role_models'[r].model \in DOMAIN models'
      BY <2>1 DEF RolesAsAssigned
    <3> QED BY <3>3, <3>4 DEF AllComplete, Complete
  <2>5. ChainsComplete'
    BY <1>2, <2>2, <2>4 DEF ChainsComplete, AllComplete
  <2> QED BY <2>3, <2>5 DEF ChainInv
<1> QED BY <1>6, <1>7

(* Every step keeps the strengthened invariant. *)
LEMMA ChainStep == RegTypeOK /\ ChainInv /\ [RegNext]_regvars => ChainInv'
<1> SUFFICES ASSUME RegTypeOK, ChainInv, [RegNext]_regvars PROVE ChainInv'
  OBVIOUS
<1>1. CASE OpenConnections \/ Start
  BY <1>1, ConnectionsChains, StartChains
<1>2. CASE ConnectionCommand \/ ModelCommand \/ RoleCommand
  <2>1. up /\ UNCHANGED <<legacy, assignments, moves>>
    BY <1>2 DEF ConnectionCommand, ModelCommand, RoleCommand, CreateConnection, EditConnection,
       SetConnectionBilling, DeleteConnection, DeleteConnectionTorn, DeleteConnectionCascade,
       AddModel, UpdateModel, SetModelPricing, DeleteModel, DeleteModelCascade,
       SetRoleAssignment, ClearRoleAssignment, SetAppSetting, Kept, old
  <2>2. BeforeTheMove'
    BY <2>1 DEF ChainInv, BeforeTheMove, Unopened, Empty
  <2>3. ChainsComplete'
    BY <1>2, <2>1, CommandSound DEF ChainInv, ChainsComplete, AllComplete
  <2> QED BY <2>2, <2>3 DEF ChainInv
<1>3. CASE Quit
  BY <1>3 DEF Quit, old, tables, ChainInv, BeforeTheMove, Unopened, Empty, ChainsComplete, Complete
<1>4. CASE UNCHANGED regvars
  BY <1>4 DEF regvars, old, tables, ChainInv, BeforeTheMove, Unopened, Empty, ChainsComplete, Complete
<1> QED BY <1>1, <1>2, <1>3, <1>4 DEF RegNext

(* A database nobody opened is as Unopened says. *)
LEMMA ChainInit == RegInit => ChainInv
BY DEF RegInit, ChainInv, BeforeTheMove, Unopened, Empty, ChainsComplete, Complete

(* The strengthened invariant holds throughout. *)
LEMMA ChainCorrect == RegSpec => []ChainInv
<1>1. RegTypeOK /\ ChainInv /\ [RegNext]_regvars => RegTypeOK' /\ ChainInv'
  BY RegTypeStep, ChainStep
<1> QED BY <1>1, RegTypeInit, ChainInit, PTL DEF RegSpec

(* Every role reaches a connection, whatever was deleted, until rows are   *)
(* moved a second time.                                                    *)
THEOREM ChainsAreComplete == RegSpec => []ChainsComplete
BY ChainCorrect, PTL DEF ChainInv

-----------------------------------------------------------------------------
(* The snapshot of the process. *)

(* The snapshot depends on the setting, and on the switch and the endpoint *)
(* and key that embed and main reach.                                      *)
SameAnswer(r) ==
  /\ Complete(r)' <=> Complete(r)
  /\ Complete(r) =>
       /\ role_models'[r].enabled = role_models[r].enabled
       /\ LET c  == connections[models[role_models[r].model].conn]
              cc == connections'[models'[role_models'[r].model].conn]
          IN cc.endpoint = c.endpoint /\ cc.key = c.key

(* Then the snapshot derived from them is the same. *)
LEMMA SameSnapshot ==
  ASSUME embedding_on' = embedding_on, SameAnswer(Embed), SameAnswer(Main)
  PROVE  EmbeddingConfig' = EmbeddingConfig
<1>1. (OwnRole(Embed)' <=> OwnRole(Embed)) /\ ~OwnRole(Main) /\ ~OwnRole(Main)'
  BY DEF OwnRole, SameAnswer
<1>2. PICK owner \in {Embed, Main} :
        /\ ResolveRoleProvider(Embed) = SynthesizeRoleProvider(owner)
        /\ ResolveRoleProvider(Embed)' = SynthesizeRoleProvider(owner)'
        /\ SameAnswer(owner)
  BY <1>1 DEF ResolveRoleProvider
<1> DEFINE c1 == connections[models[role_models[owner].model].conn]
           c2 == connections'[models'[role_models'[owner].model].conn]
           m1 == models[role_models[owner].model]
           m2 == models'[role_models'[owner].model]
           old_provider == SynthesizeRoleProvider(owner)
           new_provider == SynthesizeRoleProvider(owner)'
<1>3. \/ old_provider = Nothing /\ new_provider = Nothing
      \/ /\ old_provider # Nothing /\ new_provider # Nothing
         /\ old_provider.endpoint = new_provider.endpoint
         /\ old_provider.key = new_provider.key
  <2>1. CASE Complete(owner)
    <3>1. Complete(owner)' /\ c1.endpoint = c2.endpoint /\ c1.key = c2.key
      BY <1>2, <2>1 DEF SameAnswer
    <3>2. /\ old_provider = [endpoint |-> c1.endpoint, key |-> c1.key,
                             name |-> m1.name, window |-> m1.window]
          /\ new_provider = [endpoint |-> c2.endpoint, key |-> c2.key,
                             name |-> m2.name, window |-> m2.window]
      BY <2>1, <3>1 DEF SynthesizeRoleProvider
    <3> HIDE DEF old_provider, new_provider, c1, c2, m1, m2
    <3> QED BY <3>1, <3>2 DEF Nothing
  <2>2. CASE ~Complete(owner)
    BY <1>2, <2>2 DEF SameAnswer, SynthesizeRoleProvider
  <2> QED BY <2>1, <2>2
<1>4. /\ EmbeddingConfig = ResolveEmbeddingConfig(embedding_on, old_provider)
      /\ EmbeddingConfig' = ResolveEmbeddingConfig(embedding_on, new_provider)
  BY <1>2 DEF EmbeddingConfig, ResolveEmbeddingConfig
<1> HIDE DEF old_provider, new_provider
<1> QED BY <1>3, <1>4 DEF ResolveEmbeddingConfig

(* Every step that leaves the process running derives the snapshot again   *)
(* or leaves what it depends on.                                           *)
LEMMA SnapshotStep ==
  RegTypeOK /\ SnapshotFresh /\ [RegNext]_regvars => SnapshotFresh'
<1> SUFFICES ASSUME RegTypeOK, SnapshotFresh, [RegNext]_regvars, up'
             PROVE  embedding' = EmbeddingConfig'
  BY DEF SnapshotFresh
<1>0. /\ DOMAIN models \subseteq 1..uuids /\ \A i \in DOMAIN models : models[i] \in ModelRow
      /\ \A c \in DOMAIN connections : connections[c] \in ConnRow
      /\ \A r \in DOMAIN role_models : role_models[r] \in RoleRow
      /\ uuids \in Nat
  BY RegistryAssumption DEF RegTypeOK, IsTable, Drawn
<1>1. ASSUME RefreshEmbeddingConfig PROVE embedding' = EmbeddingConfig'
  BY <1>1 DEF RefreshEmbeddingConfig
<1>2. ASSUME up, embedding' = embedding, embedding_on' = embedding_on,
             SameAnswer(Embed), SameAnswer(Main)
      PROVE  embedding' = EmbeddingConfig'
  BY <1>2, SameSnapshot DEF SnapshotFresh
<1>3. ASSUME NEW c \in Ids, NEW b \in Billings, SetConnectionBilling(c, b)
      PROVE  embedding' = EmbeddingConfig'
  <2>1. ASSUME NEW r PROVE SameAnswer(r)
    BY <1>0, <1>3 DEF SetConnectionBilling, SameAnswer, Complete, ConnRow
  <2> QED BY <1>2, <1>3, <2>1 DEF SetConnectionBilling, Kept
<1>4. ASSUME NEW c \in Ids, NEW n \in Names, NEW w \in Windows, AddModel(c, n, w)
      PROVE  embedding' = EmbeddingConfig'
  <2>1. /\ up /\ embedding' = embedding /\ embedding_on' = embedding_on
        /\ connections' = connections /\ role_models' = role_models
    BY <1>4 DEF AddModel
  <2>2. /\ DOMAIN models' = DOMAIN models \/ DOMAIN models' = DOMAIN models \cup {uuids + 1}
        /\ \A i \in DOMAIN models : models'[i].conn = models[i].conn
    <3>1. CASE \E i \in FindModelId(<<c, n>>) : models' = [models EXCEPT ![i].window = w]
      BY <1>0, <3>1 DEF ModelRow
    <3>2. CASE models' = Put(models, uuids + 1, [conn |-> c, name |-> n, window |-> w, price |-> "unset"])
      <4>1. uuids + 1 \notin DOMAIN models
        BY <1>0
      <4> QED BY <3>2, <4>1 DEF Put
    <3> QED BY <1>4, <3>1, <3>2 DEF AddModel
  <2>3. \A r \in DOMAIN role_models : role_models[r].model # uuids + 1
    BY <1>0 DEF RoleRow, Drawn
  <2>4. ASSUME NEW r PROVE SameAnswer(r)
    BY <2>1, <2>2, <2>3 DEF SameAnswer, Complete
  <2> QED BY <1>2, <2>1, <2>4
<1>5. ASSUME NEW r \in Roles, NEW i, NEW on \in BOOLEAN,
             SetRoleAssignment(r, i, on) \/ ClearRoleAssignment(r)
      PROVE  embedding' = EmbeddingConfig'
  <2>1. CASE r \in {Main, Embed}
    BY <1>1, <1>5, <2>1 DEF SetRoleAssignment, ClearRoleAssignment
  <2>2. CASE r \notin {Main, Embed}
    <3>1. /\ up /\ embedding' = embedding /\ embedding_on' = embedding_on
          /\ connections' = connections /\ models' = models
          /\ \/ role_models' = Drop(role_models, {r})
             \/ role_models' = Put(role_models, r, [model |-> i, enabled |-> on])
      BY <1>5, <2>2 DEF SetRoleAssignment, ClearRoleAssignment
    <3>2. \A q : q # r => /\ q \in DOMAIN role_models' <=> q \in DOMAIN role_models
                          /\ q \in DOMAIN role_models => role_models'[q] = role_models[q]
      BY <3>1 DEF Put, Drop
    <3>3. ASSUME NEW q, q # r PROVE SameAnswer(q)
      BY <3>1, <3>2, <3>3 DEF SameAnswer, Complete
    <3> QED BY <1>2, <2>2, <3>1, <3>3
  <2> QED BY <2>1, <2>2
<1>6. CASE UNCHANGED regvars
  <2>1. SameAnswer(Embed) /\ SameAnswer(Main)
    BY <1>6 DEF regvars, tables, SameAnswer, Complete
  <2> QED BY <1>2, <1>6, <2>1 DEF regvars
<1>7. CASE OpenConnections \/ Start
  BY <1>1, <1>7 DEF OpenConnections, Start
<1>8. CASE Quit
  BY <1>8 DEF Quit
<1>9. CASE ConnectionCommand
  BY <1>1, <1>3, <1>9 DEF ConnectionCommand, CreateConnection, EditConnection,
     DeleteConnection, DeleteConnectionTorn, DeleteConnectionCascade
<1>10. CASE ModelCommand
  BY <1>1, <1>4, <1>10 DEF ModelCommand, UpdateModel, SetModelPricing, DeleteModel, DeleteModelCascade
<1>11. CASE RoleCommand
  <2>1. CASE \E r \in Roles, i \in Ids, on \in BOOLEAN : SetRoleAssignment(r, i, on)
    BY <1>5, <2>1
  <2>2. CASE \E r \in Roles : ClearRoleAssignment(r)
    BY <1>5, <2>2
  <2>3. CASE \E on \in BOOLEAN : SetAppSetting(on)
    BY <1>1, <2>3 DEF SetAppSetting
  <2> QED BY <1>11, <2>1, <2>2, <2>3 DEF RoleCommand
<1> QED BY <1>6, <1>7, <1>8, <1>9, <1>10, <1>11 DEF RegNext

(* While the process runs, the endpoint and key it ranks code with are what *)
(* the tables say.                                                         *)
THEOREM SnapshotIsFresh == RegSpec => []SnapshotFresh
<1>1. RegInit => SnapshotFresh
  BY DEF RegInit, SnapshotFresh
<1>2. RegTypeOK /\ SnapshotFresh /\ [RegNext]_regvars => RegTypeOK' /\ SnapshotFresh'
  BY RegTypeStep, SnapshotStep
<1> QED BY <1>1, <1>2, RegTypeInit, PTL DEF RegSpec

-----------------------------------------------------------------------------
(* What the migrations keep. *)

(* The first one gives every role the row it had. *)
LEMMA RowsAreKept ==
  ASSUME RegTypeOK, ChainInv, [RegNext]_regvars, moves = 0, assignments' # assignments,
         NEW r \in Roles
  PROVE  /\ OldOwners(r)' = OldOwners(r)
         /\ \A s \in OldOwners(r) : OldRow(s)' = OldRow(s)
<1>1. OpenConnections
  BY DEF RegNext, regvars, Start, Quit, ConnectionCommand, ModelCommand, RoleCommand, CreateConnection,
     EditConnection, SetConnectionBilling, DeleteConnection, DeleteConnectionTorn,
     DeleteConnectionCascade, AddModel, UpdateModel, SetModelPricing, DeleteModel,
     DeleteModelCascade, SetRoleAssignment, ClearRoleAssignment, SetAppSetting, Kept, old
<1>2. PICK drawn \in 0..MaxIds : MigrateToConnections0059(connections', assignments', drawn)
  BY <1>1 DEF OpenConnections
<1>3. drawn \in Nat
  BY RegistryAssumption
<1>4. AssignedAsRows(connections', assignments') /\ legacy' = legacy
  BY <1>1, <1>2, <1>3, Moved0059 DEF OpenConnections
<1>5. /\ Empty(assignments) /\ ~Empty(legacy) /\ DOMAIN assignments' = DOMAIN legacy
      /\ \A s \in DOMAIN legacy :
           /\ assignments'[s].conn \in DOMAIN connections'
           /\ Triple(connections'[assignments'[s].conn]) = Triple(legacy[s])
           /\ assignments'[s] = [conn |-> assignments'[s].conn, name |-> legacy[s].name,
                                 window |-> legacy[s].window, enabled |-> legacy[s].enabled]
  BY <1>4 DEF AssignedAsRows
<1>6. ~Empty(assignments)'
  BY <1>5 DEF Empty
<1>7. ASSUME NEW s \in DOMAIN legacy
      PROVE  OldRow(s)' = OldRow(s) /\ assignments'[s].enabled = legacy[s].enabled
  <2>1. /\ assignments'[s].name = legacy[s].name /\ assignments'[s].window = legacy[s].window
        /\ assignments'[s].enabled = legacy[s].enabled
    BY <1>5, <1>7
  <2>2. /\ connections'[assignments'[s].conn].endpoint = legacy[s].endpoint
        /\ connections'[assignments'[s].conn].key = legacy[s].key
    BY <1>5, <1>7 DEF Triple
  <2> QED BY <1>5, <1>6, <2>1, <2>2 DEF OldRow
<1>8. OldOwners(r) \subseteq DOMAIN legacy
  BY <1>5 DEF OldOwners
<1>9. OldOwners(r)' = OldOwners(r)
  BY <1>5, <1>6, <1>7 DEF OldOwners
<1> QED BY <1>7, <1>8, <1>9

(* A role that had a row resolves, in the new layers, to that row.         *)
LEMMA FirstMove ==
  ASSUME RegTypeOK, ChainInv, Start, moves = 0, moves' = 1
  PROVE  /\ ~Empty(assignments) /\ DOMAIN role_models' = DOMAIN assignments
         /\ \A r \in DOMAIN assignments :
              /\ Complete(r)'
              /\ role_models'[r].enabled = assignments[r].enabled
              /\ SameModel(OldRow(r), SynthesizeRoleProvider(r)')
              /\ r = Main /\ OldRow(r).window # 0 =>
                   SynthesizeRoleProvider(r)'.window = OldRow(r).window
<1>1. PICK drawn \in 0..MaxIds :
        MigrateToModelsLayer0060(assignments, uuids + 1, models', role_models', drawn)
  BY DEF Start
<1> DEFINE first_id == uuids + 1
<1>2. uuids \in Nat /\ drawn \in Nat /\ first_id \in Nat /\ uuids < first_id
  BY RegistryAssumption DEF RegTypeOK
<1>3. Empty(role_models) /\ ~Empty(role_models') /\ connections' = connections
  BY DEF Start
<1>4. ~Empty(assignments)
  BY <1>1, <1>3 DEF MigrateToModelsLayer0060
<1>5. IsTable(assignments, Roles, [conn : Drawn, name : Names, window : Windows, enabled : BOOLEAN])
  BY DEF RegTypeOK, AssignRow
<1>6. RolesAsAssigned(assignments, models', role_models')
  <2>1. MigrateToModelsLayer0060(assignments, first_id, models', role_models', drawn)
    BY <1>1
  <2> HIDE DEF first_id
  <2> QED BY <1>2, <1>3, <1>4, <1>5, <2>1, Moved0060
<1>7. Unopened
  BY <1>4 DEF ChainInv, BeforeTheMove
<1> HIDE DEF first_id
<1>8. ASSUME NEW r \in DOMAIN assignments
      PROVE  /\ assignments[r].conn \in DOMAIN connections'
             /\ connections'[assignments[r].conn].endpoint = OldRow(r).endpoint
             /\ connections'[assignments[r].conn].key = OldRow(r).key
             /\ assignments[r].name = OldRow(r).name
             /\ assignments[r].window = OldRow(r).window
  BY <1>3, <1>4, <1>7 DEF OldRow, Unopened
<1>9. DOMAIN role_models' = DOMAIN assignments
  BY <1>6 DEF RolesAsAssigned
<1>10. ASSUME NEW r \in DOMAIN assignments
       PROVE  /\ Complete(r)'
              /\ role_models'[r].enabled = assignments[r].enabled
              /\ SameModel(OldRow(r), SynthesizeRoleProvider(r)')
              /\ r = Main /\ OldRow(r).window # 0 =>
                   SynthesizeRoleProvider(r)'.window = OldRow(r).window
  <2> DEFINE i == role_models'[r].model
  <2>1. r \in DOMAIN role_models'
    BY <1>9, <1>10
  <2>2. /\ role_models'[r] = [model |-> i, enabled |-> assignments[r].enabled]
        /\ i \in DOMAIN models' /\ models'[i].conn = assignments[r].conn
        /\ models'[i].name = assignments[r].name
        /\ r = Main /\ assignments[r].window # 0 => models'[i].window = assignments[r].window
    BY <1>6, <2>1 DEF RolesAsAssigned
  <2>3. role_models'[r].enabled = assignments[r].enabled
    BY <2>2
  <2>4. Complete(r)'
    BY <1>8, <2>1, <2>2 DEF Complete
  <2> DEFINE provider == SynthesizeRoleProvider(r)'
  <2>5. provider = [endpoint |-> connections'[models'[i].conn].endpoint,
                    key |-> connections'[models'[i].conn].key,
                    name |-> models'[i].name, window |-> models'[i].window]
    BY <2>4 DEF SynthesizeRoleProvider
  <2> HIDE DEF provider, i
  <2>6. /\ provider # Nothing
        /\ provider.endpoint = connections'[models'[i].conn].endpoint
        /\ provider.key = connections'[models'[i].conn].key
        /\ provider.name = models'[i].name /\ provider.window = models'[i].window
    BY <2>5 DEF Nothing
  <2>7. SameModel(OldRow(r), provider)
    BY <1>8, <2>1, <2>2, <2>6 DEF SameModel
  <2>8. r = Main /\ OldRow(r).window # 0 => provider.window = OldRow(r).window
    BY <1>8, <2>1, <2>2, <2>6
  <2> QED BY <1>8, <2>1, <2>3, <2>4, <2>7, <2>8 DEF provider
<1> QED BY <1>4, <1>9, <1>10

(* The first start on an older database changes no role's answer.          *)
LEMMA MoveKeepsAnswers ==
  ASSUME RegTypeOK, ChainInv, [RegNext]_regvars, moves = 0, moves' = 1, NEW r \in Roles
  PROVE  IF OldOwners(r) = {} THEN ResolveRoleProvider(r)' = Nothing
         ELSE \A s \in OldOwners(r) :
                /\ SameModel(OldRow(s), ResolveRoleProvider(r)')
                /\ s = Main /\ OldRow(s).window # 0
                     => ResolveRoleProvider(r)'.window = OldRow(s).window
<1>1. Start
  BY DEF RegNext, regvars, Quit, ConnectionCommand, ModelCommand, RoleCommand, CreateConnection,
     EditConnection, SetConnectionBilling, DeleteConnection, DeleteConnectionTorn,
     DeleteConnectionCascade, AddModel, UpdateModel, SetModelPricing, DeleteModel,
     DeleteModelCascade, SetRoleAssignment, ClearRoleAssignment, SetAppSetting, Kept, OpenConnections
<1> DEFINE has == DOMAIN assignments
           on(s) == assignments[s].enabled
<1>2. /\ DOMAIN role_models' = has
      /\ \A s \in has :
           /\ Complete(s)' /\ role_models'[s].enabled = on(s)
           /\ SameModel(OldRow(s), SynthesizeRoleProvider(s)')
           /\ s = Main /\ OldRow(s).window # 0 =>
                SynthesizeRoleProvider(s)'.window = OldRow(s).window
  BY <1>1, FirstMove
<1>3. OldOwners(r) = IF r \in has /\ (r = Main \/ on(r)) THEN {r} ELSE has \cap {Main}
  BY <1>1, FirstMove DEF OldOwners
<1> HIDE DEF has, on
<1>4. CASE r \in has /\ (r = Main \/ on(r))
  <2>1. ResolveRoleProvider(r)' = SynthesizeRoleProvider(r)'
    BY <1>2, <1>4 DEF ResolveRoleProvider, OwnRole
  <2> QED BY <1>2, <1>3, <1>4, <2>1
<1>5. CASE ~(r \in has /\ (r = Main \/ on(r)))
  <2>1. r = Main \/ ~OwnRole(r)'
    BY <1>2, <1>5 DEF OwnRole, Complete
  <2>2. ResolveRoleProvider(r)' = SynthesizeRoleProvider(Main)'
    BY <2>1 DEF ResolveRoleProvider
  <2>3. CASE Main \in has
    <3>1. OldOwners(r) = {Main}
      BY <1>3, <1>5, <2>3
    <3> QED BY <1>2, <2>2, <2>3, <3>1
  <2>4. CASE Main \notin has
    <3>1. OldOwners(r) = {}
      BY <1>3, <1>5, <2>4
    <3>2. ~Complete(Main)'
      BY <1>2, <2>4 DEF Complete
    <3>3. ResolveRoleProvider(r)' = Nothing
      BY <2>2, <3>2 DEF SynthesizeRoleProvider
    <3> QED BY <3>1, <3>3
  <2> QED BY <2>3, <2>4
<1> QED BY <1>4, <1>5

(* Opening an older database, whichever of the older tables are filled and *)
(* wherever the process ends between the two migrations, keeps the         *)
(* endpoint, key and model of every role, and main's window.               *)
THEOREM MigrationIsFaithful == RegSpec => MigrationKeepsAnswers
<1>1. RegTypeOK /\ ChainInv /\ [RegNext]_regvars =>
        [/\ moves = 0 /\ assignments' # assignments =>
              \A r \in Roles : /\ OldOwners(r)' = OldOwners(r)
                               /\ \A s \in OldOwners(r) : OldRow(s)' = OldRow(s)
         /\ moves = 0 /\ moves' = 1 =>
              \A r \in Roles :
                IF OldOwners(r) = {} THEN ResolveRoleProvider(r)' = Nothing
                ELSE \A s \in OldOwners(r) :
                       /\ SameModel(OldRow(s), ResolveRoleProvider(r)')
                       /\ s = Main /\ OldRow(s).window # 0
                            => ResolveRoleProvider(r)'.window = OldRow(s).window]_regvars
  BY RowsAreKept, MoveKeepsAnswers
<1> QED BY <1>1, RegTypeCorrect, ChainCorrect, PTL DEF RegSpec, MigrationKeepsAnswers

-----------------------------------------------------------------------------
(***************************************************************************)
(* Theorems about Rewind, for any files, directories and calls, and however*)
(* many turns and undos there are. Tables says what the rows are; TalkInv  *)
(* that ids and times of rows and changes go up together, so that one cut  *)
(* of the transcript is one cut of the changes; FilesInv that the changes  *)
(* still in force form a chain: each, taken back from what the next one    *)
(* found, leaves what it found itself. An undo in progress has taken back  *)
(* the end of that chain.                                                  *)
(***************************************************************************)
(* What the tables hold. *)

(* What was captured before a call; rows, lines, changes and undos.        *)
Prevs     == UNION {[D -> Texts \cup {Absent}] : D \in SUBSET Paths}
Speakers  == {"user", "assistant"}
Rows      == [id : Nat, role : Speakers, at : Nat]
Lines     == [id : Nat, role : Speakers]
Captures  == [call : Tried, capture : [prev : Prevs, revertible : BOOLEAN], seen : FileSystems]
Landings  == [call : Tried, prev : Prevs, revertible : BOOLEAN, before : Files]
Changes   == [call : Tried, prev : Prevs, revertible : BOOLEAN, reverted : BOOLEAN,
              at : Nat, turn : Nat, before : Files]
Undos     == [kind : {"revert", "rewind"}, left : SUBSET Nat, from : SUBSET Nat, cut : Nat,
              exact : BOOLEAN, agreed : BOOLEAN]

(* Every table holds rows of its kind.                                     *)
Tables ==
  /\ fs \in FileSystems /\ Sound(fs)
  /\ now \in 0..MaxSecond /\ ids \in Nat /\ ends \in Nat
  /\ messages \in Seq(Rows) /\ shown \in Seq(Lines)
  /\ run \in {"idle", "started", "acted"}
  /\ pending \in {Nobody} \cup Captures
  /\ pending # Nobody => /\ pending.capture = Capture(pending.seen, pending.call)
                         /\ Sound(pending.seen)
  /\ landed \in {Nobody} \cup Landings
  /\ checkpoints \in Seq(Changes)
  /\ undo \in {NoUndo} \cup Undos
  /\ spoilt \in 0..Made

-----------------------------------------------------------------------------
(* The transcript. *)

(* Ids and times only grow, and the first message is the user's. *)
InOrder ==
  /\ \A i \in DOMAIN messages : messages[i].id \in 1..ids /\ messages[i].at <= now
  /\ \A i, j \in DOMAIN messages : i < j => messages[i].id < messages[j].id
  /\ \A i \in DOMAIN shown : shown[i].id <= ids
  /\ messages # <<>> => messages[1].role = "user"

(* A run has a message to answer, and only a run asks for a call. *)
RunHasMessage == /\ run # "idle" => messages # <<>>
                 /\ pending # Nobody => run # "idle" /\ landed = Nobody
                 /\ landed # Nobody => run # "idle"

(* A rewind goes on while nothing else moves the messages. *)
RewindHolds ==
  undo.kind = "rewind" =>
    /\ run = "idle" /\ undo.cut \in 1..Len(messages) /\ undo.cut <= Len(shown)
    /\ undo.agreed => shown = Stored
    /\ undo.from \subseteq DOMAIN checkpoints
    /\ \A k \in undo.from : checkpoints[k].at >= LastN(undo.cut).at

(* A change belongs to the last of the messages that were there before it.  *)
ChangesDated ==
  /\ \A k \in DOMAIN checkpoints : checkpoints[k].at <= now
  /\ \A j, k \in DOMAIN checkpoints : j <= k => checkpoints[j].at <= checkpoints[k].at
  /\ \A k \in DOMAIN checkpoints, i \in DOMAIN messages :
       checkpoints[k].turn >= messages[i].id \/ checkpoints[k].at <= messages[i].at

(* All that is said of the transcript.                                     *)
TalkInv == InOrder /\ RunHasMessage /\ RewindHolds /\ ChangesDated /\ WireWithinTranscript

-----------------------------------------------------------------------------
(* The changes. *)

(* Taking change c back, if that can be done to files f, leaves those from  *)
(* before it.                                                              *)
Undoes(c, f) ==
  \A D \in SUBSET Dirs :
    LET g == [file |-> f, dirs |-> D]
    IN CanRevert(g, c.call, c.prev) => Revert(g, c.call, c.prev).file = c.before

(* Changes that were not taken back.                                       *)
Live(cs)    == {k \in DOMAIN cs : ~cs[k].reverted}
(* The changes from which on all can be taken back. *)
Clear(cs)   == {k \in DOMAIN cs : \A j \in DOMAIN cs : j >= k => cs[j].revertible}
(* No live change lies between. *)
Adjacent(cs, k, n) == \A j \in Live(cs) : ~(k < j /\ j < n)

(* The files as the stored changes left them. *)
Found == IF landed = Nobody THEN fs.file ELSE landed.before

(* A change after t can be taken back from what the next live one found, the *)
(* last of them from the files f; and again from what it found itself.      *)
Chained(cs, f, t) ==
  /\ \A k \in DOMAIN cs : k > t /\ cs[k].revertible => Undoes(cs[k], cs[k].before)
  /\ \A k \in Live(cs) \cap Clear(cs) : k > t =>
       /\ \A n \in Live(cs) : k < n /\ Adjacent(cs, k, n) => Undoes(cs[k], cs[n].before)
       /\ (\A n \in Live(cs) : n <= k) => Undoes(cs[k], f)

(* An undo in progress: the latest changes were taken back first. *)
Begun(cs, u) ==
  /\ u.from \subseteq DOMAIN cs /\ u.left \subseteq u.from
  /\ \A k \in u.left : ~cs[k].reverted /\ cs[k].revertible
  /\ \A k \in u.left, j \in u.from \ u.left : k < j

(* What is left of it and comes after t: all that can be taken back, and    *)
(* the files are those from before the last one that was.                   *)
Undoing(cs, f, u, t) ==
  /\ \A k \in u.left, j \in Live(cs) : k < j /\ j > t /\ cs[j].revertible => j \in u.left
  /\ u.exact /\ (\A k \in u.from : k > t) => u.from \subseteq Clear(cs)
  /\ u.exact /\ (\A k \in u.from : k > t) /\ u.left # u.from =>
       \E k \in u.from \ u.left : f = cs[k].before /\ \A j \in u.from \ u.left : k <= j

(* A change keeps what was captured before its call. *)
Taken(c) == \E g \in FileSystems : /\ c.prev = Capture(g, c.call).prev
                                  /\ c.revertible = Capture(g, c.call).revertible

(* What the rows of changes say of the files.                              *)
FilesInv ==
  /\ \A k \in DOMAIN checkpoints : Taken(checkpoints[k])
  /\ landed # Nobody => Taken(landed)
  /\ \A k \in DOMAIN checkpoints : checkpoints[k].reverted => checkpoints[k].revertible
  /\ undo # NoUndo => Begun(checkpoints, undo)
  /\ Chained(checkpoints, Found, spoilt)
  /\ undo # NoUndo => Undoing(checkpoints, Found, undo, spoilt)
  /\ landed # Nobody /\ landed.revertible /\ spoilt <= Len(checkpoints) =>
       Undoes(landed, fs.file) /\ Undoes(landed, landed.before)
  /\ undo # NoUndo /\ undo.left # undo.from /\ landed # Nobody => spoilt > Len(checkpoints)

-----------------------------------------------------------------------------
(* Facts about the tools. *)

(* What a call consists of, by its tool. *)
LEMMA CallKinds ==
  ASSUME NEW call \in Calls
  PROVE  \/ call.tool \in {"create_file", "write_file"} /\ call.path \in Paths /\ call.text \in Texts
         \/ /\ call.tool \in {"edit_file", "apply_multi_patch"}
            /\ \E D \in SUBSET Paths : call.edits \in [D -> Texts \X Texts]
         \/ call.tool = "delete_file" /\ call.path \in Paths
         \/ call.tool = "move_path" /\ call.from \in Paths /\ call.to \in Paths
         \/ call.tool = "make_dir" /\ call.dir \in Dirs
         \/ call.tool = "delete_dir" /\ call.dir \in Dirs
BY DEF Calls, Edits

(* A successful call leaves a sound file system. *)
LEMMA ApplySound ==
  ASSUME NEW g \in FileSystems, Sound(g), NEW call \in Calls, CanApply(g, call)
  PROVE  Apply(g, call) \in FileSystems /\ Sound(Apply(g, call))
<1> DEFINE h == Apply(g, call)
<1> /\ g.file \in [Paths -> Texts \cup {Absent}] /\ g.dirs \in SUBSET Dirs
    /\ \A p \in Paths : g.file[p] # Absent => Parent(p) \subseteq g.dirs
    /\ \A p \in Paths : Parent(p) \subseteq Dirs /\ DirOf[p] \in Dirs \cup {Root}
    /\ Absent \notin Texts
  BY FileToolsAssumption DEF FileSystems, Files, Sound, Exists, Parent
<1>1. CASE call.tool \in {"create_file", "write_file"} /\ call.path \in Paths /\ call.text \in Texts
  <2>1. h = [file |-> [g.file EXCEPT ![call.path] = call.text],
             dirs |-> g.dirs \cup Parent(call.path)]
    BY <1>1 DEF Apply, WithFile, WithParent, FileSystems
  <2> QED
    BY <1>1, <2>1 DEF FileSystems, Files, Sound, Exists
<1>2. ASSUME call.tool \in {"edit_file", "apply_multi_patch"},
             NEW D \in SUBSET Paths, call.edits \in [D -> Texts \X Texts]
      PROVE  h \in FileSystems /\ Sound(h)
  <2>1. h = [file |-> [p \in Paths |-> IF p \in D THEN call.edits[p][2] ELSE g.file[p]],
             dirs |-> g.dirs]
    BY <1>2 DEF Apply, WriteAll, FileSystems
  <2>2. \A p \in D : call.edits[p][1] \in Texts /\ call.edits[p][2] \in Texts
    BY <1>2
  <2>3. \A p \in D : g.file[p] # Absent
    BY <1>2, <2>2 DEF CanApply, EditFits
  <2> QED
    BY <1>2, <2>1, <2>2, <2>3 DEF FileSystems, Files, Sound, Exists
<1>3. CASE call.tool = "delete_file" /\ call.path \in Paths
  <2>1. h = [file |-> [g.file EXCEPT ![call.path] = Absent], dirs |-> g.dirs]
    BY <1>3 DEF Apply, WithFile, FileSystems
  <2> QED
    BY <1>3, <2>1 DEF FileSystems, Files, Sound, Exists
<1>4. CASE call.tool = "move_path" /\ call.from \in Paths /\ call.to \in Paths
  <2>1. h = [file |-> [[g.file EXCEPT ![call.to] = g.file[call.from]] EXCEPT ![call.from] = Absent],
             dirs |-> g.dirs \cup Parent(call.to)]
    BY <1>4 DEF Apply, WithFile, WithParent, FileSystems
  <2> QED
    BY <1>4, <2>1 DEF FileSystems, Files, Sound, Exists
<1>5. CASE call.tool = "make_dir" /\ call.dir \in Dirs
  <2>1. h = [file |-> g.file, dirs |-> g.dirs \cup {call.dir}]
    BY <1>5 DEF Apply, FileSystems
  <2> QED
    BY <1>5, <2>1 DEF FileSystems, Files, Sound, Exists
<1>6. CASE call.tool = "delete_dir" /\ call.dir \in Dirs
  <2>1. h = [file |-> [p \in Paths |-> IF DirOf[p] = call.dir THEN Absent ELSE g.file[p]],
             dirs |-> g.dirs \ {call.dir}]
    BY <1>6 DEF Apply
  <2> QED
    BY <1>6, <2>1 DEF FileSystems, Files, Sound, Exists, Parent
<1> QED
  BY <1>1, <1>2, <1>3, <1>4, <1>5, <1>6, CallKinds

(* So does a patch that fails half way. *)
LEMMA TornSound ==
  ASSUME NEW g \in FileSystems, Sound(g), NEW call \in Calls, NEW h \in TornPatches(g, call)
  PROVE  h \in FileSystems /\ Sound(h)
<1> /\ g.file \in [Paths -> Texts \cup {Absent}] /\ g.dirs \in SUBSET Dirs
    /\ \A p \in Paths : g.file[p] # Absent => Parent(p) \subseteq g.dirs
    /\ Absent \notin Texts
  BY FileToolsAssumption DEF FileSystems, Files, Sound, Exists
<1>1. call.tool = "apply_multi_patch" /\ CanApply(g, call)
  BY DEF TornPatches
<1>2. PICK E \in SUBSET Paths : call.edits \in [E -> Texts \X Texts]
  BY <1>1, CallKinds
<1>3. PICK D \in SUBSET E : h = WriteAll(g, call.edits, D)
  BY <1>1, <1>2 DEF TornPatches
<1>4. h = [file |-> [p \in Paths |-> IF p \in D THEN call.edits[p][2] ELSE g.file[p]],
           dirs |-> g.dirs]
  BY <1>3 DEF WriteAll, FileSystems
<1>5. \A p \in E : /\ call.edits[p][1] \in Texts /\ call.edits[p][2] \in Texts
                   /\ g.file[p] # Absent
  <2>1. \A p \in E : call.edits[p][1] \in Texts /\ call.edits[p][2] \in Texts
    BY <1>2
  <2> QED
    BY <1>1, <1>2, <2>1 DEF CanApply, EditFits
<1> QED
  BY <1>4, <1>5 DEF FileSystems, Files, Sound, Exists

(* What is captured: contents of some files, none for a directory. *)
LEMMA CaptureType ==
  ASSUME NEW g \in FileSystems, NEW call \in Calls
  PROVE  /\ Capture(g, call) \in [prev : Prevs, revertible : BOOLEAN]
         /\ call.tool = "delete_dir" => ~Capture(g, call).revertible
<1> /\ g.file \in [Paths -> Texts \cup {Absent}]
  BY DEF FileSystems, Files
<1>1. CASE call.tool \in {"create_file", "write_file", "delete_file"} /\ call.path \in Paths
  <2> {call.path} \in SUBSET Paths
    BY <1>1
  <2>1. \A D \in SUBSET Paths : \A f : f \in [D -> Texts \cup {Absent}] => f \in Prevs
    BY DEF Prevs
  <2>2. /\ [p \in {call.path} |-> Absent] \in [{call.path} -> Texts \cup {Absent}]
        /\ [p \in {call.path} |-> g.file[p]] \in [{call.path} -> Texts \cup {Absent}]
    BY <1>1
  <2>3. /\ [p \in {call.path} |-> Absent] \in Prevs
        /\ [p \in {call.path} |-> g.file[p]] \in Prevs
    BY <2>1, <2>2
  <2> QED
    BY <1>1, <2>3 DEF Capture, Snappable, Exists
<1>2. ASSUME call.tool \in {"edit_file", "apply_multi_patch"},
             NEW D \in SUBSET Paths, call.edits \in [D -> Texts \X Texts]
      PROVE  Capture(g, call) \in [prev : Prevs, revertible : BOOLEAN]
  <2>1. DOMAIN call.edits = D
    BY <1>2
  <2>2. [p \in D |-> g.file[p]] \in [D -> Texts \cup {Absent}]
    OBVIOUS
  <2>3. [p \in D |-> g.file[p]] \in Prevs
    BY <2>2 DEF Prevs
  <2>4. Capture(g, call).prev = [p \in D |-> g.file[p]]
    BY <1>2, <2>1 DEF Capture
  <2> QED
    BY <1>2, <2>1, <2>3, <2>4 DEF Capture
<1>3. CASE call.tool \in {"move_path", "make_dir", "delete_dir"}
  <2>1. [p \in {} |-> Absent] \in [{} -> Texts \cup {Absent}]
    OBVIOUS
  <2>2. [p \in {} |-> Absent] \in Prevs
    BY <2>1 DEF Prevs
  <2> QED
    BY <1>3, <2>2 DEF Capture
<1> QED
  BY <1>1, <1>2, <1>3, CallKinds

(* What restoring contents does, by file. *)
LEMMA RestoreFiles ==
  ASSUME NEW g \in FileSystems, NEW prev \in Prevs
  PROVE  /\ Restore(g, prev) =
              [file |-> [p \in Paths |-> IF p \in DOMAIN prev THEN prev[p] ELSE g.file[p]],
               dirs |-> g.dirs]
         /\ Restore(g, prev).file \in Files
         /\ WithParents(g, prev) \in FileSystems /\ WithParents(g, prev).file = g.file
         /\ g.dirs \subseteq WithParents(g, prev).dirs
         /\ \A p \in DOMAIN prev : prev[p] # Absent => Parent(p) \subseteq WithParents(g, prev).dirs
<1>1. PICK D \in SUBSET Paths : prev \in [D -> Texts \cup {Absent}]
  BY DEF Prevs
<1>2. \A p \in Paths : Parent(p) \subseteq Dirs
  BY FileToolsAssumption DEF Parent
<1>3. UNION {Parent(p) : p \in {q \in DOMAIN prev : prev[q] # Absent}} \subseteq Dirs
  BY <1>1, <1>2
<1>4. WithParents(g, prev) =
        [file |-> g.file,
         dirs |-> g.dirs \cup UNION {Parent(p) : p \in {q \in DOMAIN prev : prev[q] # Absent}}]
  BY DEF WithParents, FileSystems
<1>5. Restore(g, prev) =
        [file |-> [p \in Paths |-> IF p \in DOMAIN prev THEN prev[p] ELSE g.file[p]],
         dirs |-> g.dirs]
  BY DEF Restore, FileSystems
<1>6. [p \in Paths |-> IF p \in DOMAIN prev THEN prev[p] ELSE g.file[p]] \in Files
  BY <1>1 DEF FileSystems, Files
<1> QED
  BY <1>1, <1>3, <1>4, <1>5, <1>6 DEF FileSystems

(* Taking a call back leaves a sound file system. *)
LEMMA RevertSound ==
  ASSUME NEW g \in FileSystems, Sound(g), NEW c, c.call \in Calls, Taken(c), c.revertible,
         CanRevert(g, c.call, c.prev)
  PROVE  Revert(g, c.call, c.prev) \in FileSystems /\ Sound(Revert(g, c.call, c.prev))
<1> DEFINE call == c.call
           prev == c.prev
           h == Revert(g, call, prev)
<1> /\ g.file \in [Paths -> Texts \cup {Absent}] /\ g.dirs \in SUBSET Dirs
    /\ \A p \in Paths : g.file[p] # Absent => Parent(p) \subseteq g.dirs
    /\ Absent \notin Texts
  BY FileToolsAssumption DEF FileSystems, Files, Sound, Exists
<1> call \in Calls
  OBVIOUS
<1>1. PICK was \in FileSystems : prev = Capture(was, call).prev /\ c.revertible = Capture(was, call).revertible
  BY DEF Taken
<1>2. prev \in Prevs /\ call.tool # "delete_dir"
  BY <1>1, CaptureType
<1>3. CASE call.tool = "create_file"
  <2>1. prev = [p \in {call.path} |-> Absent]
    BY <1>1, <1>3 DEF Capture
  <2>2. h = Restore(g, prev)
    BY <1>3 DEF Revert
  <2> QED
    BY <1>2, <2>1, <2>2, RestoreFiles DEF FileSystems, Sound, Exists
<1>4. CASE call.tool \in {"write_file", "edit_file"}
  <2>1. \A p \in DOMAIN prev : prev[p] # Absent => Parent(p) \subseteq g.dirs
    BY <1>4 DEF CanRevert
  <2>2. h = Restore(g, prev)
    BY <1>4 DEF Revert
  <2> QED
    BY <1>2, <2>1, <2>2, RestoreFiles DEF FileSystems, Sound, Exists
<1>5. CASE call.tool \in {"apply_multi_patch", "delete_file"}
  <2>1. PICK w : w = WithParents(g, prev)
    OBVIOUS
  <2>2. /\ w \in FileSystems /\ w.file = g.file /\ g.dirs \subseteq w.dirs
        /\ \A p \in DOMAIN prev : prev[p] # Absent => Parent(p) \subseteq w.dirs
    BY <1>2, <2>1, RestoreFiles
  <2>3. h = Restore(w, prev)
    BY <1>5, <2>1 DEF Revert
  <2>4. /\ h = [file |-> [p \in Paths |-> IF p \in DOMAIN prev THEN prev[p] ELSE w.file[p]],
                dirs |-> w.dirs]
        /\ h.file \in Files
    BY <1>2, <2>2, <2>3, RestoreFiles
  <2> QED
    BY <2>2, <2>4 DEF FileSystems, Sound, Exists
<1>6. CASE call.tool = "move_path" /\ call.from \in Paths /\ call.to \in Paths
  <2>1. h = [file |-> [[g.file EXCEPT ![call.from] = g.file[call.to]] EXCEPT ![call.to] = Absent],
             dirs |-> g.dirs]
    BY <1>6 DEF Revert, WithFile, FileSystems
  <2>2. Parent(call.from) \subseteq g.dirs
    BY <1>6 DEF CanRevert
  <2> QED
    BY <1>6, <2>1, <2>2 DEF FileSystems, Files, Sound, Exists
<1>7. CASE call.tool = "make_dir" /\ call.dir \in Dirs
  <2>1. h = [file |-> g.file,
             dirs |-> IF EmptyDir(g, call.dir) THEN g.dirs \ {call.dir} ELSE g.dirs]
    BY <1>7 DEF Revert, FileSystems
  <2> QED
    BY <1>7, <2>1 DEF FileSystems, Files, Sound, Exists, EmptyDir, Inside, Parent
<1> QED
  BY <1>2, <1>3, <1>4, <1>5, <1>6, <1>7, CallKinds

(* Taking a successful call back leaves the files from before it, whatever  *)
(* has become of the directories; and taking it back once more either       *)
(* leaves them so or is refused.                                            *)
LEMMA ApplyUndone ==
  ASSUME NEW g \in FileSystems, NEW c, c.call \in Calls, CanApply(g, c.call),
         c.prev = Capture(g, c.call).prev, c.revertible = Capture(g, c.call).revertible,
         c.revertible, c.before = g.file
  PROVE  Undoes(c, Apply(g, c.call).file) /\ Undoes(c, c.before)
<1> DEFINE call == c.call
           prev == c.prev
           after == Apply(g, call).file
<1> /\ g.file \in [Paths -> Texts \cup {Absent}] /\ g.file \in Files
    /\ Absent \notin Texts
    /\ call \in Calls
  BY FileToolsAssumption DEF FileSystems, Files
<1>1. prev \in Prevs /\ call.tool # "delete_dir"
  BY CaptureType
<1> SUFFICES ASSUME NEW D \in SUBSET Dirs, NEW f \in {after, g.file},
                    CanRevert([file |-> f, dirs |-> D], call, prev)
             PROVE  Revert([file |-> f, dirs |-> D], call, prev).file = g.file
  BY DEF Undoes
<1> DEFINE x == [file |-> f, dirs |-> D]
<1>2. CASE call.tool \in {"create_file", "write_file", "delete_file"} /\ call.path \in Paths
  <2>1. prev = [p \in {call.path} |-> g.file[call.path]]
    BY <1>2 DEF Capture, CanApply, Exists
  <2>2. \A p \in Paths : p # call.path => f[p] = g.file[p]
    BY <1>2 DEF Apply, WithFile, WithParent, FileSystems
  <2>4. Revert(x, call, prev).file = [p \in Paths |-> IF p \in DOMAIN prev THEN prev[p] ELSE f[p]]
    BY <1>2 DEF Revert, Restore, WithParents
  <2>5. \A p \in Paths : (IF p \in DOMAIN prev THEN prev[p] ELSE f[p]) = g.file[p]
    BY <2>1, <2>2
  <2> QED
    BY <2>4, <2>5
<1>3. ASSUME call.tool \in {"edit_file", "apply_multi_patch"},
             NEW E \in SUBSET Paths, call.edits \in [E -> Texts \X Texts]
      PROVE  Revert(x, call, prev).file = g.file
  <2>1. prev = [p \in E |-> g.file[p]]
    BY <1>3 DEF Capture
  <2>2. \A p \in Paths : p \notin E => f[p] = g.file[p]
    BY <1>3 DEF Apply, WriteAll, FileSystems
  <2>4. Revert(x, call, prev).file = [p \in Paths |-> IF p \in DOMAIN prev THEN prev[p] ELSE f[p]]
    BY <1>3 DEF Revert, Restore, WithParents
  <2>5. \A p \in Paths : (IF p \in DOMAIN prev THEN prev[p] ELSE f[p]) = g.file[p]
    BY <2>1, <2>2
  <2> QED
    BY <2>4, <2>5
<1>4. CASE call.tool = "move_path" /\ call.from \in Paths /\ call.to \in Paths
  <2>1. g.file[call.from] # Absent /\ g.file[call.to] = Absent
    BY <1>4 DEF CanApply, Exists
  <2>2. f[call.to] # Absent
    BY <1>4 DEF CanRevert, Exists
  <2>3. f = after
    BY <2>1, <2>2
  <2>4. after = [[g.file EXCEPT ![call.to] = g.file[call.from]] EXCEPT ![call.from] = Absent]
    BY <1>4 DEF Apply, WithFile, WithParent, FileSystems
  <2>5. Revert(x, call, prev).file = [[f EXCEPT ![call.from] = f[call.to]] EXCEPT ![call.to] = Absent]
    BY <1>4 DEF Revert, WithFile
  <2> QED
    BY <1>4, <2>1, <2>3, <2>4, <2>5
<1>5. CASE call.tool = "make_dir" /\ call.dir \in Dirs
  <2>1. f = g.file
    BY <1>5 DEF Apply, FileSystems
  <2> QED
    BY <1>5, <2>1 DEF Revert
<1> QED
  BY <1>1, <1>2, <1>3, <1>4, <1>5, CallKinds

(* The files that a revert leaves do not depend on the directories. *)
LEMMA UndoneFiles ==
  ASSUME NEW g \in FileSystems, NEW c, Undoes(c, g.file), CanRevert(g, c.call, c.prev)
  PROVE  Revert(g, c.call, c.prev).file = c.before
<1>1. g = [file |-> g.file, dirs |-> g.dirs] /\ g.dirs \in SUBSET Dirs
  BY DEF FileSystems
<1> QED
  BY <1>1 DEF Undoes

-----------------------------------------------------------------------------
(* Facts about tables. *)

(* A sequence with one value more.                                         *)
LEMMA Grown ==
  ASSUME NEW T, NEW s \in Seq(T), NEW e \in T, NEW t, t = Append(s, e)
  PROVE  /\ t \in Seq(T) /\ Len(s) \in Nat /\ Len(t) = Len(s) + 1 /\ DOMAIN s = 1..Len(s)
         /\ DOMAIN t = 1..(Len(s) + 1)
         /\ \A i \in 1..Len(s) : t[i] = s[i]
         /\ t[Len(s) + 1] = e
         /\ t # <<>>
  OBVIOUS

(* A sequence without its tail.                                            *)
LEMMA Shortened ==
  ASSUME NEW T, NEW s \in Seq(T), NEW n \in 0..Len(s), NEW t, t = SubSeq(s, 1, n)
  PROVE  /\ t \in Seq(T) /\ Len(s) \in Nat /\ Len(t) = n /\ DOMAIN s = 1..Len(s)
         /\ DOMAIN t = 1..n
         /\ \A i \in 1..n : i \in 1..Len(s) /\ t[i] = s[i]
  OBVIOUS

(* Of some positions there is a last one.                                  *)
LEMMA LatestOf ==
  ASSUME NEW n \in Nat, NEW S \in SUBSET (1..n), S # {}
  PROVE  Latest(S) \in S /\ \A j \in S : j <= Latest(S)
<1> DEFINE T == {x \in Nat : x <= n /\ n - x \in S}
<1>1. T \subseteq Nat /\ T # {}
  <2>1. PICK j \in S : TRUE
    OBVIOUS
  <2>2. n - j \in T
    BY <2>1
  <2> QED
    BY <2>2
<1>2. PICK x \in T : \A y \in T : x <= y
  <2> DEFINE R == OpToRel(<, Nat)
  <2>1. IsWellFoundedOn(R, Nat)
    BY NatLessThanWellFounded
  <2>2. \A y, z \in Nat : y < z => <<y, z>> \in R
    BY DEF OpToRel
  <2> HIDE DEF R, T
  <2>3. PICK x \in T : \A y \in T : ~ (<<y, x>> \in R)
    BY <1>1, <2>1, WFMin
  <2>4. \A y \in T : x \in Nat /\ y \in Nat /\ ~(y < x)
    BY <1>1, <2>2, <2>3
  <2> QED
    BY <2>4
<1>4. \A j \in S : j <= n - x
  <2> TAKE j \in S
  <2>1. j \in Nat /\ j <= n /\ n - j \in Nat /\ n - (n - j) = j
    OBVIOUS
  <2>2. n - j \in T
    BY <2>1
  <2>3. x <= n - j /\ x \in Nat
    BY <1>2, <2>2
  <2> QED
    BY <2>1, <2>3
<1>5. n - x \in S
  OBVIOUS
<1> QED
  BY <1>4, <1>5 DEF Latest

-----------------------------------------------------------------------------
(* The tables keep rows of their kind. *)

(* The tables keep their kind.                                             *)
LEMMA TablesInit == RwInit => Tables
<1> SUFFICES ASSUME RwInit PROVE Tables
  OBVIOUS
<1>1. /\ fs \in FileSystems /\ Sound(fs) /\ now = 0 /\ ids = 0 /\ ends = 0
      /\ messages = <<>> /\ shown = <<>> /\ checkpoints = <<>>
      /\ run = "idle" /\ pending = Nobody /\ undo = NoUndo
      /\ landed = Nobody /\ spoilt = 0
  BY DEF RwInit
<1>2. now \in 0..MaxSecond
  BY <1>1, RewindAssumption
<1>3. messages \in Seq(Rows) /\ shown \in Seq(Lines) /\ checkpoints \in Seq(Changes)
  BY <1>1
<1> QED
  BY <1>1, <1>2, <1>3 DEF Tables, Made

(* What undoing one change does to the tables. *)
LEMMA UndoTypes ==
  ASSUME Tables, FilesInv, undo # NoUndo, undo.left # {},
         NEW k, k = Latest(undo.left)
  PROVE  /\ k \in undo.left /\ k \in DOMAIN checkpoints /\ DOMAIN checkpoints = 1..Len(checkpoints)
         /\ undo \in Undos /\ \A j \in undo.left : j \in DOMAIN checkpoints /\ j <= k
         /\ checkpoints[k] \in Changes /\ checkpoints[k].call \in Calls
         /\ Taken(checkpoints[k]) /\ checkpoints[k].revertible
         /\ CanRevert(fs, checkpoints[k].call, checkpoints[k].prev) =>
              /\ Revert(fs, checkpoints[k].call, checkpoints[k].prev) \in FileSystems
              /\ Sound(Revert(fs, checkpoints[k].call, checkpoints[k].prev))
<1>1. undo \in Undos /\ checkpoints \in Seq(Changes) /\ DOMAIN checkpoints = 1..Len(checkpoints)
      /\ Len(checkpoints) \in Nat
  BY DEF Tables
<1>2. undo.left \in SUBSET (1..Len(checkpoints)) /\ \A j \in undo.left : checkpoints[j].revertible
  BY <1>1 DEF FilesInv, Begun
<1>3. k \in undo.left /\ \A j \in undo.left : j <= k
  BY <1>1, <1>2, LatestOf
<1>4. checkpoints[k] \in Changes
  BY <1>1, <1>2, <1>3
<1>5. checkpoints[k].call \in Calls
  BY <1>4, RewindAssumption DEF Changes
<1>6. Taken(checkpoints[k])
  BY <1>1, <1>2, <1>3 DEF FilesInv
<1> QED
  BY <1>1, <1>2, <1>3, <1>4, <1>5, <1>6, RevertSound DEF Tables

(* Whatever the step is.                                                   *)
LEMMA TablesNext == Tables /\ TalkInv /\ FilesInv /\ [RwNext]_rwvars => Tables'
<1> SUFFICES ASSUME Tables, TalkInv, FilesInv, [RwNext]_rwvars PROVE Tables'
  OBVIOUS
<1>a. /\ fs \in FileSystems /\ Sound(fs)
      /\ now \in 0..MaxSecond /\ ids \in Nat /\ ends \in Nat
      /\ messages \in Seq(Rows) /\ shown \in Seq(Lines)
      /\ run \in {"idle", "started", "acted"}
      /\ pending \in {Nobody} \cup Captures
      /\ pending # Nobody => pending.capture = Capture(pending.seen, pending.call) /\ Sound(pending.seen)
      /\ checkpoints \in Seq(Changes)
      /\ undo \in {NoUndo} \cup Undos
      /\ landed \in {Nobody} \cup Landings
      /\ spoilt \in 0..Made /\ Len(checkpoints) \in Nat
  BY DEF Tables
<1>b. now \in Nat /\ MaxSecond \in Nat
  BY <1>a, RewindAssumption
<1>f. ASSUME UNCHANGED <<landed, checkpoints, spoilt>> PROVE spoilt' \in 0..Made'
  BY <1>a, <1>f DEF Made
<1>g. Made \in Nat /\ Made' = (IF landed' = Nobody THEN Len(checkpoints') ELSE Len(checkpoints') + 1)
  BY <1>a DEF Made
<1>c. ASSUME NEW role \in Speakers, NEW on_screen \in Seq(Lines), SaveMessage(role, on_screen)
      PROVE  ids' \in Nat /\ messages' \in Seq(Rows) /\ shown' \in Seq(Lines)
  <2>1. ids' \in Nat /\ [id |-> ids', role |-> role, at |-> now] \in Rows /\ [id |-> ids', role |-> role] \in Lines
    BY <1>a, <1>b, <1>c DEF SaveMessage, Rows, Lines
  <2> QED
    BY <1>a, <1>c, <2>1 DEF SaveMessage
<1>d. Stored \in Seq(Lines)
  <2>1. DOMAIN messages = 1..Len(messages) /\ Len(messages) \in Nat /\ \A i \in 1..Len(messages) : messages[i] \in Rows
    BY <1>a
  <2>2. \A i \in 1..Len(messages) : [id |-> messages[i].id, role |-> messages[i].role] \in Lines
    BY <2>1 DEF Rows, Lines
  <2>3. Stored \in [1..Len(messages) -> Lines]
    BY <2>1, <2>2 DEF Stored
  <2> QED
    BY <2>1, <2>3, SeqDef
<1>e. \A kind \in {"revert", "rewind"}, cut \in Nat :
        \A S : StartUndo(kind, S, cut) /\ S \subseteq DOMAIN checkpoints => undo' \in Undos
  <2> TAKE kind \in {"revert", "rewind"}, cut \in Nat
  <2> TAKE S
  <2> HAVE StartUndo(kind, S, cut) /\ S \subseteq DOMAIN checkpoints
  <2>1. Targets(S) \in SUBSET Nat
    BY <1>a DEF Targets
  <2>2. Exact(S) \in BOOLEAN
    BY DEF Exact
  <2>3. (shown = Stored) \in BOOLEAN
    OBVIOUS
  <2> QED
    BY <2>1, <2>2, <2>3 DEF StartUndo, Undos
<1>1. CASE Tick
  BY <1>1, <1>a, <1>f, <1>b DEF Tick, transcript, Tables
<1>2. CASE Send
  BY <1>2, <1>a, <1>f, <1>c DEF Send, Tables, Speakers
<1>3. ASSUME NEW call \in Tried, CaptureBefore(call) PROVE Tables'
  <2>1. call \in Calls
    BY RewindAssumption
  <2>2. pending' \in Captures
    BY <1>a, <1>3, <2>1, CaptureType DEF CaptureBefore, Captures
  <2>3. pending'.capture = Capture(pending'.seen, pending'.call) /\ Sound(pending'.seen)
    BY <1>a, <1>3 DEF CaptureBefore
  <2> QED
    BY <1>a, <1>f, <1>3, <2>2, <2>3 DEF CaptureBefore, transcript, Tables
<1>4. CASE RefuseCall
  BY <1>4, <1>a, <1>f DEF RefuseCall, Acted, Tables
<1>5. CASE ExecuteCall
  <2>1. pending \in Captures /\ pending.call \in Calls
    BY <1>a, <1>5, RewindAssumption DEF ExecuteCall, Captures
  <2>2. fs' \in FileSystems /\ Sound(fs')
    BY <1>a, <1>5, <2>1, ApplySound DEF ExecuteCall
  <2>3. fs.file \in Files
    BY <1>a DEF FileSystems
  <2>4. pending.call \in Tried /\ pending.capture.prev \in Prevs /\ pending.capture.revertible \in BOOLEAN
    BY <2>1 DEF Captures
  <2>5. landed' \in Landings
    BY <1>5, <2>3, <2>4 DEF ExecuteCall, Landings
  <2>6. landed = Nobody /\ checkpoints' = checkpoints /\ spoilt' \in {spoilt, Len(checkpoints) + 1}
    BY <1>5 DEF ExecuteCall, TalkInv, RunHasMessage
  <2>7. landed' # Nobody
    <3>1. landed'.before = fs.file /\ DOMAIN landed' = {"call", "prev", "revertible", "before"}
      BY <1>5 DEF ExecuteCall
    <3>2. DOMAIN Nobody = {"call"}
      BY DEF Nobody
    <3> QED
      BY <3>1, <3>2
  <2>8. spoilt' \in 0..Made'
    <3>1. spoilt \in 0..Len(checkpoints)
      BY <1>a, <2>6 DEF Made
    <3> QED
      BY <1>a, <1>g, <2>6, <2>7, <3>1
  <2> QED
    BY <1>a, <1>f, <1>5, <2>2, <2>5, <2>6, <2>8 DEF ExecuteCall, transcript, Tables
<1>6. CASE TearPatch
  <2>1. pending \in Captures /\ pending.call \in Calls
    BY <1>a, <1>6, RewindAssumption DEF TearPatch, Captures
  <2>2. fs' \in FileSystems /\ Sound(fs')
    BY <1>a, <1>6, <2>1, TornSound DEF TearPatch
  <2>3. UNCHANGED <<landed, checkpoints>> /\ spoilt' \in {spoilt, Len(checkpoints)}
    BY <1>6 DEF TearPatch
  <2>4. spoilt' \in 0..Made'
    BY <1>a, <2>3 DEF Made
  <2> QED
    BY <1>a, <1>f, <1>6, <2>2, <2>3, <2>4 DEF TearPatch, Acted, Tables
<1>21. CASE PersistCheckpoint
  <2> DEFINE c == [call |-> landed.call, prev |-> landed.prev,
                   revertible |-> landed.revertible, reverted |-> FALSE,
                   at |-> now, turn |-> Turn, before |-> landed.before]
  <2>1. landed \in Landings /\ landed # Nobody
    BY <1>a, <1>21 DEF PersistCheckpoint
  <2>2. Turn \in Nat
    <3>1. messages # <<>> => messages[Len(messages)] \in Rows
      BY <1>a
    <3> QED
      BY <3>1 DEF Turn, Rows
  <2>3. c \in Changes
    BY <1>b, <2>1, <2>2 DEF Changes, Landings
  <2>4. checkpoints' = Append(checkpoints, c) /\ landed' = Nobody /\ spoilt' \in {spoilt, Made}
    BY <1>21 DEF PersistCheckpoint
  <2> HIDE DEF c
  <2>5. checkpoints' \in Seq(Changes) /\ Len(checkpoints') = Len(checkpoints) + 1
    BY <1>a, <2>3, <2>4
  <2>6. spoilt' \in 0..Made'
    BY <1>a, <2>1, <2>4, <2>5 DEF Made
  <2> QED
    BY <1>a, <1>f, <1>21, <2>4, <2>5, <2>6 DEF PersistCheckpoint, Acted, Tables
<1>22. CASE LoseCheckpoint
  <2>1. landed' = Nobody /\ checkpoints' = checkpoints /\ spoilt' = Len(checkpoints)
    BY <1>22 DEF LoseCheckpoint
  <2>2. spoilt' \in 0..Made'
    BY <1>a, <2>1 DEF Made
  <2> QED
    BY <1>a, <1>f, <1>22, <2>1, <2>2 DEF LoseCheckpoint, Acted, Tables
<1>7. CASE Finish
  BY <1>7, <1>a, <1>f, <1>c DEF Finish, Tables, Speakers
<1>8. CASE FailSilently
  <2>1. [id |-> 0, role |-> "assistant"] \in Lines
    BY DEF Lines, Speakers
  <2>2. shown' \in Seq(Lines)
    BY <1>a, <1>8, <2>1 DEF FailSilently
  <2> QED
    BY <1>8, <1>a, <1>f, <2>2 DEF FailSilently, Tables
<1>9. CASE Reload
  BY <1>9, <1>a, <1>f, <1>d DEF Reload, Tables
<1>10. CASE Regenerate
  <2>1. Len(messages) - 1 \in 0..Len(messages) /\ Len(shown) - 1 \in 0..Len(shown)
    BY <1>a, <1>10 DEF Regenerate
  <2>2. messages' \in Seq(Rows) /\ shown' \in Seq(Lines)
    BY <1>a, <1>10, <2>1, Shortened DEF Regenerate
  <2> QED
    BY <1>10, <1>a, <1>f, <2>2 DEF Regenerate, Tables
<1>11. ASSUME NEW k \in DOMAIN checkpoints, RevertToCheckpoint(k) PROVE Tables'
  <2>1. undo' \in Undos
    BY <1>11, <1>e DEF RevertToCheckpoint
  <2> QED
    BY <1>11, <1>a, <1>f, <2>1 DEF RevertToCheckpoint, transcript, Tables
<1>12. ASSUME NEW i \in DOMAIN shown, RewindToMessage(i) PROVE Tables'
  <2> DEFINE n == Len(shown) - i + 1
  <2>1. n \in Nat /\ i - 1 \in 0..Len(shown)
    BY <1>a
  <2>2. CASE CutTimestamp(n) = {}
    <3>1. shown' = SubSeq(shown, 1, i - 1) /\ undo' = undo
      BY <1>12, <2>2 DEF RewindToMessage
    <3>2. shown' \in Seq(Lines)
      BY <1>a, <2>1, <3>1, Shortened
    <3> QED
      BY <1>12, <1>a, <1>f, <3>1, <3>2 DEF RewindToMessage, Tables
  <2>3. CASE CutTimestamp(n) # {}
    <3>1. shown' = shown /\ \E t \in CutTimestamp(n) :
             StartUndo("rewind", {k \in DOMAIN checkpoints : checkpoints[k].at >= t}, n)
      BY <1>12, <2>3 DEF RewindToMessage
    <3>2. undo' \in Undos
      BY <1>e, <2>1, <3>1
    <3> QED
      BY <1>12, <1>a, <1>f, <3>1, <3>2 DEF RewindToMessage, Tables
  <2> QED
    BY <2>2, <2>3
<1>13. CASE UndoOne
  <2> DEFINE k == Latest(undo.left)
             c == checkpoints[k]
  <2>1. undo # NoUndo /\ undo.left # {}
    BY <1>13 DEF UndoOne
  <2>2. /\ k \in DOMAIN checkpoints /\ undo \in Undos /\ c \in Changes
        /\ CanRevert(fs, c.call, c.prev) =>
             Revert(fs, c.call, c.prev) \in FileSystems /\ Sound(Revert(fs, c.call, c.prev))
    BY <2>1, UndoTypes
  <2>3. /\ undo' = [undo EXCEPT !.left = @ \ {k}, !.exact = @ /\ CanRevert(fs, c.call, c.prev)]
        /\ IF CanRevert(fs, c.call, c.prev)
           THEN /\ fs' = Revert(fs, c.call, c.prev)
                /\ checkpoints' = [checkpoints EXCEPT ![k].reverted = TRUE]
           ELSE fs' = fs /\ checkpoints' = checkpoints
        /\ spoilt' \in {spoilt, Made} /\ landed' = landed
    BY <1>13 DEF UndoOne
  <2>4. undo' \in Undos
    <3>1. undo.left \ {k} \in SUBSET Nat /\ (undo.exact /\ CanRevert(fs, c.call, c.prev)) \in BOOLEAN
      BY <2>2 DEF Undos
    <3> HIDE DEF k, c
    <3> QED
      BY <2>2, <2>3, <3>1 DEF Undos
  <2>5. fs' \in FileSystems /\ Sound(fs')
    <3> HIDE DEF k, c
    <3> QED
      BY <1>a, <2>2, <2>3
  <2>6. checkpoints' \in Seq(Changes)
    <3>1. [c EXCEPT !.reverted = TRUE] \in Changes
      <4> HIDE DEF c
      <4> QED
        BY <2>2 DEF Changes
    <3>2. CASE CanRevert(fs, c.call, c.prev)
      <4>1. checkpoints' = [checkpoints EXCEPT ![k] = [c EXCEPT !.reverted = TRUE]]
        BY <2>3, <3>2
      <4> HIDE DEF k, c
      <4> QED
        BY <1>a, <2>2, <3>1, <4>1
    <3> QED
      BY <1>a, <2>3, <3>2
  <2>7. Len(checkpoints') = Len(checkpoints)
    <3> HIDE DEF k, c
    <3> QED
      BY <1>a, <2>3
  <2> HIDE DEF k, c
  <2>8. spoilt' \in 0..Made'
    BY <1>a, <2>3, <2>7 DEF Made
  <2> QED
    BY <1>13, <1>a, <2>3, <2>4, <2>5, <2>6, <2>8 DEF UndoOne, transcript, Tables
<1>14. CASE FinishRevert
  BY <1>14, <1>a, <1>f DEF FinishRevert, transcript, Tables
<1>15. CASE FinishRewind
  <2>1. undo.kind = "rewind" /\ undo \in Undos
    BY <1>15, <1>a DEF FinishRewind
  <2>2. undo.cut \in 1..Len(messages) /\ undo.cut <= Len(shown)
    BY <2>1 DEF TalkInv, RewindHolds
  <2>3. Len(messages) - undo.cut \in 0..Len(messages) /\ Len(shown) - undo.cut \in 0..Len(shown)
    BY <1>a, <2>2
  <2>4. messages' \in Seq(Rows) /\ shown' \in Seq(Lines)
    BY <1>a, <1>15, <2>3, Shortened DEF FinishRewind
  <2> QED
    BY <1>15, <1>a, <1>f, <2>4 DEF FinishRewind, Tables
<1>16. CASE EndProcess
  <2>1. fs' \in FileSystems /\ Sound(fs')
    <3>1. CASE fs' = fs
      BY <1>a, <3>1
    <3>2. CASE fs' # fs
      BY <1>16, <3>2, UndoTypes DEF EndProcess
    <3> QED
      BY <3>1, <3>2
  <2>2. landed' = Nobody /\ checkpoints' = checkpoints
        /\ spoilt' = (IF landed # Nobody THEN Len(checkpoints) ELSE spoilt)
    BY <1>16 DEF EndProcess
  <2>3. spoilt' \in 0..Made'
    BY <1>a, <2>2 DEF Made
  <2> QED
    BY <1>16, <1>a, <1>d, <2>1, <2>2, <2>3 DEF EndProcess, Tables
<1>17. CASE UNCHANGED rwvars
  BY <1>17, <1>a, <1>f DEF rwvars, transcript, Tables
<1> QED
  BY <1>1, <1>2, <1>3, <1>4, <1>5, <1>6, <1>7, <1>8, <1>9, <1>10, <1>11, <1>12, <1>13, <1>14,
     <1>15, <1>16, <1>17, <1>21, <1>22 DEF RwNext

-----------------------------------------------------------------------------
(* The transcript stays in order. *)

(* At first nobody talks.                                                  *)
LEMMA TalkInit == RwInit => TalkInv
<1> SUFFICES ASSUME RwInit PROVE TalkInv
  OBVIOUS
<1>1. /\ messages = <<>> /\ shown = <<>> /\ checkpoints = <<>> /\ wire = {}
      /\ run = "idle" /\ pending = Nobody /\ landed = Nobody /\ undo = NoUndo
  BY DEF RwInit
<1>2. undo.kind # "rewind"
  BY <1>1 DEF NoUndo
<1>3. DOMAIN messages = {} /\ DOMAIN shown = {} /\ DOMAIN checkpoints = {}
  BY <1>1
<1> QED
  BY <1>1, <1>2, <1>3 DEF TalkInv, InOrder, RunHasMessage, RewindHolds, ChangesDated, WireWithinTranscript

(* A message more. *)
LEMMA SaveInOrder ==
  ASSUME Tables, InOrder, NEW role \in Speakers, SaveMessage(role, shown),
         messages = <<>> => role = "user", now' = now
  PROVE  InOrder' /\ messages' # <<>> /\ ids' = ids + 1
         /\ Len(messages') = Len(messages) + 1 /\ messages'[Len(messages) + 1].id = ids + 1
         /\ messages'[Len(messages) + 1].at = now
         /\ DOMAIN messages' = 1..(Len(messages) + 1) /\ Len(messages) \in Nat
         /\ DOMAIN messages = 1..Len(messages)
         /\ \A i \in DOMAIN messages : i \in DOMAIN messages' /\ messages'[i] = messages[i]
<1> DEFINE m == [id |-> ids + 1, role |-> role, at |-> now]
           l == [id |-> ids + 1, role |-> role]
           n == Len(messages)
           k == Len(shown)
<1>1. /\ ids \in Nat /\ now \in Nat /\ messages \in Seq(Rows) /\ shown \in Seq(Lines)
      /\ ids' = ids + 1 /\ messages' = Append(messages, m) /\ shown' = Append(shown, l)
  BY RewindAssumption DEF Tables, SaveMessage
<1>2. m \in Rows /\ l \in Lines /\ m.id = ids + 1 /\ m.at = now /\ m.role = role /\ l.id = ids + 1
  BY <1>1 DEF Rows, Lines
<1> HIDE DEF m, l
<1>3. /\ n \in Nat /\ Len(messages') = n + 1 /\ DOMAIN messages = 1..n /\ DOMAIN messages' = 1..(n + 1)
      /\ \A i \in 1..n : messages'[i] = messages[i]
      /\ messages'[n + 1] = m /\ messages' # <<>>
  BY <1>1, <1>2, Grown
<1>4. /\ k \in Nat /\ DOMAIN shown = 1..k /\ DOMAIN shown' = 1..(k + 1)
      /\ \A i \in 1..k : shown'[i] = shown[i]
      /\ shown'[k + 1] = l
  BY <1>1, <1>2, Grown
<1>5. \A i \in 1..n : messages[i] \in Rows /\ messages[i].id \in Nat /\ messages[i].at \in Nat
  <2>1. \A i \in 1..n : messages[i] \in Rows
    BY <1>1
  <2> QED
    BY <2>1 DEF Rows
<1>6. \A i \in 1..k : shown[i].id \in Nat
  <2>1. \A i \in 1..k : shown[i] \in Lines
    BY <1>1
  <2> QED
    BY <2>1 DEF Lines
<1>7. /\ \A i \in 1..n : messages[i].id \in 1..ids /\ messages[i].at <= now
      /\ \A i, j \in 1..n : i < j => messages[i].id < messages[j].id
      /\ \A i \in 1..k : shown[i].id <= ids
      /\ messages # <<>> => messages[1].role = "user"
  BY <1>3, <1>4 DEF InOrder
<1>8. n = 0 <=> messages = <<>>
  BY <1>1
<1> HIDE DEF n, k
<1>9. \A i \in 1..(n + 1) : messages'[i].id \in 1..(ids + 1) /\ messages'[i].at <= now
  BY <1>1, <1>2, <1>3, <1>5, <1>7
<1>10. \A i, j \in 1..(n + 1) : i < j => messages'[i].id < messages'[j].id
  <2> TAKE i, j \in 1..(n + 1)
  <2> HAVE i < j
  <2>1. i \in 1..n
    BY <1>3
  <2>2. CASE j \in 1..n
    BY <1>3, <1>7, <2>1, <2>2
  <2>3. CASE j = n + 1
    <3>1. messages[i].id <= ids /\ messages'[j].id = ids + 1 /\ messages'[i].id = messages[i].id
          /\ messages[i].id \in Nat
      BY <1>2, <1>3, <1>5, <1>7, <2>1, <2>3
    <3> QED
      BY <1>1, <3>1
  <2> QED
    BY <1>3, <2>2, <2>3
<1>11. \A i \in 1..(k + 1) : shown'[i].id <= ids + 1
  <2> TAKE i \in 1..(k + 1)
  <2>1. CASE i \in 1..k
    BY <1>1, <1>4, <1>6, <1>7, <2>1
  <2>2. CASE i = k + 1
    BY <1>1, <1>2, <1>4, <2>2
  <2> QED
    BY <1>4, <2>1, <2>2
<1>12. messages'[1].role = "user"
  BY <1>2, <1>3, <1>7, <1>8
<1>13. InOrder'
  BY <1>1, <1>3, <1>4, <1>9, <1>10, <1>11, <1>12 DEF InOrder
<1> QED
  BY <1>1, <1>2, <1>3, <1>13 DEF n

(* The beginnings of the two lists. *)
LEMMA CutInOrder ==
  ASSUME Tables, InOrder, NEW a \in 0..Len(messages), NEW b \in 0..Len(shown),
         messages' = SubSeq(messages, 1, a), shown' = SubSeq(shown, 1, b),
         ids' = ids, now' = now
  PROVE  InOrder' /\ DOMAIN messages' = 1..a /\ DOMAIN messages = 1..Len(messages)
         /\ Len(messages') = a
         /\ \A i \in 1..a : i \in DOMAIN messages /\ messages'[i] = messages[i]
<1>1. /\ ids \in Nat /\ messages \in Seq(Rows) /\ shown \in Seq(Lines)
  BY DEF Tables
<1>2. /\ Len(messages') = a /\ DOMAIN messages = 1..Len(messages) /\ DOMAIN messages' = 1..a
      /\ \A i \in 1..a : i \in 1..Len(messages) /\ messages'[i] = messages[i]
      /\ a \in Nat
  BY <1>1, Shortened
<1>3. /\ DOMAIN shown = 1..Len(shown) /\ DOMAIN shown' = 1..b
      /\ \A i \in 1..b : i \in 1..Len(shown) /\ shown'[i] = shown[i]
  BY <1>1, Shortened
<1>4. messages' # <<>> => 1 \in 1..a /\ messages # <<>>
  BY <1>1, <1>2
<1> QED
  BY <1>1, <1>2, <1>3, <1>4 DEF InOrder

(* Ids and times grow, a run answers a message, the wire has whole turns.  *)
LEMMA OrderNext == Tables /\ TalkInv /\ [RwNext]_rwvars => (InOrder /\ RunHasMessage /\ WireWithinTranscript)'
<1> SUFFICES ASSUME Tables, TalkInv, [RwNext]_rwvars
             PROVE  (InOrder /\ RunHasMessage /\ WireWithinTranscript)'
  OBVIOUS
<1> DEFINE Ord == (InOrder /\ RunHasMessage /\ WireWithinTranscript)'
<1>a. InOrder /\ RunHasMessage /\ WireWithinTranscript /\ RewindHolds
  BY DEF TalkInv
<1>b. /\ messages \in Seq(Rows) /\ shown \in Seq(Lines) /\ ids \in Nat /\ now \in Nat
      /\ DOMAIN messages = 1..Len(messages) /\ Len(messages) \in Nat
      /\ DOMAIN shown = 1..Len(shown) /\ Len(shown) \in Nat
      /\ messages # <<>> => Len(messages) \in DOMAIN messages
  BY RewindAssumption DEF Tables
<1>c. messages # <<>> => \E i \in DOMAIN messages : messages[i].id = Turn
  BY <1>b DEF Turn
<1>d. UNCHANGED <<messages, shown, ids>> /\ now' \in {now, now + 1} => InOrder'
  <2>1. \A i \in DOMAIN messages : messages[i] \in Rows
    BY <1>b
  <2>2. \A i \in DOMAIN messages : messages[i].at \in Nat
    BY <2>1 DEF Rows
  <2> QED
    BY <1>a, <1>b, <2>2 DEF InOrder
<1>e. \A role \in Speakers : SaveMessage(role, shown) /\ now' = now /\ (messages = <<>> => role = "user") =>
         /\ InOrder' /\ messages' # <<>>
         /\ (\A t \in wire' : \E i \in DOMAIN messages : messages[i].id = t) => WireWithinTranscript'
  <2> TAKE role \in Speakers
  <2> HAVE SaveMessage(role, shown) /\ now' = now /\ (messages = <<>> => role = "user")
  <2>1. InOrder' /\ messages' # <<>> /\ \A i \in DOMAIN messages : i \in DOMAIN messages' /\ messages'[i] = messages[i]
    BY <1>a, SaveInOrder
  <2> QED
    BY <2>1 DEF WireWithinTranscript
<1>1. CASE Tick
  BY <1>1, <1>a, <1>d DEF Tick, transcript, RunHasMessage, WireWithinTranscript
<1>2. CASE Send
  <2>1. pending = Nobody
    BY <1>2, <1>a DEF Send, RunHasMessage
  <2> QED
    BY <1>2, <2>1, <1>a, <1>e DEF Send, RunHasMessage, WireWithinTranscript, Speakers
<1>3. ASSUME NEW call \in Tried, CaptureBefore(call) PROVE Ord
  BY <1>3, <1>a, <1>d DEF CaptureBefore, transcript, RunHasMessage, WireWithinTranscript
<1>4. ASSUME pending # Nobody \/ landed # Nobody, Acted({Turn}),
             pending' = Nobody \/ landed' = Nobody, pending' \in {pending, Nobody}, landed' \in {landed, Nobody}
      PROVE  Ord
  <2>1. messages # <<>>
    BY <1>4, <1>a DEF RunHasMessage
  <2>2. InOrder'
    BY <1>4, <1>d DEF Acted
  <2> QED
    BY <1>4, <2>1, <2>2, <1>a, <1>c DEF Acted, RunHasMessage, WireWithinTranscript
<1>5. CASE Finish
  <2>1. messages # <<>>
    BY <1>5, <1>a DEF Finish, RunHasMessage
  <2>2. \A t \in wire' : \E i \in DOMAIN messages : messages[i].id = t
    BY <1>5, <2>1, <1>a, <1>c DEF Finish, WireWithinTranscript
  <2> QED
    BY <1>5, <2>1, <2>2, <1>e DEF Finish, RunHasMessage, Speakers
<1>6. CASE FailSilently
  <2>1. [id |-> 0, role |-> "assistant"] \in Lines
    BY DEF Lines, Speakers
  <2>2. \A i \in DOMAIN shown' : i \in DOMAIN shown \/ shown'[i].id = 0
    BY <1>6, <1>b, <2>1, Grown DEF FailSilently
  <2>3. \A i \in DOMAIN shown : shown'[i] = shown[i]
    BY <1>6, <1>b, <2>1, Grown DEF FailSilently
  <2>4. InOrder'
    BY <1>6, <1>a, <1>b, <2>2, <2>3 DEF FailSilently, InOrder
  <2> QED
    BY <1>6, <1>a, <2>4 DEF FailSilently, RunHasMessage, WireWithinTranscript
<1>7. ASSUME shown' = Stored, UNCHANGED <<messages, ids, now>> PROVE InOrder'
  <2>1. DOMAIN shown' = DOMAIN messages /\ \A i \in DOMAIN messages : shown'[i].id = messages[i].id
    BY <1>7 DEF Stored
  <2>2. \A i \in DOMAIN shown' : shown'[i].id <= ids'
    BY <1>7, <2>1, <1>a, <1>b DEF InOrder, Rows
  <2> QED
    BY <1>7, <2>2, <1>a DEF InOrder
<1>8. CASE Reload
  BY <1>8, <1>7, <1>a DEF Reload, RunHasMessage, WireWithinTranscript
<1>9. CASE Regenerate
  <2>1. /\ messages # <<>> /\ messages[Len(messages)].role = "assistant" /\ Len(shown) > 1
        /\ messages' = SubSeq(messages, 1, Len(messages) - 1)
        /\ shown' = SubSeq(shown, 1, Len(shown) - 1) /\ ids' = ids /\ now' = now
        /\ wire' = {} /\ run' = "started" /\ run = "idle" /\ pending' = pending
        /\ landed' = landed
    BY <1>9 DEF Regenerate
  <2>2. Len(messages) > 1
    <3>1. messages[1].role = "user"
      BY <1>a, <2>1 DEF InOrder
    <3> QED
      BY <1>b, <2>1, <3>1
  <2>3. Len(messages) - 1 \in 0..Len(messages) /\ Len(shown) - 1 \in 0..Len(shown) /\ Len(messages) - 1 > 0
    BY <1>b, <2>1, <2>2
  <2>4. InOrder' /\ Len(messages') = Len(messages) - 1
    BY <1>a, <2>1, <2>3, CutInOrder
  <2>5. messages' # <<>>
    BY <2>3, <2>4
  <2> QED
    BY <1>a, <2>1, <2>4, <2>5 DEF RunHasMessage, WireWithinTranscript
<1>10. ASSUME NEW k \in DOMAIN checkpoints, RevertToCheckpoint(k) PROVE Ord
  BY <1>10, <1>a, <1>d DEF RevertToCheckpoint, transcript, RunHasMessage, WireWithinTranscript
<1>11. ASSUME NEW i \in DOMAIN shown, RewindToMessage(i) PROVE Ord
  <2>1. UNCHANGED <<messages, ids, now, run, pending, landed, wire>>
    BY <1>11 DEF RewindToMessage
  <2>2. shown' = SubSeq(shown, 1, i - 1) \/ shown' = shown
    BY <1>11 DEF RewindToMessage
  <2>3. \A j \in DOMAIN shown' : j \in DOMAIN shown /\ shown'[j] = shown[j]
    <3>1. i - 1 \in 0..Len(shown)
      BY <1>b
    <3>2. CASE shown' = SubSeq(shown, 1, i - 1)
      BY <1>b, <3>1, <3>2, Shortened
    <3> QED
      BY <2>2, <3>2
  <2>4. InOrder'
    BY <2>1, <2>3, <1>a DEF InOrder
  <2> QED
    BY <2>1, <2>4, <1>a DEF RunHasMessage, WireWithinTranscript
<1>12. CASE UndoOne
  BY <1>12, <1>a, <1>d DEF UndoOne, transcript, RunHasMessage, WireWithinTranscript
<1>13. CASE FinishRevert
  BY <1>13, <1>a, <1>d DEF FinishRevert, transcript, RunHasMessage, WireWithinTranscript
<1>14. CASE FinishRewind
  <2>1. /\ messages' = SubSeq(messages, 1, Len(messages) - undo.cut)
        /\ shown' = SubSeq(shown, 1, Len(shown) - undo.cut)
        /\ ids' = ids /\ now' = now /\ wire' = {} /\ run' = run /\ pending' = pending
        /\ landed' = landed
        /\ undo.kind = "rewind"
    BY <1>14 DEF FinishRewind
  <2>2. undo.cut \in 1..Len(messages) /\ undo.cut <= Len(shown) /\ run = "idle"
    BY <1>a, <2>1 DEF RewindHolds
  <2>3. Len(messages) - undo.cut \in 0..Len(messages) /\ Len(shown) - undo.cut \in 0..Len(shown)
    BY <1>b, <2>2
  <2>4. InOrder'
    BY <1>a, <2>1, <2>3, CutInOrder
  <2> QED
    BY <1>a, <2>1, <2>2, <2>4 DEF RunHasMessage, WireWithinTranscript
<1>15. CASE EndProcess
  BY <1>15, <1>7, <1>a DEF EndProcess, RunHasMessage, WireWithinTranscript
<1>17. CASE ExecuteCall
  <2>1. pending # Nobody /\ pending' = Nobody /\ UNCHANGED <<now, messages, shown, wire, ids, run>>
    BY <1>17 DEF ExecuteCall, transcript
  <2> QED
    BY <2>1, <1>a, <1>d DEF RunHasMessage, WireWithinTranscript
<1>18. CASE RefuseCall \/ TearPatch
  BY <1>18, <1>4, <1>a DEF RefuseCall, TearPatch, RunHasMessage
<1>19. CASE PersistCheckpoint \/ LoseCheckpoint
  BY <1>19, <1>4, <1>a DEF PersistCheckpoint, LoseCheckpoint, RunHasMessage
<1>16. CASE UNCHANGED rwvars
  BY <1>16, <1>a, <1>d DEF rwvars, transcript, RunHasMessage, WireWithinTranscript
<1> QED
  BY <1>1, <1>2, <1>3, <1>5, <1>6, <1>8, <1>9, <1>10, <1>11, <1>12, <1>13, <1>14,
     <1>15, <1>16, <1>17, <1>18, <1>19 DEF RwNext

(* What undoing one change leaves of the table of changes. *)
LEMMA MarkedOne ==
  ASSUME Tables, FilesInv, UndoOne, NEW k, k = Latest(undo.left)
  PROVE  /\ k \in undo.left /\ k \in DOMAIN checkpoints
         /\ DOMAIN checkpoints' = DOMAIN checkpoints /\ Len(checkpoints') = Len(checkpoints)
         /\ \A j \in DOMAIN checkpoints :
              /\ checkpoints'[j].at = checkpoints[j].at /\ checkpoints'[j].turn = checkpoints[j].turn
              /\ checkpoints'[j].call = checkpoints[j].call /\ checkpoints'[j].prev = checkpoints[j].prev
              /\ checkpoints'[j].before = checkpoints[j].before
              /\ checkpoints'[j].revertible = checkpoints[j].revertible
              /\ j # k => checkpoints'[j].reverted = checkpoints[j].reverted
         /\ CanRevert(fs, checkpoints[k].call, checkpoints[k].prev) => checkpoints'[k].reverted
         /\ undo \in Undos /\ undo' \in Undos /\ undo'.left = undo.left \ {k}
         /\ undo'.kind = undo.kind /\ undo'.cut = undo.cut /\ undo'.from = undo.from
         /\ undo'.agreed = undo.agreed
         /\ undo'.exact = (undo.exact /\ CanRevert(fs, checkpoints[k].call, checkpoints[k].prev))
<1> DEFINE c == checkpoints[k]
           can == CanRevert(fs, c.call, c.prev)
<1>1. undo # NoUndo /\ undo.left # {}
  BY DEF UndoOne
<1>2. k \in undo.left /\ k \in DOMAIN checkpoints /\ undo \in Undos
  BY <1>1, UndoTypes
<1>3. /\ undo' = [undo EXCEPT !.left = @ \ {k}, !.exact = @ /\ can]
      /\ IF can THEN checkpoints' = [checkpoints EXCEPT ![k].reverted = TRUE]
                ELSE checkpoints' = checkpoints
  BY DEF UndoOne
<1>4. checkpoints \in Seq(Changes)
  BY DEF Tables
<1>5. can \in BOOLEAN
  BY <1>2, <1>4, UndoTypes, <1>1 DEF CanRevert
<1> HIDE DEF can
<1>6. /\ undo' \in Undos /\ undo'.left = undo.left \ {k}
      /\ undo'.kind = undo.kind /\ undo'.cut = undo.cut /\ undo'.from = undo.from
      /\ undo'.agreed = undo.agreed
      /\ undo'.exact = (undo.exact /\ can)
  <2>1. undo.left \ {k} \in SUBSET Nat /\ (undo.exact /\ can) \in BOOLEAN
    BY <1>2 DEF Undos
  <2> QED
    BY <1>2, <1>3, <2>1 DEF Undos
<1>7. \A j \in DOMAIN checkpoints : checkpoints[j] \in Changes
  BY <1>4
<1>8. /\ DOMAIN checkpoints' = DOMAIN checkpoints /\ Len(checkpoints') = Len(checkpoints)
      /\ \A j \in DOMAIN checkpoints : j # k => checkpoints'[j] = checkpoints[j]
      /\ can => checkpoints'[k] = [checkpoints[k] EXCEPT !.reverted = TRUE]
      /\ ~can => checkpoints'[k] = checkpoints[k]
  BY <1>2, <1>3, <1>4
<1> HIDE DEF c
<1>9. checkpoints[k] \in Changes
  BY <1>2, <1>7
<1>10. /\ checkpoints'[k].at = checkpoints[k].at /\ checkpoints'[k].turn = checkpoints[k].turn
       /\ checkpoints'[k].call = checkpoints[k].call /\ checkpoints'[k].prev = checkpoints[k].prev
       /\ checkpoints'[k].before = checkpoints[k].before
       /\ checkpoints'[k].revertible = checkpoints[k].revertible
       /\ can => checkpoints'[k].reverted
  BY <1>8, <1>9 DEF Changes
<1> QED
  BY <1>2, <1>6, <1>8, <1>10 DEF can, c

(* A change more. *)
LEMMA PersistedOne ==
  ASSUME Tables, RunHasMessage, PersistCheckpoint, NEW n, n = Len(checkpoints)
  PROVE  /\ n \in Nat /\ DOMAIN checkpoints = 1..n /\ DOMAIN checkpoints' = 1..(n + 1)
         /\ Len(checkpoints') = n + 1
         /\ \A k \in 1..n : checkpoints'[k] = checkpoints[k] /\ checkpoints[k] \in Changes
         /\ checkpoints'[n + 1] = [call |-> landed.call, prev |-> landed.prev,
              revertible |-> landed.revertible, reverted |-> FALSE,
              at |-> now, turn |-> Turn, before |-> landed.before]
         /\ messages # <<>> /\ landed \in Landings
<1> DEFINE c == [call |-> landed.call, prev |-> landed.prev,
              revertible |-> landed.revertible, reverted |-> FALSE,
              at |-> now, turn |-> Turn, before |-> landed.before]
<1>1. checkpoints \in Seq(Changes) /\ checkpoints' = Append(checkpoints, c) /\ landed # Nobody
  BY DEF Tables, PersistCheckpoint
<1>2. landed \in Landings /\ messages # <<>>
  BY <1>1 DEF Tables, RunHasMessage
<1> HIDE DEF c
<1>3. /\ n \in Nat /\ DOMAIN checkpoints = 1..n /\ DOMAIN checkpoints' = 1..(n + 1)
      /\ Len(checkpoints') = n + 1
      /\ \A k \in 1..n : checkpoints'[k] = checkpoints[k] /\ checkpoints[k] \in Changes
      /\ checkpoints'[n + 1] = c
  BY <1>1
<1> QED
  BY <1>2, <1>3 DEF c

(* A change stays behind the messages that came after it.                  *)
LEMMA DatedNext == Tables /\ TalkInv /\ FilesInv /\ [RwNext]_rwvars => ChangesDated'
<1> SUFFICES ASSUME Tables, TalkInv, FilesInv, [RwNext]_rwvars PROVE ChangesDated'
  OBVIOUS
<1>a. InOrder /\ RunHasMessage /\ ChangesDated /\ RewindHolds
  BY DEF TalkInv
<1>b. /\ messages \in Seq(Rows) /\ shown \in Seq(Lines) /\ ids \in Nat /\ now \in Nat
      /\ DOMAIN messages = 1..Len(messages) /\ Len(messages) \in Nat
      /\ checkpoints \in Seq(Changes)
  BY RewindAssumption DEF Tables
<1>c. /\ \A k \in DOMAIN checkpoints : checkpoints[k].at \in Nat /\ checkpoints[k].turn \in Nat
      /\ \A i \in DOMAIN messages : messages[i].at \in Nat /\ messages[i].id \in Nat
  <2>1. /\ \A k \in DOMAIN checkpoints : checkpoints[k] \in Changes
        /\ \A i \in DOMAIN messages : messages[i] \in Rows
    BY <1>b
  <2> QED
    BY <2>1 DEF Rows, Changes
<1>d. ASSUME now' \in {now, now + 1}, DOMAIN checkpoints' = DOMAIN checkpoints,
             \A k \in DOMAIN checkpoints : checkpoints'[k].at = checkpoints[k].at
                                        /\ checkpoints'[k].turn = checkpoints[k].turn,
             \A i \in DOMAIN messages' : \/ i \in DOMAIN messages /\ messages'[i] = messages[i]
                                         \/ messages'[i].at = now
      PROVE ChangesDated'
  <2>1. \A k \in DOMAIN checkpoints : checkpoints'[k].at <= now'
    BY <1>a, <1>b, <1>c, <1>d DEF ChangesDated
  <2>2. \A j, k \in DOMAIN checkpoints : j <= k => checkpoints'[j].at <= checkpoints'[k].at
    BY <1>a, <1>d DEF ChangesDated
  <2>3. \A k \in DOMAIN checkpoints, i \in DOMAIN messages' :
           checkpoints'[k].turn >= messages'[i].id \/ checkpoints'[k].at <= messages'[i].at
    BY <1>a, <1>d DEF ChangesDated
  <2> QED
    BY <1>d, <2>1, <2>2, <2>3 DEF ChangesDated
<1>1. ASSUME UNCHANGED <<checkpoints, messages>>, now' \in {now, now + 1} PROVE ChangesDated'
  BY <1>1, <1>d
<1>2. ASSUME NEW role \in Speakers, SaveMessage(role, shown), UNCHANGED <<checkpoints, now>>,
             messages = <<>> => role = "user"
      PROVE  ChangesDated'
  <2>1. \A i \in DOMAIN messages' : \/ i \in DOMAIN messages /\ messages'[i] = messages[i]
                                    \/ messages'[i].at = now
    BY <1>2, <1>a, SaveInOrder
  <2> QED
    BY <1>2, <1>d, <2>1
<1>3. ASSUME NEW a \in 0..Len(messages), messages' = SubSeq(messages, 1, a), UNCHANGED <<checkpoints, now>>
      PROVE  ChangesDated'
  <2>1. \A i \in DOMAIN messages' : i \in DOMAIN messages /\ messages'[i] = messages[i]
    BY <1>3, <1>b, Shortened
  <2> QED
    BY <1>3, <1>d, <2>1
<1>4. CASE Tick
  BY <1>4, <1>1 DEF Tick, transcript
<1>5. CASE Send
  BY <1>5, <1>2 DEF Send, Speakers
<1>6. ASSUME NEW call \in Tried, CaptureBefore(call) PROVE ChangesDated'
  BY <1>6, <1>1 DEF CaptureBefore, transcript
<1>7. CASE RefuseCall
  BY <1>7, <1>1 DEF RefuseCall, Acted
<1>8. CASE PersistCheckpoint
  <2> DEFINE n == Len(checkpoints)
  <2>1. /\ n \in Nat /\ DOMAIN checkpoints = 1..n /\ DOMAIN checkpoints' = 1..(n + 1)
        /\ \A k \in 1..n : checkpoints'[k] = checkpoints[k]
        /\ checkpoints'[n + 1].at = now /\ checkpoints'[n + 1].turn = Turn
        /\ messages # <<>>
    <3> HIDE DEF n
    <3>1. n = Len(checkpoints)
      BY DEF n
    <3> QED
      BY <1>8, <1>a, <3>1, PersistedOne
  <2> HIDE DEF n
  <2>2. now' = now /\ messages' = messages
    BY <1>8 DEF PersistCheckpoint, Acted
  <2>3. \A i \in DOMAIN messages : Turn >= messages[i].id
    <3>1. Turn = messages[Len(messages)].id /\ Len(messages) \in DOMAIN messages
      BY <1>b, <2>1 DEF Turn
    <3>2. \A i \in DOMAIN messages : i < Len(messages) \/ i = Len(messages)
      BY <1>b
    <3> SUFFICES ASSUME NEW i \in DOMAIN messages PROVE Turn >= messages[i].id
      OBVIOUS
    <3>3. messages[i].id \in Nat /\ messages[Len(messages)].id \in Nat
      BY <1>c, <3>1
    <3>4. i < Len(messages) => messages[i].id < messages[Len(messages)].id
      BY <1>a, <3>1 DEF InOrder
    <3> QED
      BY <3>1, <3>2, <3>3, <3>4
  <2>4. \A k \in 1..(n + 1) : k \in 1..n \/ k = n + 1
    BY <2>1
  <2>5. \A k \in 1..(n + 1) : checkpoints'[k].at <= now
    <3>1. \A k \in 1..n : checkpoints[k].at <= now
      BY <1>a, <2>1 DEF ChangesDated
    <3> QED
      BY <1>b, <2>1, <2>4, <3>1
  <2>6. \A j, k \in 1..(n + 1) : j <= k => checkpoints'[j].at <= checkpoints'[k].at
    <3> TAKE j, k \in 1..(n + 1)
    <3> HAVE j <= k
    <3>1. CASE k = n + 1
      BY <2>1, <2>5, <3>1
    <3>2. CASE k # n + 1
      <4>1. k \in 1..n /\ j \in 1..n
        BY <2>1, <3>2
      <4> QED
        BY <1>a, <2>1, <4>1 DEF ChangesDated
    <3> QED
      BY <3>1, <3>2
  <2>7. \A k \in 1..(n + 1), i \in DOMAIN messages :
           checkpoints'[k].turn >= messages[i].id \/ checkpoints'[k].at <= messages[i].at
    BY <1>a, <2>1, <2>3, <2>4 DEF ChangesDated
  <2> QED
    BY <2>1, <2>2, <2>5, <2>6, <2>7 DEF ChangesDated
<1>9. CASE TearPatch
  BY <1>9, <1>1 DEF TearPatch, Acted
<1>10. CASE Finish
  BY <1>10, <1>2, <1>a DEF Finish, Speakers, RunHasMessage
<1>11. CASE FailSilently
  BY <1>11, <1>1 DEF FailSilently
<1>12. CASE Reload
  BY <1>12, <1>1 DEF Reload
<1>13. CASE Regenerate
  <2>1. Len(messages) - 1 \in 0..Len(messages)
    BY <1>b, <1>13 DEF Regenerate
  <2> QED
    BY <1>13, <1>3, <2>1 DEF Regenerate
<1>14. ASSUME NEW k \in DOMAIN checkpoints, RevertToCheckpoint(k) PROVE ChangesDated'
  BY <1>14, <1>1 DEF RevertToCheckpoint, transcript
<1>15. ASSUME NEW i \in DOMAIN shown, RewindToMessage(i) PROVE ChangesDated'
  BY <1>15, <1>1 DEF RewindToMessage
<1>16. CASE UndoOne
  <2>1. DOMAIN checkpoints' = DOMAIN checkpoints
        /\ \A k \in DOMAIN checkpoints : checkpoints'[k].at = checkpoints[k].at
                                        /\ checkpoints'[k].turn = checkpoints[k].turn
    BY <1>16, MarkedOne
  <2> QED
    BY <1>16, <1>d, <2>1 DEF UndoOne, transcript
<1>17. CASE FinishRevert
  BY <1>17, <1>1 DEF FinishRevert, transcript
<1>18. CASE FinishRewind
  <2>1. undo.cut \in 1..Len(messages)
    BY <1>18, <1>a DEF FinishRewind, RewindHolds
  <2>2. Len(messages) - undo.cut \in 0..Len(messages)
    BY <1>b, <2>1
  <2> QED
    BY <1>18, <1>3, <2>2 DEF FinishRewind
<1>19. CASE EndProcess
  BY <1>19, <1>1 DEF EndProcess
<1>21. CASE ExecuteCall
  BY <1>21, <1>1 DEF ExecuteCall, transcript
<1>22. CASE LoseCheckpoint
  BY <1>22, <1>1 DEF LoseCheckpoint, Acted
<1>20. CASE UNCHANGED rwvars
  BY <1>20, <1>1 DEF rwvars, transcript
<1> QED
  BY <1>4, <1>5, <1>6, <1>7, <1>8, <1>9, <1>10, <1>11, <1>12, <1>13, <1>14,
     <1>15, <1>16, <1>17, <1>18, <1>19, <1>20, <1>21, <1>22 DEF RwNext

(* Nothing moves under a rewind.                                           *)
LEMMA RewindHoldsNext == Tables /\ TalkInv /\ FilesInv /\ [RwNext]_rwvars => RewindHolds'
<1> SUFFICES ASSUME Tables, TalkInv, FilesInv, [RwNext]_rwvars, undo'.kind = "rewind" PROVE RewindHolds'
  BY DEF RewindHolds
<1>a. RunHasMessage /\ RewindHolds
  BY DEF TalkInv
<1>b. /\ messages \in Seq(Rows) /\ shown \in Seq(Lines)
      /\ Len(messages) \in Nat /\ Len(shown) \in Nat /\ DOMAIN shown = 1..Len(shown)
  BY DEF Tables
<1>c. NoUndo.kind # "rewind"
  BY DEF NoUndo
<1>1. ASSUME UNCHANGED <<run, messages, shown, undo, checkpoints>> PROVE RewindHolds'
  BY <1>1, <1>a DEF RewindHolds, Stored, LastN
<1>2. ASSUME run # "idle", undo' = undo PROVE FALSE
  BY <1>2, <1>a DEF RewindHolds
<1>3. ASSUME undo = NoUndo, undo' = undo PROVE FALSE
  BY <1>3, <1>c
<1>4. CASE Tick
  BY <1>4, <1>1 DEF Tick, transcript
<1>5. CASE Send
  BY <1>5, <1>3 DEF Send
<1>6. ASSUME NEW call \in Tried, CaptureBefore(call) PROVE RewindHolds'
  BY <1>6, <1>2 DEF CaptureBefore
<1>7. ASSUME pending # Nobody \/ landed # Nobody, undo' = undo PROVE RewindHolds'
  BY <1>7, <1>2, <1>a DEF RunHasMessage
<1>8. CASE RefuseCall \/ TearPatch
  BY <1>8, <1>7 DEF RefuseCall, TearPatch, Acted
<1>9. CASE ExecuteCall \/ PersistCheckpoint \/ LoseCheckpoint
  BY <1>9, <1>7 DEF ExecuteCall, PersistCheckpoint, LoseCheckpoint, Acted
<1>10. CASE Finish
  BY <1>10, <1>2 DEF Finish
<1>11. CASE FailSilently
  BY <1>11, <1>2 DEF FailSilently
<1>12. CASE Reload
  BY <1>12, <1>3 DEF Reload
<1>13. CASE Regenerate
  BY <1>13, <1>3 DEF Regenerate
<1>14. ASSUME NEW k \in DOMAIN checkpoints, RevertToCheckpoint(k) PROVE RewindHolds'
  BY <1>14 DEF RevertToCheckpoint, StartUndo
<1>15. ASSUME NEW i \in DOMAIN shown, RewindToMessage(i) PROVE RewindHolds'
  <2> DEFINE n == Len(shown) - i + 1
  <2>1. n \in Nat /\ n <= Len(shown)
    BY <1>b
  <2>2. undo = NoUndo /\ run' = "idle" /\ messages' = messages /\ checkpoints' = checkpoints
    BY <1>15 DEF RewindToMessage
  <2>3. undo' # undo
    BY <2>2, <1>c
  <2>4. CutTimestamp(n) # {} /\ shown' = shown
    BY <1>15, <2>3 DEF RewindToMessage
  <2>5. PICK t \in CutTimestamp(n) :
           StartUndo("rewind", {k \in DOMAIN checkpoints : checkpoints[k].at >= t}, n)
    BY <1>15, <2>3, <2>4 DEF RewindToMessage
  <2>6. n \in 1..Len(messages) /\ t = LastN(n).at
    BY <2>4 DEF CutTimestamp
  <2>7. /\ undo'.cut = n /\ undo'.agreed = (shown = Stored)
        /\ undo'.from = Targets({k \in DOMAIN checkpoints : checkpoints[k].at >= t})
    BY <2>5 DEF StartUndo
  <2>8. undo'.from \subseteq DOMAIN checkpoints /\ \A k \in undo'.from : checkpoints[k].at >= LastN(n).at
    BY <2>6, <2>7 DEF Targets
  <2>9. Stored' = Stored
    BY <2>2 DEF Stored
  <2> HIDE DEF n
  <2> QED
    BY <2>1, <2>2, <2>4, <2>6, <2>7, <2>8, <2>9 DEF RewindHolds, LastN
<1>16. CASE UndoOne
  <2>1. /\ undo'.kind = undo.kind /\ undo'.cut = undo.cut /\ undo'.from = undo.from
        /\ undo'.agreed = undo.agreed /\ DOMAIN checkpoints' = DOMAIN checkpoints
        /\ \A k \in DOMAIN checkpoints : checkpoints'[k].at = checkpoints[k].at
    BY <1>16, MarkedOne
  <2>2. UNCHANGED <<messages, shown, run>>
    BY <1>16 DEF UndoOne, transcript
  <2>3. Stored' = Stored
    BY <2>2 DEF Stored
  <2> QED
    BY <1>a, <2>1, <2>2, <2>3 DEF RewindHolds, LastN
<1>17. CASE FinishRevert
  BY <1>17, <1>c DEF FinishRevert
<1>18. CASE FinishRewind
  BY <1>18, <1>c DEF FinishRewind
<1>19. CASE EndProcess
  BY <1>19, <1>c DEF EndProcess
<1>20. CASE UNCHANGED rwvars
  BY <1>20, <1>1 DEF rwvars, transcript
<1> QED
  BY <1>4, <1>5, <1>6, <1>8, <1>9, <1>10, <1>11, <1>12, <1>13, <1>14,
     <1>15, <1>16, <1>17, <1>18, <1>19, <1>20 DEF RwNext

(* So the transcript keeps its order.                                      *)
LEMMA TalkNext == Tables /\ TalkInv /\ FilesInv /\ [RwNext]_rwvars => TalkInv'
BY OrderNext, DatedNext, RewindHoldsNext DEF TalkInv

-----------------------------------------------------------------------------
(* The files can be found again. *)

(* At first there is nothing to take back.                                 *)
LEMMA FilesInit == RwInit => FilesInv
<1> SUFFICES ASSUME RwInit PROVE FilesInv
  OBVIOUS
<1>1. checkpoints = <<>> /\ undo = NoUndo /\ landed = Nobody
  BY DEF RwInit
<1>2. DOMAIN checkpoints = {}
  BY <1>1
<1> QED
  BY <1>1, <1>2 DEF FilesInv, Chained, Live, Clear

(* The changes an undo begins with. *)
LEMMA StartedOne ==
  ASSUME FilesInv, NEW kind, NEW cut, NEW S \in SUBSET DOMAIN checkpoints,
         \A j \in S, k \in DOMAIN checkpoints : j <= k => k \in S,
         checkpoints \in Seq(Changes),
         StartUndo(kind, S, cut), UNCHANGED <<fs, landed, checkpoints, spoilt>>
  PROVE  FilesInv'
<1>1. undo'.from = Targets(S) /\ undo'.left = Targets(S) /\ undo'.exact = Exact(S)
  BY DEF StartUndo
<1>2. DOMAIN checkpoints \subseteq Nat
  OBVIOUS
<1>3. \A k \in Targets(S) : k \in S /\ ~checkpoints[k].reverted /\ checkpoints[k].revertible
  BY DEF Targets
<1>4. \A k \in S : ~checkpoints[k].reverted /\ checkpoints[k].revertible => k \in Targets(S)
  BY DEF Targets
<1>5. Begun(checkpoints, undo')
  BY <1>1, <1>3 DEF Begun
<1>6. \A k \in undo'.left, j \in Live(checkpoints) : k < j /\ checkpoints[j].revertible => j \in undo'.left
  BY <1>1, <1>2, <1>3, <1>4 DEF Live
<1>7. undo'.exact => undo'.from \subseteq Clear(checkpoints)
  BY <1>1, <1>2, <1>3 DEF Exact, FilesInv, Clear
<1>8. Undoing(checkpoints, Found, undo', spoilt)
  BY <1>1, <1>6, <1>7 DEF Undoing
<1>9. Found' = Found
  BY DEF Found
<1> QED
  BY <1>1, <1>5, <1>8, <1>9 DEF FilesInv

(* Nothing is said of changes up to t. *)
LEMMA NothingSaid ==
  ASSUME NEW cs, NEW f, NEW t \in Nat, \A k \in DOMAIN cs : k \in Nat /\ k <= t
  PROVE  /\ Chained(cs, f, t)
         /\ \A u : Begun(cs, u) => Undoing(cs, f, u, t)
<1>1. \A k \in DOMAIN cs : ~(k > t)
  OBVIOUS
<1>2. Chained(cs, f, t)
  BY <1>1 DEF Chained, Live
<1>3. ASSUME NEW u, Begun(cs, u) PROVE Undoing(cs, f, u, t)
  <2>1. u.from \subseteq DOMAIN cs /\ u.left \subseteq u.from
    BY <1>3 DEF Begun
  <2>2. (\A k \in u.from : k > t) => u.from = {} /\ u.left = {}
    BY <1>1, <2>1
  <2> QED
    BY <1>1, <2>1, <2>2 DEF Undoing, Live
<1> QED
  BY <1>2, <1>3

(* What is said of the changes after t holds of those after a later one.   *)
LEMMA LessSaid ==
  ASSUME NEW cs, NEW f, NEW t \in Nat, NEW v \in Nat, t <= v, DOMAIN cs \subseteq Nat, Chained(cs, f, t)
  PROVE  /\ Chained(cs, f, v)
         /\ \A u : Begun(cs, u) /\ Undoing(cs, f, u, t) => Undoing(cs, f, u, v)
<1>1. \A k \in DOMAIN cs : k > v => k > t
  OBVIOUS
<1>2. Chained(cs, f, v)
  BY <1>1 DEF Chained, Live
<1>3. ASSUME NEW u, Begun(cs, u), Undoing(cs, f, u, t) PROVE Undoing(cs, f, u, v)
  <2>1. (\A k \in u.from : k > v) => \A k \in u.from : k > t
    BY <1>1, <1>3 DEF Begun
  <2> QED
    BY <1>1, <1>3, <2>1 DEF Undoing, Live
<1> QED
  BY <1>2, <1>3

(* A call that has run can be taken back, if what was captured were the    *)
(* files it ran on.                                                        *)
LEMMA ExecutedFiles ==
  ASSUME Tables, RunHasMessage, FilesInv, ExecuteCall
  PROVE  FilesInv'
<1>1. /\ pending # Nobody /\ pending \in Captures /\ landed = Nobody
      /\ checkpoints \in Seq(Changes) /\ Len(checkpoints) \in Nat
      /\ DOMAIN checkpoints = 1..Len(checkpoints) /\ spoilt \in 0..Len(checkpoints)
  BY DEF Tables, RunHasMessage, ExecuteCall, Made
<1>2. /\ pending.capture = Capture(pending.seen, pending.call) /\ pending.seen \in FileSystems
      /\ pending.call \in Calls /\ fs \in FileSystems /\ CanApply(fs, pending.call)
      /\ fs' = Apply(fs, pending.call) /\ undo' = undo /\ checkpoints' = checkpoints
      /\ spoilt' = (IF undo # NoUndo \/ fs # pending.seen THEN Len(checkpoints) + 1 ELSE spoilt)
      /\ landed'.call = pending.call /\ landed'.prev = pending.capture.prev
      /\ landed'.revertible = pending.capture.revertible /\ landed'.before = fs.file
  BY <1>1, RewindAssumption DEF Tables, ExecuteCall, Captures
<1>3. Taken(landed')
  BY <1>2 DEF Taken
<1>4. landed' # Nobody
  <2>1. DOMAIN landed' = {"call", "prev", "revertible", "before"} /\ DOMAIN Nobody = {"call"}
    BY DEF ExecuteCall, Nobody
  <2> QED
    BY <2>1
<1>5. Found' = fs.file /\ Found = fs.file
  BY <1>1, <1>2, <1>4 DEF Found
<1>6. spoilt \in Nat /\ spoilt' \in Nat /\ spoilt <= spoilt' /\ DOMAIN checkpoints \subseteq Nat
  BY <1>1, <1>2
<1>7. Chained(checkpoints, fs.file, spoilt')
  BY <1>5, <1>6, LessSaid DEF FilesInv
<1>8. undo # NoUndo => Undoing(checkpoints, fs.file, undo, spoilt')
  BY <1>5, <1>6, LessSaid DEF FilesInv
<1>9. ASSUME landed'.revertible, spoilt' <= Len(checkpoints)
      PROVE  Undoes(landed', fs'.file) /\ Undoes(landed', landed'.before)
  <2>1. fs = pending.seen
    BY <1>1, <1>2, <1>9
  <2> QED
    BY <1>2, <1>9, <2>1, ApplyUndone
<1>10. \A k \in DOMAIN checkpoints : /\ Taken(checkpoints[k])
                                      /\ checkpoints[k].reverted => checkpoints[k].revertible
  BY DEF FilesInv
<1>11. undo # NoUndo => Begun(checkpoints, undo)
  BY DEF FilesInv
<1> QED
  BY <1>2, <1>3, <1>5, <1>7, <1>8, <1>9, <1>10, <1>11 DEF FilesInv

(* So it is once its checkpoint is stored. *)
LEMMA PersistedFiles ==
  ASSUME Tables, RunHasMessage, FilesInv, PersistCheckpoint
  PROVE  FilesInv'
<1> DEFINE n == Len(checkpoints)
           c == checkpoints'[n + 1]
<1>1. /\ n \in Nat /\ DOMAIN checkpoints = 1..n /\ DOMAIN checkpoints' = 1..(n + 1)
      /\ \A k \in 1..n : checkpoints'[k] = checkpoints[k]
      /\ c.call = landed.call /\ c.prev = landed.prev
      /\ c.revertible = landed.revertible /\ c.reverted = FALSE
      /\ c.before = landed.before
      /\ landed \in Landings
  <2> HIDE DEF n
  <2>1. n = Len(checkpoints)
    BY DEF n
  <2> QED
    BY <2>1, PersistedOne
<1> HIDE DEF n, c
<1>2. /\ landed # Nobody /\ landed' = Nobody /\ fs' = fs /\ undo' = undo
      /\ spoilt' = (IF undo # NoUndo THEN n + 1 ELSE spoilt)
      /\ spoilt \in 0..(n + 1)
  BY DEF Tables, PersistCheckpoint, Acted, Made, n
<1>3. Found = landed.before /\ Found' = fs.file
  BY <1>2 DEF Found
<1>4. \A k \in 1..(n + 1) : k \in 1..n \/ k = n + 1
  BY <1>1
<1>5. c = checkpoints'[n + 1] /\ n + 1 \in 1..(n + 1) /\ \A k \in 1..n : k \in 1..(n + 1) /\ k < n + 1
  BY <1>1 DEF c
<1>a. Taken(c)
  BY <1>1, <1>2 DEF FilesInv, Taken
<1>6. \A k \in 1..(n + 1) : Taken(checkpoints'[k])
  BY <1>1, <1>a, <1>4, <1>5 DEF FilesInv
<1>7. \A k \in 1..(n + 1) : checkpoints'[k].reverted => checkpoints'[k].revertible
  BY <1>1, <1>4, <1>5 DEF FilesInv
<1>8. Live(checkpoints') = Live(checkpoints) \cup {n + 1}
  BY <1>1, <1>4, <1>5 DEF Live
<1>9. undo # NoUndo => Begun(checkpoints', undo)
  BY <1>1, <1>5 DEF FilesInv, Begun
<1>b. ASSUME spoilt' > n PROVE FilesInv'
  <2>1. spoilt' \in Nat /\ \A k \in DOMAIN checkpoints' : k \in Nat /\ k <= spoilt'
    BY <1>1, <1>2, <1>b
  <2>2. Chained(checkpoints', fs.file, spoilt')
    BY <2>1, NothingSaid
  <2>3. undo # NoUndo => Undoing(checkpoints', fs.file, undo, spoilt')
    BY <1>9, <2>1, NothingSaid
  <2> QED
    BY <1>1, <1>2, <1>3, <1>6, <1>7, <1>9, <2>2, <2>3 DEF FilesInv
<1>10. ASSUME spoilt' <= n PROVE Chained(checkpoints', fs.file, spoilt)
  <2>1. spoilt <= n
    BY <1>1, <1>2, <1>10
  <2>2. c.revertible => Undoes(c, fs.file) /\ Undoes(c, c.before)
    BY <1>1, <1>2, <2>1 DEF FilesInv, Undoes, n
  <2>3. Chained(checkpoints, landed.before, spoilt)
    BY <1>3 DEF FilesInv
  <2>4. \A k \in Clear(checkpoints') : k \in 1..n => k \in Clear(checkpoints)
    BY <1>1, <1>5 DEF Clear
  <2>5. \A k \in DOMAIN checkpoints' : k > spoilt /\ checkpoints'[k].revertible => Undoes(checkpoints'[k], checkpoints'[k].before)
    BY <1>1, <1>4, <1>5, <2>2, <2>3 DEF Chained
  <2> SUFFICES ASSUME NEW k \in Live(checkpoints') \cap Clear(checkpoints'), k > spoilt
               PROVE  /\ \A m \in Live(checkpoints') : k < m /\ Adjacent(checkpoints', k, m) =>
                           Undoes(checkpoints'[k], checkpoints'[m].before)
                      /\ (\A m \in Live(checkpoints') : m <= k) => Undoes(checkpoints'[k], fs.file)
    BY <2>5 DEF Chained
  <2>6. CASE k = n + 1
    <3>1. c.revertible
      BY <1>1, <1>5, <2>6 DEF Clear
    <3>2. \A m \in Live(checkpoints') : ~(k < m)
      BY <1>1, <2>6 DEF Live
    <3> QED
      BY <1>5, <2>2, <2>6, <3>1, <3>2
  <2>7. CASE k \in 1..n
    <3>1. k \in Live(checkpoints) /\ k \in Clear(checkpoints) /\ checkpoints'[k] = checkpoints[k] /\ k < n + 1
      BY <1>1, <1>5, <2>4, <2>7 DEF Live
    <3>2. ASSUME NEW m \in Live(checkpoints'), k < m, Adjacent(checkpoints', k, m)
          PROVE  Undoes(checkpoints'[k], checkpoints'[m].before)
      <4>1. CASE m \in Live(checkpoints)
        <5>1. Adjacent(checkpoints, k, m) /\ checkpoints'[m] = checkpoints[m]
          BY <1>1, <1>8, <3>2, <4>1 DEF Adjacent, Live
        <5> QED
          BY <2>3, <3>1, <3>2, <4>1, <5>1 DEF Chained
      <4>2. CASE m = n + 1
        <5>1. \A j \in Live(checkpoints) : j <= k
          BY <1>1, <1>5, <1>8, <3>2, <4>2, <3>1 DEF Adjacent, Live
        <5> QED
          BY <1>1, <1>5, <2>3, <3>1, <4>2, <5>1 DEF Chained
      <4> QED
        BY <1>8, <4>1, <4>2
    <3>3. n + 1 \in Live(checkpoints') /\ ~(n + 1 <= k)
      BY <1>1, <1>8, <2>7
    <3> QED
      BY <3>2, <3>3
  <2> QED
    BY <1>1, <1>4, <2>6, <2>7 DEF Live
<1>11. ASSUME spoilt' <= n PROVE FilesInv'
  <2>1. undo = NoUndo /\ spoilt' = spoilt
    BY <1>1, <1>2, <1>11
  <2> QED
    BY <1>1, <1>2, <1>3, <1>6, <1>7, <1>10, <1>11, <2>1 DEF FilesInv
<1>12. spoilt' \in Nat
  BY <1>1, <1>2
<1> QED
  BY <1>1, <1>12, <1>b, <1>11

(* The latest of what is left: if all later changes can be taken back, none *)
(* of them is live; otherwise no live change is followed by such alone.     *)
LEMMA NothingLater ==
  ASSUME NEW cs, DOMAIN cs \subseteq Nat, NEW f, NEW u, NEW t \in Nat, Begun(cs, u), Undoing(cs, f, u, t),
         NEW k \in u.left, \A j \in u.left : j <= k
  PROVE  /\ k \in Live(cs)
         /\ k \in Clear(cs) /\ k > t => \A j \in Live(cs) : j <= k
         /\ \A j \in Live(cs) \cap Clear(cs) : j > t => k \in Clear(cs) /\ j <= k
<1>1. k \in DOMAIN cs /\ k \in Live(cs) /\ k \in Nat
  BY DEF Begun, Live
<1>2. ASSUME NEW j \in Live(cs), j > k, j > t, cs[j].revertible PROVE FALSE
  <2>1. j \in Nat /\ k < j
    BY <1>1, <1>2 DEF Live
  <2>2. j \in u.left
    BY <1>2, <2>1 DEF Undoing
  <2> QED
    BY <1>1, <2>1, <2>2
<1>3. \A j \in Live(cs) : j \in Nat /\ j \in DOMAIN cs
  BY DEF Live
<1>4. ASSUME k \in Clear(cs), k > t, NEW j \in Live(cs), ~(j <= k) PROVE FALSE
  <2>1. j > k /\ j >= k /\ j > t /\ j \in DOMAIN cs
    BY <1>1, <1>3, <1>4
  <2>2. cs[j].revertible
    BY <1>4, <2>1 DEF Clear
  <2> QED
    BY <1>2, <2>1, <2>2
<1>5. ASSUME NEW j \in Live(cs) \cap Clear(cs), j > t PROVE k \in Clear(cs) /\ j <= k
  <2>1. cs[j].revertible
    BY <1>1, <1>3 DEF Clear
  <2>2. j <= k
    BY <1>1, <1>2, <1>3, <1>5, <2>1
  <2>3. \A i \in DOMAIN cs : i >= k => i >= j
    BY <1>1, <1>3, <2>2
  <2> QED
    BY <1>1, <2>2, <2>3 DEF Clear
<1> QED
  BY <1>1, <1>4, <1>5

(* One change more is taken back: the files are those from before it.      *)
LEMMA UndoneOneFiles ==
  ASSUME Tables, FilesInv, UndoOne
  PROVE  FilesInv'
<1> DEFINE k == Latest(undo.left)
           cs == checkpoints
           ds == checkpoints'
           f  == fs'.file
<1>1. /\ k \in undo.left /\ k \in DOMAIN cs
      /\ DOMAIN ds = DOMAIN cs
      /\ \A j \in DOMAIN cs : /\ ds[j].call = cs[j].call /\ ds[j].prev = cs[j].prev
                              /\ ds[j].before = cs[j].before /\ ds[j].revertible = cs[j].revertible
                              /\ j # k => ds[j].reverted = cs[j].reverted
      /\ CanRevert(fs, cs[k].call, cs[k].prev) => ds[k].reverted
      /\ undo \in Undos /\ undo' \in Undos /\ undo'.left = undo.left \ {k} /\ undo'.from = undo.from
      /\ undo'.exact = (undo.exact /\ CanRevert(fs, cs[k].call, cs[k].prev))
  BY MarkedOne
<1>2. /\ undo # NoUndo /\ undo.left # {}
      /\ CanRevert(fs, cs[k].call, cs[k].prev) => fs' = Revert(fs, cs[k].call, cs[k].prev)
      /\ CanRevert(fs, cs[k].call, cs[k].prev) /\ landed = Nobody => spoilt' = spoilt
      /\ ~(CanRevert(fs, cs[k].call, cs[k].prev) /\ landed = Nobody) => spoilt' = Made
      /\ landed' = landed
  BY DEF UndoOne
<1>3. /\ \A j \in undo.left : j <= k
      /\ DOMAIN cs \subseteq Nat /\ cs[k].revertible /\ fs \in FileSystems
      /\ DOMAIN cs = 1..Len(cs) /\ Len(cs) \in Nat /\ spoilt \in Nat
  <2>1. Made \in Nat
    BY DEF Tables, Made
  <2> QED
    BY <1>2, <2>1, UndoTypes DEF Tables
<1> HIDE DEF k, ds, f
<1>4. \A j \in DOMAIN ds : Taken(ds[j])
  BY <1>1 DEF FilesInv, Taken
<1>5. \A j \in DOMAIN ds : ds[j].reverted => ds[j].revertible
  BY <1>1, <1>3 DEF FilesInv
<1>6. Begun(cs, undo)
  BY <1>2 DEF FilesInv
<1>a. /\ undo.from \subseteq DOMAIN cs /\ undo.left \subseteq undo.from
      /\ undo'.from \ undo'.left = (undo.from \ undo.left) \cup {k}
  BY <1>1, <1>6 DEF Begun
<1>b. \A j \in undo'.left : ~ds[j].reverted /\ ds[j].revertible
  BY <1>1, <1>6, <1>a DEF Begun
<1>c. \A j \in undo'.left, i \in undo'.from \ undo'.left : j < i
  <2> TAKE j \in undo'.left, i \in undo'.from \ undo'.left
  <2>1. j \in undo.left /\ j # k /\ j <= k /\ j \in Nat /\ k \in Nat
    BY <1>1, <1>3, <1>a
  <2> QED
    BY <1>6, <1>a, <2>1 DEF Begun
<1>d. Begun(ds, undo')
  BY <1>1, <1>a, <1>b, <1>c DEF Begun
<1>e. ASSUME ~(CanRevert(fs, cs[k].call, cs[k].prev) /\ landed = Nobody) PROVE FilesInv'
  <2>1. spoilt' = Made /\ Made \in Nat /\ Len(cs) <= Made
    BY <1>2, <1>3, <1>e DEF Made
  <2>2. spoilt' \in Nat /\ \A j \in DOMAIN ds : j \in Nat /\ j <= spoilt'
    BY <1>1, <1>3, <2>1
  <2>3. Chained(ds, Found', spoilt') /\ Undoing(ds, Found', undo', spoilt')
    BY <1>d, <2>2, NothingSaid
  <2>6. Len(ds) = Len(cs)
    BY MarkedOne DEF ds
  <2>5. landed # Nobody => spoilt' > Len(ds)
    BY <1>3, <2>1, <2>6 DEF Made
  <2>4. landed # Nobody => ~(spoilt' <= Len(ds))
    BY <1>3, <2>1, <2>6 DEF Made
  <2> QED
    BY <1>2, <1>4, <1>5, <1>d, <2>3, <2>4, <2>5 DEF FilesInv, ds
<1>7. ASSUME CanRevert(fs, cs[k].call, cs[k].prev), landed = Nobody
      PROVE  Chained(ds, f, spoilt) /\ Undoing(ds, f, undo', spoilt)
  <2>1. CanRevert(fs, cs[k].call, cs[k].prev) /\ fs' = Revert(fs, cs[k].call, cs[k].prev)
    BY <1>2, <1>7
  <2>2. Chained(cs, fs.file, spoilt) /\ Undoing(cs, fs.file, undo, spoilt)
    BY <1>2, <1>7 DEF FilesInv, Found
  <2>3. /\ k \in Live(cs)
        /\ k \in Clear(cs) /\ k > spoilt => \A j \in Live(cs) : j <= k
        /\ \A j \in Live(cs) \cap Clear(cs) : j > spoilt => k \in Clear(cs) /\ j <= k
    BY <1>1, <1>3, <1>6, <2>2, NothingLater
  <2>4. Live(ds) = Live(cs) \ {k}
    BY <1>1, <2>1 DEF Live
  <2>5. Clear(ds) = Clear(cs)
    BY <1>1 DEF Clear
  <2>6. \A j \in DOMAIN cs : \A g : Undoes(ds[j], g) <=> Undoes(cs[j], g)
    BY <1>1 DEF Undoes
  <2>7. k \in Clear(cs) /\ k > spoilt => f = cs[k].before
    <3>1. k \in Clear(cs) /\ k > spoilt => Undoes(cs[k], fs.file)
      BY <2>2, <2>3 DEF Chained
    <3> QED
      BY <1>3, <2>1, <3>1, UndoneFiles DEF f
  <2>8. \A j \in DOMAIN ds : j > spoilt /\ ds[j].revertible => Undoes(ds[j], ds[j].before)
    BY <1>1, <2>2, <2>6 DEF Chained
  <2>9. ASSUME NEW j \in Live(ds) \cap Clear(ds), j > spoilt
        PROVE  /\ \A n \in Live(ds) : j < n /\ Adjacent(ds, j, n) => Undoes(ds[j], ds[n].before)
               /\ (\A n \in Live(ds) : n <= j) => Undoes(ds[j], f)
    <3>1. j \in Live(cs) /\ j \in Clear(cs) /\ k \in Clear(cs) /\ j <= k /\ j # k
      BY <2>3, <2>4, <2>5, <2>9
    <3>2. j \in DOMAIN cs /\ j \in Nat /\ k \in Nat /\ j < k /\ k > spoilt
      BY <2>9, <1>1, <1>3, <3>1 DEF Live
    <3>3. ASSUME NEW n \in Live(ds), j < n, Adjacent(ds, j, n)
          PROVE  Undoes(ds[j], ds[n].before)
      <4>1. n \in Live(cs) /\ n \in DOMAIN cs /\ n <= k /\ n # k /\ n \in Nat
        BY <1>3, <2>3, <2>4, <3>1, <3>2 DEF Live
      <4>2. Adjacent(cs, j, n)
        BY <2>4, <3>2, <3>3, <4>1 DEF Adjacent
      <4> QED
        BY <1>1, <2>2, <2>6, <2>9, <3>1, <3>2, <3>3, <4>1, <4>2 DEF Chained
    <3>4. ASSUME \A n \in Live(ds) : n <= j
          PROVE  Undoes(ds[j], f)
      <4>1. \A n \in Live(cs) : n \in Nat
        BY <1>3 DEF Live
      <4>2. Adjacent(cs, j, k)
        BY <2>4, <3>2, <3>4, <4>1 DEF Adjacent
      <4>3. Undoes(cs[j], cs[k].before)
        BY <2>2, <2>3, <2>9, <3>1, <3>2, <4>2 DEF Chained
      <4> QED
        BY <2>6, <2>7, <3>1, <3>2, <4>3
    <3> QED
      BY <3>3, <3>4
  <2>10. Chained(ds, f, spoilt)
    BY <2>8, <2>9 DEF Chained
  <2>11. undo'.exact = undo.exact
    <3>1. undo.exact \in BOOLEAN
      BY <1>1 DEF Undos
    <3> QED
      BY <1>1, <2>1, <3>1
  <2>12. \A j \in undo'.left, i \in Live(ds) : j < i /\ i > spoilt /\ ds[i].revertible => i \in undo'.left
    BY <1>1, <2>2, <2>4, <1>a DEF Live, Undoing
  <2>13. undo'.exact /\ (\A i \in undo'.from : i > spoilt) => undo'.from \subseteq Clear(ds)
    BY <1>1, <2>2, <2>5, <2>11 DEF Undoing
  <2>14. undo'.exact /\ (\A i \in undo'.from : i > spoilt) =>
           \E i \in undo'.from \ undo'.left : f = ds[i].before /\ \A j \in undo'.from \ undo'.left : i <= j
    <3> SUFFICES ASSUME undo'.exact, \A i \in undo'.from : i > spoilt
                 PROVE  f = ds[k].before /\ \A j \in undo'.from \ undo'.left : k <= j
      BY <1>a
    <3>1. k \in Clear(cs) /\ k > spoilt
      BY <1>1, <2>2, <2>11, <1>a DEF Undoing
    <3>2. \A j \in undo.from \ undo.left : j \in Nat /\ k \in Nat /\ k < j
      BY <1>1, <1>3, <1>6, <1>a DEF Begun
    <3>3. k <= k
      BY <1>1, <1>3
    <3>4. \A j \in undo'.from \ undo'.left : k <= j
      BY <1>a, <3>2, <3>3
    <3> QED
      BY <1>1, <2>7, <3>1, <3>4
  <2>15. Undoing(ds, f, undo', spoilt)
    BY <2>12, <2>13, <2>14 DEF Undoing
  <2> QED
    BY <2>10, <2>15
<1>8. ASSUME CanRevert(fs, cs[k].call, cs[k].prev), landed = Nobody PROVE FilesInv'
  <2>1. landed' = Nobody /\ spoilt' = spoilt /\ Found' = f
    BY <1>2, <1>8 DEF Found, f
  <2> QED
    BY <1>4, <1>5, <1>7, <1>8, <1>d, <2>1 DEF FilesInv, ds
<1> QED
  BY <1>e, <1>8

(* A change taken back and not marked can be taken back again. *)
LEMMA EndedFiles ==
  ASSUME Tables, FilesInv, EndProcess
  PROVE  FilesInv'
<1>1. undo' = NoUndo /\ landed' = Nobody /\ checkpoints' = checkpoints
      /\ spoilt' = (IF landed # Nobody THEN Len(checkpoints) ELSE spoilt)
  BY DEF EndProcess
<1>a. /\ DOMAIN checkpoints = 1..Len(checkpoints) /\ Len(checkpoints) \in Nat /\ spoilt \in Nat
  <2>1. Made \in Nat
    BY DEF Tables, Made
  <2> QED
    BY <2>1 DEF Tables
<1>b. ASSUME landed # Nobody PROVE Chained(checkpoints, fs'.file, spoilt')
  <2>1. spoilt' \in Nat /\ \A k \in DOMAIN checkpoints : k \in Nat /\ k <= spoilt'
    BY <1>1, <1>a, <1>b
  <2> QED
    BY <2>1, NothingSaid
<1>2. ASSUME landed = Nobody PROVE Chained(checkpoints, fs'.file, spoilt)
  <2>1. Chained(checkpoints, fs.file, spoilt)
    BY <1>2 DEF FilesInv, Found
  <2>2. CASE fs' = fs
    BY <2>1, <2>2
  <2>3. CASE fs' # fs
    <3> DEFINE k == Latest(undo.left)
               c == checkpoints[k]
    <3>1. /\ undo # NoUndo /\ undo.left # {}
          /\ CanRevert(fs, c.call, c.prev) /\ fs' = Revert(fs, c.call, c.prev)
      BY <2>3 DEF EndProcess
    <3>2. /\ k \in undo.left /\ k \in DOMAIN checkpoints /\ \A j \in undo.left : j <= k
          /\ c.revertible /\ fs \in FileSystems /\ DOMAIN checkpoints \subseteq Nat
      BY <3>1, UndoTypes DEF Tables
    <3> HIDE DEF k
    <3>3. Undoing(checkpoints, fs.file, undo, spoilt) /\ Begun(checkpoints, undo)
      BY <1>2, <3>1 DEF FilesInv, Found
    <3>4. /\ k \in Live(checkpoints)
          /\ k \in Clear(checkpoints) /\ k > spoilt => \A j \in Live(checkpoints) : j <= k
          /\ \A j \in Live(checkpoints) \cap Clear(checkpoints) : j > spoilt => k \in Clear(checkpoints) /\ j <= k
      BY <1>a, <3>2, <3>3, NothingLater
    <3>5. k > spoilt => Undoes(c, c.before)
      BY <2>1, <3>2 DEF Chained
    <3>6. ASSUME NEW j \in Live(checkpoints) \cap Clear(checkpoints), j > spoilt, \A n \in Live(checkpoints) : n <= j
          PROVE  Undoes(checkpoints[j], fs'.file)
      <4>1. j = k /\ k \in Clear(checkpoints) /\ k > spoilt
        BY <3>2, <3>4, <3>6 DEF Live
      <4>2. Undoes(c, fs.file)
        BY <2>1, <3>4, <4>1 DEF Chained
      <4>3. fs'.file = c.before
        BY <3>1, <3>2, <4>2, UndoneFiles
      <4> QED
        BY <3>5, <4>1, <4>3
    <3> QED
      BY <2>1, <3>6 DEF Chained
  <2> QED
    BY <2>2, <2>3
<1> QED
  BY <1>1, <1>2, <1>b DEF FilesInv, Found

(* Every step keeps the chain of changes whole.                            *)
LEMMA FilesNext == Tables /\ TalkInv /\ FilesInv /\ [RwNext]_rwvars => FilesInv'
<1> SUFFICES ASSUME Tables, TalkInv, FilesInv, [RwNext]_rwvars PROVE FilesInv'
  OBVIOUS
<1>1. ASSUME UNCHANGED <<fs, landed, checkpoints, spoilt>>, undo' = undo \/ undo' = NoUndo PROVE FilesInv'
  <2>1. Found' = Found
    BY <1>1 DEF Found
  <2> QED
    BY <1>1, <2>1 DEF FilesInv
<1>2. checkpoints \in Seq(Changes) /\ DOMAIN checkpoints \subseteq Nat
  BY DEF Tables
<1>3. CASE Tick
  BY <1>3, <1>1 DEF Tick
<1>4. CASE Send
  BY <1>4, <1>1 DEF Send
<1>5. ASSUME NEW call \in Tried, CaptureBefore(call) PROVE FilesInv'
  BY <1>5, <1>1 DEF CaptureBefore
<1>6. CASE RefuseCall
  BY <1>6, <1>1 DEF RefuseCall, Acted
<1>7. CASE ExecuteCall
  BY <1>7, ExecutedFiles DEF TalkInv
<1>a. ASSUME UNCHANGED <<checkpoints, undo>>, landed' = Nobody, spoilt' = Len(checkpoints) PROVE FilesInv'
  <2>1. spoilt' \in Nat /\ \A k \in DOMAIN checkpoints : k \in Nat /\ k <= spoilt'
    BY <1>2, <1>a
  <2>2. Chained(checkpoints, Found', spoilt') /\ \A u : Begun(checkpoints, u) => Undoing(checkpoints, Found', u, spoilt')
    BY <2>1, NothingSaid
  <2> QED
    BY <1>a, <2>2 DEF FilesInv
<1>8. CASE TearPatch
  <2>1. CASE fs' = fs
    <3>1. UNCHANGED <<fs, landed, checkpoints, undo, spoilt>>
      BY <1>8, <2>1 DEF TearPatch, Acted
    <3> QED
      BY <3>1, <1>1
  <2>2. CASE fs' # fs
    <3>1. spoilt' = Len(checkpoints) /\ checkpoints' = checkpoints /\ undo' = undo /\ landed' = Nobody
      BY <1>8, <2>2 DEF TearPatch, Acted, TalkInv, RunHasMessage
    <3> QED
      BY <3>1, <1>a
  <2> QED
    BY <2>1, <2>2
<1>20. CASE PersistCheckpoint
  BY <1>20, PersistedFiles DEF TalkInv
<1>21. CASE LoseCheckpoint
  BY <1>21, <1>a DEF LoseCheckpoint, Acted
<1>9. CASE Finish
  BY <1>9, <1>1 DEF Finish
<1>10. CASE FailSilently
  BY <1>10, <1>1 DEF FailSilently
<1>11. CASE Reload
  BY <1>11, <1>1 DEF Reload
<1>12. CASE Regenerate
  BY <1>12, <1>1 DEF Regenerate
<1>13. ASSUME NEW k \in DOMAIN checkpoints, RevertToCheckpoint(k) PROVE FilesInv'
  <2> DEFINE S == {j \in DOMAIN checkpoints : j >= k}
  <2>1. \A j \in S, i \in DOMAIN checkpoints : j <= i => i \in S
    BY <1>2
  <2>2. StartUndo("revert", S, 0) /\ UNCHANGED <<fs, landed, checkpoints, spoilt>>
    BY <1>13 DEF RevertToCheckpoint
  <2>3. S \in SUBSET DOMAIN checkpoints
    OBVIOUS
  <2> HIDE DEF S
  <2> QED
    BY <1>2, <2>1, <2>2, <2>3, StartedOne
<1>14. ASSUME NEW i \in DOMAIN shown, RewindToMessage(i) PROVE FilesInv'
  <2> DEFINE n == Len(shown) - i + 1
  <2>1. UNCHANGED <<fs, landed, checkpoints, spoilt>>
    BY <1>14 DEF RewindToMessage
  <2>2. CASE undo' = undo
    BY <1>1, <2>1, <2>2
  <2>3. CASE undo' # undo
    <3>1. PICK t \in CutTimestamp(n) :
             StartUndo("rewind", {k \in DOMAIN checkpoints : checkpoints[k].at >= t}, n)
      BY <1>14, <2>3 DEF RewindToMessage
    <3> DEFINE S == {k \in DOMAIN checkpoints : checkpoints[k].at >= t}
    <3>2. t \in Nat
      <4>1. n \in 1..Len(messages) /\ t = messages[Len(messages) - n + 1].at /\ messages \in Seq(Rows)
        BY <3>1 DEF CutTimestamp, LastN, Tables
      <4>2. Len(messages) \in Nat
        BY <4>1
      <4> HIDE DEF n
      <4>3. Len(messages) - n + 1 \in 1..Len(messages)
        BY <4>1, <4>2
      <4>4. messages[Len(messages) - n + 1] \in Rows
        BY <4>1, <4>3
      <4> QED
        BY <4>1, <4>4 DEF Rows
    <3>3. \A k \in DOMAIN checkpoints : checkpoints[k].at \in Nat
      <4>1. \A k \in DOMAIN checkpoints : checkpoints[k] \in Changes
        BY <1>2
      <4> QED
        BY <4>1 DEF Changes
    <3>4. \A j \in S, k \in DOMAIN checkpoints : j <= k => k \in S
      <4> TAKE j \in S, k \in DOMAIN checkpoints
      <4> HAVE j <= k
      <4>1. checkpoints[j].at <= checkpoints[k].at /\ checkpoints[j].at >= t
        BY DEF TalkInv, ChangesDated
      <4>2. checkpoints[j].at \in Nat /\ checkpoints[k].at \in Nat
        BY <3>3
      <4>3. checkpoints[k].at >= t
        BY <3>2, <4>1, <4>2
      <4> QED
        BY <4>3
    <3>5. S \in SUBSET DOMAIN checkpoints /\ StartUndo("rewind", S, n)
      BY <3>1
    <3> HIDE DEF S, n
    <3> QED
      BY <1>2, <2>1, <3>4, <3>5, StartedOne
  <2> QED
    BY <2>2, <2>3
<1>15. CASE UndoOne
  BY <1>15, UndoneOneFiles
<1>16. CASE FinishRevert
  BY <1>16, <1>1 DEF FinishRevert
<1>17. CASE FinishRewind
  BY <1>17, <1>1 DEF FinishRewind
<1>18. CASE EndProcess
  BY <1>18, EndedFiles
<1>19. CASE UNCHANGED rwvars
  BY <1>19, <1>1 DEF rwvars
<1> QED
  BY <1>3, <1>4, <1>5, <1>6, <1>7, <1>8, <1>9, <1>10, <1>11, <1>12, <1>13, <1>14,
     <1>15, <1>16, <1>17, <1>18, <1>19, <1>20, <1>21 DEF RwNext

-----------------------------------------------------------------------------
(* What the repository relies on. *)

RwInv == Tables /\ TalkInv /\ FilesInv

(* The three hold together.                                                *)
LEMMA RwInductive == RwSpec => []RwInv
<1>1. RwInit => RwInv
  BY TablesInit, TalkInit, FilesInit DEF RwInv
<1>2. RwInv /\ [RwNext]_rwvars => RwInv'
  BY TablesNext, TalkNext, FilesNext DEF RwInv
<1> QED
  BY <1>1, <1>2, PTL DEF RwSpec

(* They say what the properties say.                                       *)
LEMMA RwMeans == RwInv => RwTypeOK /\ WireWithinTranscript
<1> SUFFICES ASSUME RwInv PROVE RwTypeOK /\ WireWithinTranscript
  OBVIOUS
<1>1. Tables /\ InOrder /\ ChangesDated /\ WireWithinTranscript
  BY DEF RwInv, TalkInv
<1>2. /\ messages \in Seq(Rows) /\ shown \in Seq(Lines) /\ checkpoints \in Seq(Changes)
      /\ fs \in FileSystems /\ Sound(fs) /\ now \in 0..MaxSecond /\ now \in Nat /\ ids \in Nat
      /\ run \in {"idle", "started", "acted"}
  BY <1>1, RewindAssumption DEF Tables
<1>3. /\ \A i \in DOMAIN messages : messages[i] \in Rows
      /\ \A i \in DOMAIN shown : shown[i] \in Lines
      /\ \A k \in DOMAIN checkpoints : checkpoints[k] \in Changes
  BY <1>2
<1>4. /\ \A i \in DOMAIN messages : /\ messages[i].id \in 1..ids /\ messages[i].at \in 0..now
                                    /\ messages[i].role \in {"user", "assistant"}
  <2>1. \A i \in DOMAIN messages : messages[i].at \in Nat /\ messages[i].role \in {"user", "assistant"}
    BY <1>3 DEF Rows, Speakers
  <2> QED
    BY <1>1, <1>2, <2>1 DEF InOrder
<1>5. \A i \in DOMAIN shown : shown[i].id \in 0..ids
  <2>1. \A i \in DOMAIN shown : shown[i].id \in Nat
    BY <1>3 DEF Lines
  <2> QED
    BY <1>1, <1>2, <2>1 DEF InOrder
<1>6. \A k \in DOMAIN checkpoints : checkpoints[k].call \in Tried /\ checkpoints[k].at \in 0..now
  <2>1. \A k \in DOMAIN checkpoints : checkpoints[k].call \in Tried /\ checkpoints[k].at \in Nat
    BY <1>3 DEF Changes
  <2> QED
    BY <1>1, <1>2, <2>1 DEF ChangesDated
<1>8. spoilt \in 0..Made
  BY <1>1 DEF Tables
<1>7. wire \subseteq 1..ids
  BY <1>1, <1>4 DEF WireWithinTranscript
<1> QED
  BY <1>1, <1>2, <1>4, <1>5, <1>6, <1>7, <1>8 DEF RwTypeOK

(* Every message, bubble and change keeps its kind, its id and its time, a  *)
(* file lies in a directory that is there, and no turn that a rewind or a   *)
(* regeneration cut (commands.rs rewind_to_message, delete_last_assistant)  *)
(* is left in the snapshot that the next run replays.                       *)
THEOREM TranscriptCorrect == RwSpec => [](RwTypeOK /\ WireWithinTranscript)
BY RwInductive, RwMeans, PTL

(* Undoing changes from one on (checkpoint.rs revert_change, driven by      *)
(* revert_to_checkpoint and rewind_to_message) leaves every file as it was  *)
(* before the first of them, whatever tools made the changes, and also when *)
(* an earlier undo was cut off by the end of the process: if each of them   *)
(* could be taken back, and since the first nothing happened to the files   *)
(* that no checkpoint tells, as a change whose row was lost would be.       *)
THEOREM UndoFindsFiles == RwSpec => UndoRestores
<1> DEFINE Undone == (undo # NoUndo /\ undo' = NoUndo /\ undo.left = {} /\ undo.from # {}
                       /\ undo.exact /\ \A k \in undo.from : k > spoilt) =>
                      \A first \in undo.from :
                        (\A k \in undo.from : first <= k) => fs'.file = checkpoints[first].before
<1>1. RwInv /\ [RwNext]_rwvars => [Undone]_rwvars
  <2> SUFFICES ASSUME RwInv, [RwNext]_rwvars,
                      undo # NoUndo, undo' = NoUndo, undo.left = {}, undo.from # {},
                      undo.exact, \A k \in undo.from : k > spoilt,
                      NEW first \in undo.from, \A k \in undo.from : first <= k
               PROVE  fs'.file = checkpoints[first].before
    OBVIOUS
  <2>1. /\ Undoing(checkpoints, Found, undo, spoilt) /\ Begun(checkpoints, undo)
        /\ checkpoints \in Seq(Changes)
    BY DEF RwInv, FilesInv, Tables
  <2>2. PICK k \in undo.from : Found = checkpoints[k].before /\ \A j \in undo.from : k <= j
    BY <2>1 DEF Undoing
  <2>3. undo.from \subseteq Nat
    BY <2>1 DEF Begun
  <2>4. first = k
    <3>1. first <= k /\ k <= first
      BY <2>2
    <3> QED
      BY <2>3, <3>1
  <2>5. fs' = fs
    <3>1. UndoOne => FALSE
      BY DEF UndoOne
    <3>2. ASSUME NEW k0 \in DOMAIN checkpoints, RevertToCheckpoint(k0) PROVE FALSE
      BY <3>2 DEF RevertToCheckpoint
    <3>3. ASSUME NEW i \in DOMAIN shown, RewindToMessage(i) PROVE FALSE
      BY <3>3 DEF RewindToMessage
    <3>4. ExecuteCall \/ TearPatch \/ UNCHANGED rwvars => FALSE
      BY DEF ExecuteCall, TearPatch, Acted, rwvars
    <3> QED
      BY <3>1, <3>2, <3>3, <3>4 DEF RwNext, Tick, Send, CaptureBefore, RefuseCall, PersistCheckpoint,
         LoseCheckpoint, Acted, Finish, FailSilently, Reload, Regenerate, FinishRevert, FinishRewind, EndProcess
  <2>6. landed = Nobody
    <3>1. checkpoints # <<>> /\ \A j \in undo.from : j \in DOMAIN checkpoints /\ j <= Len(checkpoints)
      BY <2>1 DEF Begun
    <3>2. landed # Nobody => spoilt > Len(checkpoints)
      BY DEF RwInv, FilesInv
    <3>3. spoilt \in Nat /\ Len(checkpoints) \in Nat
      <4>1. Made \in Nat
        BY <2>1 DEF Made
      <4> QED
        BY <2>1, <4>1 DEF RwInv, Tables
    <3> QED
      BY <2>3, <3>1, <3>2, <3>3
  <2> QED
    BY <2>2, <2>4, <2>5, <2>6 DEF Found
<1>2. RwSpec => [][Undone]_rwvars
  <2> HIDE DEF Undone
  <2> QED
    BY <1>1, RwInductive, PTL DEF RwSpec
<1> QED
  BY <1>2 DEF UndoRestores

(* Edit and retry (commands.rs rewind_to_message, App.tsx) cuts the same    *)
(* messages in the database as on screen, and undoes no change of a turn    *)
(* that stays, unless it was made in the second the message was sent.      *)
THEOREM RewindCutsAlike == RwSpec => RewindCutsWhatIsShown
<1> DEFINE Undone == (undo # NoUndo /\ undo.kind = "rewind" /\ undo' = NoUndo /\ undo.agreed /\ ends' = ends) =>
                      /\ shown' = Stored'
                      /\ \A k \in undo.from :
                           \/ checkpoints[k].turn >= LastN(undo.cut).id
                           \/ checkpoints[k].at = LastN(undo.cut).at
<1>1. RwInv /\ [RwNext]_rwvars => [Undone]_rwvars
  <2> SUFFICES ASSUME RwInv, RwNext, undo # NoUndo, undo.kind = "rewind", undo' = NoUndo, undo.agreed, ends' = ends
               PROVE  /\ shown' = Stored'
                      /\ \A k \in undo.from : \/ checkpoints[k].turn >= LastN(undo.cut).id
                                              \/ checkpoints[k].at = LastN(undo.cut).at
    BY DEF rwvars
  <2>1. Tables /\ RewindHolds /\ ChangesDated /\ InOrder
    BY DEF RwInv, TalkInv
  <2>2. /\ undo.cut \in 1..Len(messages) /\ undo.cut <= Len(shown) /\ shown = Stored
        /\ undo.from \subseteq DOMAIN checkpoints
        /\ \A k \in undo.from : checkpoints[k].at >= LastN(undo.cut).at
    BY <2>1 DEF RewindHolds
  <2>3. /\ messages \in Seq(Rows) /\ shown \in Seq(Lines) /\ checkpoints \in Seq(Changes) /\ ends \in Nat
        /\ Len(messages) \in Nat /\ DOMAIN messages = 1..Len(messages)
        /\ Len(shown) \in Nat /\ DOMAIN shown = 1..Len(shown)
    BY <2>1 DEF Tables
  <2>4. FinishRewind
    <3>1. UndoOne => FALSE
      <4> SUFFICES ASSUME UndoOne PROVE FALSE
        OBVIOUS
      <4>1. undo'.kind = undo.kind
        BY <2>1, MarkedOne DEF RwInv
      <4> QED
        BY <4>1 DEF NoUndo
    <3>2. ASSUME NEW k0 \in DOMAIN checkpoints, RevertToCheckpoint(k0) PROVE FALSE
      BY <3>2 DEF RevertToCheckpoint
    <3>3. ASSUME NEW i \in DOMAIN shown, RewindToMessage(i) PROVE FALSE
      BY <3>3 DEF RewindToMessage
    <3>4. ExecuteCall \/ TearPatch \/ RefuseCall \/ PersistCheckpoint \/ LoseCheckpoint => FALSE
      BY DEF ExecuteCall, TearPatch, RefuseCall, PersistCheckpoint, LoseCheckpoint, Acted
    <3>5. ~EndProcess
      BY <2>3 DEF EndProcess
    <3> QED
      BY <3>1, <3>2, <3>3, <3>4, <3>5 DEF RwNext, Tick, Send, CaptureBefore, Finish,
         FailSilently, Reload, Regenerate, FinishRevert
  <2>5. shown' = Stored'
    <3> DEFINE n == Len(messages) - undo.cut
    <3>1. DOMAIN shown = DOMAIN messages /\ \A i \in DOMAIN messages :
             shown[i] = [id |-> messages[i].id, role |-> messages[i].role]
      BY <2>2 DEF Stored
    <3>2. Len(shown) = Len(messages)
      <4>1. \A a, b \in Nat : 1..a = 1..b => a = b
        <5> TAKE a, b \in Nat
        <5> HAVE 1..a = 1..b
        <5>1. a # 0 => a \in 1..b
          OBVIOUS
        <5>2. b # 0 => b \in 1..a
          OBVIOUS
        <5> QED
          BY <5>1, <5>2
      <4> QED
        BY <2>3, <3>1, <4>1
    <3>3. n \in 0..Len(messages)
      BY <2>2, <2>3
    <3>4. messages' = SubSeq(messages, 1, n) /\ shown' = SubSeq(shown, 1, n)
      BY <2>4, <3>2 DEF FinishRewind
    <3> HIDE DEF n
    <3>5. /\ DOMAIN messages' = 1..n /\ DOMAIN shown' = 1..n /\ shown' \in Seq(Lines)
          /\ \A i \in 1..n : /\ messages'[i] = messages[i] /\ shown'[i] = shown[i]
                              /\ i \in DOMAIN messages
      BY <2>3, <3>2, <3>3, <3>4, Shortened
    <3>6. shown' = [i \in 1..n |-> shown'[i]]
      BY <3>5
    <3>7. \A i \in 1..n : shown'[i] = [id |-> messages'[i].id, role |-> messages'[i].role]
      BY <3>1, <3>5
    <3>8. Stored' = [i \in 1..n |-> [id |-> messages'[i].id, role |-> messages'[i].role]]
      BY <3>5 DEF Stored
    <3> QED
      BY <3>6, <3>7, <3>8
  <2>6. ASSUME NEW k \in undo.from
        PROVE  \/ checkpoints[k].turn >= LastN(undo.cut).id
               \/ checkpoints[k].at = LastN(undo.cut).at
    <3> DEFINE i == Len(messages) - undo.cut + 1
    <3>1. i \in DOMAIN messages /\ LastN(undo.cut) = messages[i]
      BY <2>2, <2>3 DEF LastN
    <3>2. checkpoints[k].turn >= messages[i].id \/ checkpoints[k].at <= messages[i].at
      BY <2>1, <2>2, <3>1 DEF ChangesDated
    <3>3. checkpoints[k] \in Changes /\ messages[i] \in Rows
      BY <2>2, <2>3, <3>1
    <3> HIDE DEF i
    <3>4. checkpoints[k].at \in Nat /\ messages[i].at \in Nat
      BY <3>3 DEF Changes, Rows
    <3>5. checkpoints[k].at >= messages[i].at
      BY <2>2, <3>1
    <3> QED
      BY <3>1, <3>2, <3>4, <3>5
  <2> QED
    BY <2>5, <2>6
<1>2. RwSpec => [][Undone]_rwvars
  <2> HIDE DEF Undone
  <2> QED
    BY <1>1, RwInductive, PTL DEF RwSpec
<1> QED
  BY <1>2 DEF RewindCutsWhatIsShown

-----------------------------------------------------------------------------
(***************************************************************************)
(* Theorems about Wiki and Okf, for any tree of directories and any number *)
(* of builds at once. Apart says what the files are while one build writes *)
(* alone, by how far it has come; PrintKnown what pages and fingerprint on *)
(* disk are worth as long as no two builds wrote at once; OkfKept what is  *)
(* registered of other bundles.                                            *)
(***************************************************************************)
(* What is kept. *)

(* A section with no summary, or with one made from this very version.      *)
Honest      == {s \in Section : s.summary \in {0, s.version}}
SectionMaps == UNION {[D -> Honest] : D \in SUBSET TreeDirs}
PrintMaps   == UNION {[D -> Versions] : D \in SUBSET TreeDirs}
Disks       == [index : SectionMaps, print : PrintMaps, pages : SectionMaps,
                index_tmp : SectionMaps, print_tmp : PrintMaps]
Running     == [at : Writing \cup {"summaries"}, force : BOOLEAN, enrich : BOOLEAN,
                sections : SectionMaps, todo : SUBSET TreeDirs, unchanged : BOOLEAN,
                budget : 0..SummaryBudget, added : BOOLEAN, alone : BOOLEAN]

(* The files and the builds are of their kind.                             *)
WikiKept ==
  /\ tree \in [TreeDirs -> 0..MaxVersion]
  /\ disk \in Disks
  /\ builds \in [Builders -> {Idle} \cup Running]
  /\ last \in PrintMaps /\ torn \in {"no", "cut", "overlap"}
  /\ \A b \in Builders : builds[b].at \in {"summaries", "pages"} =>
       builds[b].todo \subseteq DOMAIN builds[b].sections

-----------------------------------------------------------------------------
(* A build that writes alone. *)

(* What the files are, by how far the build x has come. *)
Wrote(x, d) ==
  /\ x.at = "clear" => DOMAIN d.pages \subseteq x.todo
  /\ x.at \in {"index.tmp", "index.old", "index"} => DOMAIN d.pages = {}
  /\ x.at \in {"index.old", "index"} => d.index_tmp = x.sections
  /\ x.at \in {"pages", "print.tmp", "print.old", "print"} => d.index = x.sections
  /\ x.at = "pages" => /\ DOMAIN d.pages = DOMAIN x.sections \ x.todo
                       /\ \A e \in DOMAIN d.pages : d.pages[e] = x.sections[e]
  /\ x.at \in {"print.tmp", "print.old", "print"} => d.pages = x.sections
  /\ x.at \in {"print.old", "print"} => d.print_tmp = Fingerprint(x.sections)

(* No stored summary is missing from the sections of build x. *)
FoundAgain(x, index) ==
  \A d \in DOMAIN index \cap DOMAIN x.sections :
    index[d].version = x.sections[d].version /\ index[d].summary # 0 =>
      x.sections[d].summary # 0 /\ d \notin x.todo

(* A build that knows it writes alone does, and its files say how far it   *)
(* is.                                                                     *)
Apart ==
  /\ \A b \in Writers : builds[b].alone => Writers = {b} /\ Wrote(builds[b], disk)
  /\ \A b \in Builders : builds[b].at = "summaries" /\ builds[b].alone =>
       Writers = {} /\ (builds[b].enrich => FoundAgain(builds[b], disk.index))

(* As long as no two wrote at once, the fingerprint on disk is that of the  *)
(* last whole write, or missing, and no page says other than the index.     *)
PrintKnown ==
  /\ torn # "overlap" /\ (\A b \in Writers : builds[b].alone) => disk.print \in {NoFile, last} /\ PagesMatch(disk)
  /\ Settled => disk.print = Fingerprint(disk.index) /\ disk.pages = disk.index

WikiInv == WikiKept /\ Apart /\ PrintKnown

-----------------------------------------------------------------------------
(* Maps of directories. *)

(* Maps of directories, and the empty one.                                 *)
LEMMA Maps ==
  /\ NoFile \in SectionMaps /\ NoFile \in PrintMaps /\ DOMAIN NoFile = {}
  /\ \A f \in SectionMaps : f = [d \in DOMAIN f |-> f[d]] /\ DOMAIN f \subseteq TreeDirs
                            /\ \A d \in DOMAIN f : f[d] \in Honest
  /\ \A f \in PrintMaps : f = [d \in DOMAIN f |-> f[d]] /\ DOMAIN f \subseteq TreeDirs
                            /\ \A d \in DOMAIN f : f[d] \in Versions
  /\ \A D \in SUBSET TreeDirs : \A f \in [D -> Honest] : f \in SectionMaps
  /\ \A D \in SUBSET TreeDirs : \A f \in [D -> Versions] : f \in PrintMaps
<1>1. NoFile \in [{} -> Honest] /\ NoFile \in [{} -> Versions] /\ DOMAIN NoFile = {}
  BY DEF NoFile
<1>2. {} \in SUBSET TreeDirs
  OBVIOUS
<1>3. NoFile \in SectionMaps /\ NoFile \in PrintMaps
  BY <1>1, <1>2 DEF SectionMaps, PrintMaps
<1>4. \A f \in SectionMaps : f = [d \in DOMAIN f |-> f[d]] /\ DOMAIN f \subseteq TreeDirs
                            /\ \A d \in DOMAIN f : f[d] \in Honest
  BY DEF SectionMaps
<1>5. \A f \in PrintMaps : f = [d \in DOMAIN f |-> f[d]] /\ DOMAIN f \subseteq TreeDirs
                            /\ \A d \in DOMAIN f : f[d] \in Versions
  BY DEF PrintMaps
<1>6. \A D \in SUBSET TreeDirs : \A f \in [D -> Honest] : f \in SectionMaps
  BY DEF SectionMaps
<1>7. \A D \in SUBSET TreeDirs : \A f \in [D -> Versions] : f \in PrintMaps
  BY DEF PrintMaps
<1> QED
  BY <1>1, <1>3, <1>4, <1>5, <1>6, <1>7

(* Maps that say the same of every directory are the same.                 *)
LEMMA SameMaps ==
  ASSUME NEW f \in SectionMaps, NEW g \in SectionMaps, DOMAIN f = DOMAIN g,
         \A d \in DOMAIN f : f[d] = g[d]
  PROVE  f = g
<1>1. f = [d \in DOMAIN f |-> f[d]] /\ g = [d \in DOMAIN f |-> g[d]]
  BY Maps
<1>2. [d \in DOMAIN f |-> f[d]] = [d \in DOMAIN f |-> g[d]]
  OBVIOUS
<1> QED
  BY <1>1, <1>2

(* A fingerprint maps directories to versions.                             *)
LEMMA FingerprintType ==
  ASSUME NEW f \in SectionMaps
  PROVE  Fingerprint(f) \in PrintMaps
<1>1. DOMAIN f \subseteq TreeDirs /\ \A d \in DOMAIN f : f[d] \in Honest
  BY Maps
<1>2. \A d \in DOMAIN f : f[d].version \in Versions
  BY <1>1 DEF Honest, Section
<1>3. Fingerprint(f) \in [DOMAIN f -> Versions]
  BY <1>2 DEF Fingerprint
<1> QED
  BY <1>1, <1>3, Maps

(* The first of some directories is one of them. *)
LEMMA FirstIn ==
  ASSUME NEW S \in SUBSET TreeDirs, S # {}
  PROVE  First(S) \in S
<1> DEFINE T == {i \in DOMAIN WikiDirs : WikiDirs[i] \in S}
           R == OpToRel(<, Nat)
<1>1. T # {} /\ T \subseteq Nat /\ DOMAIN WikiDirs = 1..Len(WikiDirs) /\ Len(WikiDirs) \in Nat
  BY WikiAssumption DEF TreeDirs
<1>2. IsWellFoundedOn(R, Nat)
  BY NatLessThanWellFounded
<1>3. \A y, z \in Nat : y < z => <<y, z>> \in R
  BY DEF OpToRel
<1>4. PICK x \in T : \A y \in T : ~ (<<y, x>> \in R)
  <2> HIDE DEF R, T
  <2> QED
    BY <1>1, <1>2, WFMin
<1>5. x \in DOMAIN WikiDirs /\ WikiDirs[x] \in S /\ x \in Nat
  BY <1>1, <1>4
<1>6. \A j \in 1..(x - 1) : WikiDirs[j] \notin S
  <2> SUFFICES ASSUME NEW j \in 1..(x - 1), WikiDirs[j] \in S PROVE FALSE
    OBVIOUS
  <2>1. j \in Nat /\ j < x /\ j \in DOMAIN WikiDirs
    BY <1>1, <1>5
  <2>2. j \in T
    BY <2>1
  <2> HIDE DEF R, T
  <2> QED
    BY <1>3, <1>4, <1>5, <2>1, <2>2
<1>7. \E i \in DOMAIN WikiDirs : WikiDirs[i] \in S /\ \A j \in 1..(i - 1) : WikiDirs[j] \notin S
  BY <1>5, <1>6
<1> QED
  BY <1>7 DEF First

-----------------------------------------------------------------------------
(* The files keep their kind. *)

(* At first there are no files and no builds.                              *)
LEMMA KeptInit == WikiInit => WikiKept
<1> SUFFICES ASSUME WikiInit PROVE WikiKept
  OBVIOUS
<1>1. tree \in [TreeDirs -> 0..MaxVersion]
  <2>1. \A v \in 0..1 : v \in 0..MaxVersion
    BY WikiAssumption
  <2> QED
    BY <2>1 DEF WikiInit
<1>2. disk \in Disks /\ last \in PrintMaps
  BY Maps DEF WikiInit, Disks
<1>3. builds \in [Builders -> {Idle} \cup Running] /\ \A b \in Builders : builds[b] = Idle
  BY DEF WikiInit
<1>4. \A b \in Builders : builds[b].at \notin {"summaries", "pages"}
  BY <1>3 DEF Idle
<1> QED
  BY <1>1, <1>2, <1>3, <1>4 DEF WikiKept, WikiInit

(* A build that goes on. *)
LEMMA BuildAt ==
  ASSUME WikiKept, NEW b \in Builders, builds[b].at # "idle"
  PROVE  /\ builds[b] \in Running
         /\ builds[b].sections \in SectionMaps /\ builds[b].todo \in SUBSET TreeDirs
BY DEF WikiKept, Idle, Running

(* One build takes a step, the others do not. *)
LEMMA BuildMoves ==
  ASSUME WikiKept, NEW b \in Builders, NEW y \in {Idle} \cup Running,
         y.at \in {"summaries", "pages"} => y.todo \subseteq DOMAIN y.sections,
         builds' = [builds EXCEPT ![b] = y],
         disk' \in Disks, tree' = tree, last' \in PrintMaps, torn' \in {"no", "cut", "overlap"}
  PROVE  WikiKept'
<1>1. builds \in [Builders -> {Idle} \cup Running]
  BY DEF WikiKept
<1>2. builds' \in [Builders -> {Idle} \cup Running] /\ builds'[b] = y
      /\ \A c \in Builders : c # b => builds'[c] = builds[c]
  BY <1>1
<1> QED
  BY <1>2 DEF WikiKept

(* What the analysis and the summaries say. *)
LEMMA Started ==
  ASSUME WikiKept, NEW b \in Builders, StartBuild(b)
  PROVE  /\ \/ builds' = [builds EXCEPT ![b] = Idle]
            \/ \E x \in Running :
                 /\ builds' = [builds EXCEPT ![b] = x]
                 /\ x.at = "summaries" /\ x.todo \subseteq DOMAIN x.sections
                 /\ x.alone = (Writers \ {b} = {})
                 /\ x.enrich => FoundAgain(x, disk.index)
         /\ UNCHANGED <<tree, disk, last, torn>>
         /\ builds[b].at = "idle"
<1>1. PICK kind \in Kinds :
       LET found    == GroupIntoSections
           enrich   == kind.enrich
           sections == [d \in DOMAIN found |->
                          [found[d] EXCEPT !.summary = IF enrich THEN Cached(d, found[d].version) ELSE 0]]
       IN  builds' = [builds EXCEPT ![b] =
             IF found = NoFile THEN Idle
             ELSE [at |-> "summaries", force |-> kind.force, enrich |-> enrich, sections |-> sections,
                   todo |-> IF enrich THEN {d \in DOMAIN found : sections[d].summary = 0} ELSE {},
                   unchanged |-> disk.print = Fingerprint(found),
                   budget |-> SummaryBudget, added |-> FALSE,
                   alone |-> Writers \ {b} = {}]]
  BY DEF StartBuild
<1> DEFINE found    == GroupIntoSections
           enrich   == kind.enrich
           sections == [d \in DOMAIN found |->
                          [found[d] EXCEPT !.summary = IF enrich THEN Cached(d, found[d].version) ELSE 0]]
           todo     == IF enrich THEN {d \in DOMAIN found : sections[d].summary = 0} ELSE {}
           unchanged == disk.print = Fingerprint(found)
           alone    == Writers \ {b} = {}
           x == [at |-> "summaries", force |-> kind.force, enrich |-> enrich, sections |-> sections,
                 todo |-> todo, unchanged |-> unchanged, budget |-> SummaryBudget, added |-> FALSE,
                 alone |-> alone]
<1>2. builds' = [builds EXCEPT ![b] = IF found = NoFile THEN Idle ELSE x]
  BY <1>1
<1>3. UNCHANGED <<tree, disk, last, torn>> /\ builds[b].at = "idle"
  BY DEF StartBuild
<1>4. kind.force \in BOOLEAN /\ enrich \in BOOLEAN
  BY DEF Kinds
<1>5. /\ DOMAIN found \subseteq TreeDirs
      /\ \A d \in DOMAIN found : found[d] = [version |-> tree[d], summary |-> 0] /\ tree[d] \in Versions
  BY DEF GroupIntoSections, WikiKept, Versions
<1>6. disk.index \in SectionMaps
  BY DEF WikiKept, Disks
<1>7. ASSUME NEW d \in DOMAIN found
      PROVE  /\ Cached(d, tree[d]) \in {0, tree[d]} /\ tree[d] \in Nat
             /\ d \in DOMAIN disk.index /\ disk.index[d].version = tree[d] => Cached(d, tree[d]) = disk.index[d].summary
  <2>1. tree[d] \in Nat
    BY <1>5 DEF Versions
  <2>2. CASE d \in DOMAIN disk.index /\ disk.index[d].version = tree[d]
    <3>1. disk.index[d] \in Honest
      BY <1>6, <2>2, Maps
    <3> QED
      BY <2>1, <2>2, <3>1 DEF Cached, Honest
  <2>3. CASE ~(d \in DOMAIN disk.index /\ disk.index[d].version = tree[d])
    BY <2>1, <2>3 DEF Cached
  <2> QED
    BY <2>2, <2>3
<1>8. \A d \in DOMAIN found :
         sections[d] = [version |-> tree[d], summary |-> IF enrich THEN Cached(d, tree[d]) ELSE 0]
  BY <1>5
<1>9. \A d \in DOMAIN found : sections[d] \in Honest
  <2> TAKE d \in DOMAIN found
  <2>1. tree[d] \in 1..MaxVersion /\ MaxVersion \in Nat
    BY <1>5, WikiAssumption DEF Versions
  <2>2. \A s \in {0, tree[d]} : [version |-> tree[d], summary |-> s] \in Honest
    BY <2>1 DEF Honest, Section, Versions
  <2> HIDE DEF sections, enrich, found
  <2> QED
    BY <1>7, <1>8, <2>2
<1>10. DOMAIN sections = DOMAIN found
  OBVIOUS
<1>11. sections \in SectionMaps
  <2>1. sections \in [DOMAIN found -> Honest]
    BY <1>9
  <2> HIDE DEF sections, found
  <2> QED
    BY <1>5, <2>1, Maps
<1>12. todo \subseteq DOMAIN found /\ (enrich => \A d \in DOMAIN found : d \in todo <=> sections[d].summary = 0)
  OBVIOUS
<1>13. SummaryBudget \in 0..SummaryBudget /\ unchanged \in BOOLEAN /\ alone \in BOOLEAN
  BY WikiAssumption
<1> HIDE DEF found, sections, todo, unchanged, alone, enrich
<1>14. x \in Running
  BY <1>4, <1>5, <1>11, <1>12, <1>13 DEF Running
<1>15. enrich => FoundAgain(x, disk.index)
  <2> SUFFICES ASSUME enrich, NEW d \in DOMAIN disk.index \cap DOMAIN sections,
                      disk.index[d].version = sections[d].version, disk.index[d].summary # 0
               PROVE  sections[d].summary # 0 /\ d \notin todo
    BY DEF FoundAgain
  <2>1. d \in DOMAIN found /\ sections[d].version = tree[d] /\ sections[d].summary = Cached(d, tree[d])
    BY <1>8, <1>10
  <2> QED
    BY <1>7, <1>12, <2>1
<1>16. x.at = "summaries" /\ x.todo \subseteq DOMAIN x.sections
       /\ x.alone = alone /\ x.enrich = enrich
  BY <1>10, <1>12
<1> HIDE DEF x
<1> QED
  BY <1>2, <1>3, <1>14, <1>15, <1>16 DEF alone

(* One section more has been asked for. *)
LEMMA Summarized ==
  ASSUME WikiKept, NEW b \in Builders, Summarize(b)
  PROVE  /\ \E x \in Running :
              /\ builds' = [builds EXCEPT ![b] = x]
              /\ x.at = "summaries" /\ x.todo \subseteq DOMAIN x.sections
              /\ x.alone = builds[b].alone /\ x.enrich = builds[b].enrich
              /\ \A index : FoundAgain(builds[b], index) => FoundAgain(x, index)
         /\ UNCHANGED <<tree, disk, last, torn>>
         /\ builds[b].at = "summaries"
<1> DEFINE y == builds[b]
           d == First(y.todo)
<1>1. y \in Running /\ y.at = "summaries" /\ y.todo # {} /\ y.sections \in SectionMaps
      /\ y.todo \subseteq DOMAIN y.sections /\ y.todo \in SUBSET TreeDirs
  BY BuildAt DEF Summarize, WikiKept
<1>2. PICK prose \in BOOLEAN :
        builds' = [builds EXCEPT ![b].todo = @ \ {d},
                                 ![b].budget = IF @ = 0 THEN 0 ELSE @ - 1,
                                 ![b].added = @ \/ prose,
                                 ![b].sections[d].summary = IF prose THEN y.sections[d].version ELSE 0]
  BY DEF Summarize
<1>3. d \in y.todo
  BY <1>1, FirstIn
<1> DEFINE summary  == IF prose THEN y.sections[d].version ELSE 0
           sections == [y.sections EXCEPT ![d].summary = summary]
           todo     == y.todo \ {d}
           budget   == IF y.budget = 0 THEN 0 ELSE y.budget - 1
           added    == y.added \/ prose
           x == [y EXCEPT !.todo = todo, !.budget = budget, !.added = added, !.sections = sections]
<1>4. builds' = [builds EXCEPT ![b] = x]
  <2>1. builds \in [Builders -> {Idle} \cup Running]
    BY DEF WikiKept
  <2> QED
    BY <1>1, <1>2, <2>1 DEF Running
<1>5. y.sections[d] \in Honest /\ d \in DOMAIN y.sections
  BY <1>1, <1>3, Maps
<1>6. [y.sections[d] EXCEPT !.summary = summary] \in Honest
      /\ [y.sections[d] EXCEPT !.summary = summary].version = y.sections[d].version
  <2>1. summary \in {0, y.sections[d].version} /\ y.sections[d].version \in Versions
    BY <1>5 DEF Honest, Section
  <2>2. summary \in 0..MaxVersion
    BY <2>1, WikiAssumption DEF Versions
  <2> HIDE DEF summary, y, d
  <2> QED
    BY <1>5, <2>1, <2>2 DEF Honest, Section
<1>7. sections \in SectionMaps /\ DOMAIN sections = DOMAIN y.sections
      /\ \A e \in DOMAIN y.sections : /\ sections[e].version = y.sections[e].version
                                      /\ e # d => sections[e] = y.sections[e]
  <2>1. DOMAIN sections = DOMAIN y.sections
        /\ \A e \in DOMAIN y.sections : sections[e] =
             IF e = d THEN [y.sections[d] EXCEPT !.summary = summary] ELSE y.sections[e]
    BY <1>1, Maps
  <2>2. sections = [e \in DOMAIN y.sections |-> sections[e]]
    BY <1>1, Maps
  <2> HIDE DEF sections, summary, y, d
  <2>3. \A e \in DOMAIN y.sections : y.sections[e] \in Honest
    BY <1>1, Maps
  <2>4. \A e \in DOMAIN y.sections : sections[e] \in Honest
    BY <1>6, <2>1, <2>3
  <2>5. sections \in [DOMAIN y.sections -> Honest] /\ DOMAIN y.sections \in SUBSET TreeDirs
    BY <1>1, <2>2, <2>4, Maps
  <2> QED
    BY <1>6, <2>1, <2>5, Maps
<1>8. budget \in 0..SummaryBudget /\ added \in BOOLEAN /\ todo \in SUBSET TreeDirs
  BY <1>1, WikiAssumption DEF Running
<1> HIDE DEF summary, sections, todo, budget, added, y, d
<1>9. /\ x \in Running /\ x.at = "summaries" /\ x.alone = y.alone /\ x.enrich = y.enrich
      /\ x.todo = todo /\ x.sections = sections
  BY <1>1, <1>7, <1>8 DEF Running
<1>10. todo \subseteq DOMAIN sections /\ \A e : e \in todo <=> e \in y.todo /\ e # d
  BY <1>1, <1>7 DEF todo
<1>11. ASSUME NEW index, FoundAgain(y, index) PROVE FoundAgain(x, index)
  <2> SUFFICES ASSUME NEW e \in DOMAIN index \cap DOMAIN x.sections,
                      index[e].version = x.sections[e].version, index[e].summary # 0
               PROVE  x.sections[e].summary # 0 /\ e \notin x.todo
    BY DEF FoundAgain
  <2>1. e \in DOMAIN index \cap DOMAIN y.sections /\ index[e].version = y.sections[e].version
    BY <1>7, <1>9
  <2>2. y.sections[e].summary # 0 /\ e \notin y.todo
    BY <1>11, <2>1 DEF FoundAgain
  <2>3. e # d
    BY <1>3, <2>2
  <2> QED
    BY <1>7, <1>9, <1>10, <2>1, <2>2, <2>3
<1>12. UNCHANGED <<tree, disk, last, torn>> /\ y = builds[b]
  BY DEF Summarize, y
<1> HIDE DEF x
<1> QED
  BY <1>1, <1>4, <1>9, <1>10, <1>11, <1>12

-----------------------------------------------------------------------------
(* Past the pages to delete, what a lone build has written matches.         *)
LEMMA WroteMatches ==
  ASSUME NEW y, y.at \in Writing \ {"clear"}, NEW d \in Disks, Wrote(y, d)
  PROVE  PagesMatch(d)
<1>1. CASE y.at \in {"index.tmp", "index.old", "index"}
  BY <1>1 DEF Wrote, PagesMatch
<1>2. CASE y.at = "pages"
  BY <1>2 DEF Wrote, PagesMatch
<1>3. CASE y.at \in {"print.tmp", "print.old", "print"}
  BY <1>3 DEF Wrote, PagesMatch
<1> QED
  BY <1>1, <1>2, <1>3 DEF Writing

(* A build that writes takes a step: the others are as they were.           *)
LEMMA WriterMoves ==
  ASSUME WikiInv, NEW b \in Builders, NEW x, x = builds[b], NEW y \in Running,
         x.at \in Writing, y.at \in Writing, y.alone = x.alone,
         y.at = "pages" => y.todo \subseteq DOMAIN y.sections,
         builds' = [builds EXCEPT ![b] = y],
         disk' \in Disks, disk'.print \in {disk.print, NoFile},
         UNCHANGED <<tree, last, torn>>,
         x.alone /\ Wrote(x, disk) => Wrote(y, disk'),
         y.at = "clear" /\ PagesMatch(disk) => PagesMatch(disk')
  PROVE  WikiInv'
<1>1. "summaries" \notin Writing /\ "idle" \notin Writing
  BY DEF Writing
<1>2. WikiKept /\ Apart /\ PrintKnown /\ builds \in [Builders -> {Idle} \cup Running]
  BY DEF WikiInv, WikiKept
<1>3. WikiKept'
  BY <1>1, <1>2, BuildMoves DEF WikiKept
<1>4. builds'[b] = y /\ \A c \in Builders : c # b => builds'[c] = builds[c]
  BY <1>2
<1>5. Writers' = Writers /\ b \in Writers
  BY <1>4 DEF Writers
<1>6. Apart'
  <2>1. ASSUME NEW c \in Writers', builds'[c].alone PROVE Writers' = {c} /\ Wrote(builds'[c], disk')
    <3>1. c = b \/ builds[c].alone
      BY <1>4, <2>1 DEF Writers
    <3>2. Writers = {b} /\ builds[b].alone
      BY <1>2, <1>4, <1>5, <2>1, <3>1 DEF Apart
    <3>3. c = b
      BY <1>5, <2>1, <3>2
    <3>4. Wrote(builds[b], disk)
      BY <1>2, <1>5, <3>2 DEF Apart
    <3> QED
      BY <1>4, <1>5, <3>2, <3>3, <3>4
  <2>2. ASSUME NEW c \in Builders, builds'[c].at = "summaries", builds'[c].alone PROVE FALSE
    <3>1. c # b
      BY <1>1, <1>4, <2>2
    <3> QED
      BY <1>2, <1>4, <1>5, <2>2, <3>1 DEF Apart
  <2> QED
    BY <2>1, <2>2 DEF Apart
<1>7. PrintKnown'
  <2>1. ~Settled'
    BY <1>5 DEF Settled
  <2>2. ASSUME torn' # "overlap", \A c \in Writers' : builds'[c].alone
        PROVE  disk'.print \in {NoFile, last'} /\ PagesMatch(disk')
    <3>1. \A c \in Writers : builds[c].alone
      BY <1>4, <1>5, <2>2 DEF Writers
    <3>2. disk.print \in {NoFile, last} /\ PagesMatch(disk)
      BY <1>2, <2>2, <3>1 DEF PrintKnown
    <3>3. Wrote(y, disk')
      BY <1>4, <1>5, <1>6, <2>2 DEF Apart
    <3>4. PagesMatch(disk')
      BY <3>2, <3>3, WroteMatches
    <3> QED
      BY <3>2, <3>4
  <2> QED
    BY <2>1, <2>2 DEF PrintKnown
<1> QED
  BY <1>3, <1>6, <1>7 DEF WikiInv

(* The same for a step without anything to note. *)
LEMMA StepMoves ==
  ASSUME WikiInv, NEW b \in Builders, NEW at \in Writing, NEW next \in Writing \ {"pages", "clear"}, NEW files \in Disks,
         Step(b, at, next, files), files.print \in {disk.print, NoFile},
         NEW y, y = [builds[b] EXCEPT !.at = next],
         Wrote(builds[b], disk) => Wrote(y, files)
  PROVE  WikiInv'
<1>1. /\ builds[b].at = at /\ disk' = files /\ builds' = [builds EXCEPT ![b].at = next]
      /\ UNCHANGED <<tree, last, torn>>
  BY DEF Step
<1>2. "idle" \notin Writing /\ WikiKept
  BY DEF Writing, WikiInv
<1>3. builds[b] \in Running
  BY <1>1, <1>2, BuildAt
<1>4. y \in Running /\ y.at = next /\ y.alone = builds[b].alone
  BY <1>3 DEF Running
<1>5. builds' = [builds EXCEPT ![b] = y]
  BY <1>1
<1> QED
  BY <1>1, <1>4, <1>5, WriterMoves

(* The steps of a build that writes.                                       *)
LEMMA WritingMoves ==
  ASSUME WikiInv, NEW b \in Builders,
         \/ ClearPage(b) \/ PagesCleared(b) \/ IndexTmp(b) \/ IndexOld(b) \/ IndexRename(b)
         \/ WritePage(b) \/ PagesWritten(b) \/ PrintTmp(b) \/ PrintOld(b)
  PROVE  WikiInv'
<1> DEFINE x == builds[b]
<1>a. /\ WikiKept /\ disk \in Disks
      /\ disk.index \in SectionMaps /\ disk.pages \in SectionMaps /\ disk.index_tmp \in SectionMaps
      /\ disk.print \in PrintMaps /\ disk.print_tmp \in PrintMaps
  BY DEF WikiInv, WikiKept, Disks
<1>b. x.at # "idle" => x \in Running /\ x.sections \in SectionMaps /\ x.todo \in SUBSET TreeDirs
  BY <1>a, BuildAt
<1>c. NoFile \in SectionMaps /\ NoFile \in PrintMaps /\ DOMAIN NoFile = {}
  BY Maps
<1>1. CASE ClearPage(b)
  <2> DEFINE d == First(x.todo)
             todo == x.todo \ {d}
             pages == [e \in DOMAIN disk.pages \ {d} |-> disk.pages[e]]
             y == [x EXCEPT !.todo = todo]
  <2>1. x.at = "clear" /\ x.at \in Writing /\ x.at # "idle" /\ UNCHANGED <<tree, last, torn>>
    BY <1>1 DEF ClearPage, Writing
  <2>2. builds' = [builds EXCEPT ![b] = y]
    BY <1>1 DEF ClearPage
  <2>3. disk' = [disk EXCEPT !.pages = pages]
    BY <1>1 DEF ClearPage, WithoutPage
  <2>4. pages \in SectionMaps
    <3>1. DOMAIN disk.pages \subseteq TreeDirs /\ \A e \in DOMAIN disk.pages : disk.pages[e] \in Honest
      BY <1>a, Maps
    <3>2. pages \in [DOMAIN disk.pages \ {d} -> Honest] /\ (DOMAIN disk.pages \ {d}) \in SUBSET TreeDirs
      BY <3>1
    <3> QED
      BY <3>2, Maps
  <2>5. DOMAIN pages = DOMAIN disk.pages \ {d} /\ todo \in SUBSET TreeDirs
    BY <1>b, <2>1
  <2> HIDE DEF pages
  <2>6. disk' \in Disks /\ disk'.print = disk.print /\ disk'.pages = pages
    BY <1>a, <2>3, <2>4 DEF Disks
  <2>7. y \in Running /\ y.at = "clear" /\ y.alone = x.alone /\ y.todo = todo
    BY <1>b, <2>1, <2>5 DEF Running
  <2>8. Wrote(x, disk) => Wrote(y, disk')
    BY <2>1, <2>5, <2>6, <2>7 DEF Wrote
  <2>9. disk'.index = disk.index /\ \A e \in DOMAIN pages : pages[e] = disk.pages[e]
    BY <1>a, <2>3 DEF Disks, pages
  <2>10. PagesMatch(disk) => PagesMatch(disk')
    BY <2>5, <2>6, <2>9 DEF PagesMatch
  <2> HIDE DEF y
  <2> QED
    BY <2>1, <2>2, <2>6, <2>7, <2>8, <2>10, WriterMoves
<1>2. CASE PagesCleared(b)
  <2>1. Step(b, "clear", "index.tmp", disk) /\ x.todo = {} /\ x.at = "clear"
    BY <1>2 DEF PagesCleared, Step
  <2>2. x \in Running
    BY <1>b, <2>1
  <2>3. Wrote(x, disk) => Wrote([x EXCEPT !.at = "index.tmp"], disk)
    BY <2>1, <2>2 DEF Wrote, Running
  <2> QED
    BY <1>a, <2>1, <2>3, StepMoves DEF Writing
<1>3. CASE IndexTmp(b)
  <2> DEFINE files == [disk EXCEPT !.index_tmp = x.sections]
  <2>1. Step(b, "index.tmp", "index.old", files) /\ x.at = "index.tmp"
    BY <1>3 DEF IndexTmp, Step
  <2>2. x \in Running /\ x.sections \in SectionMaps
    BY <1>b, <2>1
  <2>3. files \in Disks /\ files.print = disk.print /\ files.pages = disk.pages /\ files.index_tmp = x.sections
    BY <1>a, <2>2 DEF Disks
  <2> HIDE DEF files
  <2>4. Wrote(x, disk) => Wrote([x EXCEPT !.at = "index.old"], files)
    BY <2>1, <2>2, <2>3 DEF Wrote, Running
  <2> QED
    BY <1>a, <2>1, <2>3, <2>4, StepMoves DEF Writing
<1>4. CASE IndexOld(b)
  <2> DEFINE files == [disk EXCEPT !.index = NoFile]
  <2>1. Step(b, "index.old", "index", files) /\ x.at = "index.old"
    BY <1>4 DEF IndexOld, Step
  <2>2. x \in Running
    BY <1>b, <2>1
  <2>3. files \in Disks /\ files.print = disk.print /\ files.pages = disk.pages /\ files.index_tmp = disk.index_tmp
    BY <1>a, <1>c DEF Disks
  <2> HIDE DEF files
  <2>4. Wrote(x, disk) => Wrote([x EXCEPT !.at = "index"], files)
    BY <2>1, <2>2, <2>3 DEF Wrote, Running
  <2> QED
    BY <1>a, <2>1, <2>3, <2>4, StepMoves DEF Writing
<1>5. CASE IndexRename(b)
  <2> DEFINE todo == DOMAIN x.sections
             y == [x EXCEPT !.at = "pages", !.todo = todo]
  <2>1. x.at = "index" /\ x.at \in Writing /\ x.at # "idle" /\ UNCHANGED <<tree, last, torn>>
    BY <1>5 DEF IndexRename, Writing
  <2>2. builds' = [builds EXCEPT ![b] = y]
    BY <1>5 DEF IndexRename
  <2>3. disk' = [disk EXCEPT !.index = disk.index_tmp, !.index_tmp = NoFile]
    BY <1>5 DEF IndexRename
  <2>4. disk' \in Disks /\ disk'.print = disk.print /\ disk'.pages = disk.pages /\ disk'.index = disk.index_tmp
    BY <1>a, <1>c, <2>3 DEF Disks
  <2>5. todo \in SUBSET TreeDirs /\ x \in Running
    BY <1>b, <2>1, Maps
  <2> HIDE DEF todo
  <2>9. "pages" \in Writing \cup {"summaries"}
    BY DEF Writing
  <2>6. y \in Running /\ y.at = "pages" /\ y.alone = x.alone /\ y.todo = todo /\ y.sections = x.sections
    BY <2>5, <2>9 DEF Running
  <2>10. y.todo \subseteq DOMAIN y.sections /\ (disk.pages \in SectionMaps)
    BY <1>a, <2>6 DEF todo
  <2> HIDE DEF y
  <2>7. Wrote(x, disk) => Wrote(y, disk')
    BY <2>1, <2>4, <2>6 DEF Wrote, todo
  <2>8. y.at \in Writing
    BY <2>6 DEF Writing
  <2> QED
    BY <2>1, <2>2, <2>4, <2>6, <2>7, <2>8, <2>10, WriterMoves
<1>6. CASE WritePage(b)
  <2> DEFINE d == First(x.todo)
             todo == x.todo \ {d}
             sect == x.sections[d]
             pages == [e \in DOMAIN disk.pages \cup {d} |-> IF e = d THEN sect ELSE disk.pages[e]]
             y == [x EXCEPT !.todo = todo]
  <2>1. x.at = "pages" /\ x.at \in Writing /\ x.at # "idle" /\ x.todo # {} /\ UNCHANGED <<tree, last, torn>>
    BY <1>6 DEF WritePage, Writing
  <2>2. builds' = [builds EXCEPT ![b] = y]
    BY <1>6 DEF WritePage
  <2>3. disk' = [disk EXCEPT !.pages = pages]
    BY <1>6 DEF WritePage, WithPage
  <2>4. x \in Running /\ x.sections \in SectionMaps /\ x.todo \in SUBSET TreeDirs /\ x.todo \subseteq DOMAIN x.sections
    BY <1>a, <1>b, <2>1 DEF WikiKept
  <2>5. d \in x.todo
    BY <2>1, <2>4, FirstIn
  <2>6. pages \in SectionMaps
    <3>1. DOMAIN disk.pages \subseteq TreeDirs /\ \A e \in DOMAIN disk.pages : disk.pages[e] \in Honest
      BY <1>a, Maps
    <3>2. sect \in Honest /\ d \in TreeDirs
      BY <2>4, <2>5, Maps
    <3>3. pages \in [DOMAIN disk.pages \cup {d} -> Honest] /\ (DOMAIN disk.pages \cup {d}) \in SUBSET TreeDirs
      BY <3>1, <3>2
    <3> QED
      BY <3>3, Maps
  <2>7. DOMAIN pages = DOMAIN disk.pages \cup {d} /\ \A e \in DOMAIN pages : pages[e] = IF e = d THEN sect ELSE disk.pages[e]
    OBVIOUS
  <2> HIDE DEF pages, d
  <2>8. disk' \in Disks /\ disk'.print = disk.print /\ disk'.pages = pages /\ disk'.index = disk.index
    BY <1>a, <2>3, <2>6 DEF Disks
  <2>9. y \in Running /\ y.at = "pages" /\ y.alone = x.alone /\ y.todo = todo /\ y.sections = x.sections
    BY <2>1, <2>4 DEF Running
  <2> HIDE DEF y
  <2>10. ASSUME Wrote(x, disk) PROVE Wrote(y, disk')
    <3>1. /\ disk.index = x.sections /\ DOMAIN disk.pages = DOMAIN x.sections \ x.todo
          /\ \A e \in DOMAIN disk.pages : disk.pages[e] = x.sections[e]
      BY <2>1, <2>10 DEF Wrote
    <3>2. DOMAIN pages = DOMAIN x.sections \ todo
      BY <2>4, <2>5, <2>7, <3>1
    <3>3. \A e \in DOMAIN pages : pages[e] = x.sections[e]
      BY <2>7, <3>1
    <3> QED
      BY <2>8, <2>9, <3>1, <3>2, <3>3 DEF Wrote
  <2>11. y.todo \subseteq DOMAIN y.sections
    BY <2>4, <2>9
  <2> QED
    BY <2>1, <2>2, <2>8, <2>9, <2>10, <2>11, WriterMoves
<1>7. CASE PagesWritten(b)
  <2>1. Step(b, "pages", "print.tmp", disk) /\ x.todo = {} /\ x.at = "pages"
    BY <1>7 DEF PagesWritten, Step
  <2>2. x \in Running /\ x.sections \in SectionMaps
    BY <1>b, <2>1
  <2>3. Wrote(x, disk) => disk.pages = x.sections /\ disk.index = x.sections
    <3> SUFFICES ASSUME Wrote(x, disk) PROVE disk.pages = x.sections /\ disk.index = x.sections
      OBVIOUS
    <3>1. /\ disk.index = x.sections /\ DOMAIN disk.pages = DOMAIN x.sections
          /\ \A e \in DOMAIN disk.pages : disk.pages[e] = x.sections[e]
      BY <2>1 DEF Wrote
    <3> QED
      BY <1>a, <2>2, <3>1, SameMaps
  <2>4. Wrote(x, disk) => Wrote([x EXCEPT !.at = "print.tmp"], disk)
    BY <2>1, <2>2, <2>3 DEF Wrote, Running
  <2> QED
    BY <1>a, <2>1, <2>4, StepMoves DEF Writing
<1>8. CASE PrintTmp(b)
  <2> DEFINE files == [disk EXCEPT !.print_tmp = Fingerprint(x.sections)]
  <2>1. Step(b, "print.tmp", "print.old", files) /\ x.at = "print.tmp"
    BY <1>8 DEF PrintTmp, Step
  <2>2. x \in Running /\ Fingerprint(x.sections) \in PrintMaps
    BY <1>b, <2>1, FingerprintType
  <2>3. files \in Disks /\ files.print = disk.print /\ files.pages = disk.pages /\ files.index = disk.index
        /\ files.print_tmp = Fingerprint(x.sections)
    BY <1>a, <2>2 DEF Disks
  <2> HIDE DEF files
  <2>4. Wrote(x, disk) => Wrote([x EXCEPT !.at = "print.old"], files)
    BY <2>1, <2>2, <2>3 DEF Wrote, Running
  <2> QED
    BY <1>a, <2>1, <2>3, <2>4, StepMoves DEF Writing
<1>9. CASE PrintOld(b)
  <2> DEFINE files == [disk EXCEPT !.print = NoFile]
  <2>1. Step(b, "print.old", "print", files) /\ x.at = "print.old"
    BY <1>9 DEF PrintOld, Step
  <2>2. x \in Running
    BY <1>b, <2>1
  <2>3. files \in Disks /\ files.print = NoFile /\ files.pages = disk.pages /\ files.index = disk.index
        /\ files.print_tmp = disk.print_tmp
    BY <1>a, <1>c DEF Disks
  <2> HIDE DEF files
  <2>4. Wrote(x, disk) => Wrote([x EXCEPT !.at = "print"], files)
    BY <2>1, <2>2, <2>3 DEF Wrote, Running
  <2> QED
    BY <1>a, <2>1, <2>3, <2>4, StepMoves DEF Writing
<1> QED
  BY <1>1, <1>2, <1>3, <1>4, <1>5, <1>6, <1>7, <1>8, <1>9

-----------------------------------------------------------------------------
(* A build that only reads takes a step: the files are as they were.        *)
LEMMA ReaderMoves ==
  ASSUME WikiInv, NEW b \in Builders, NEW y \in {Idle} \cup Running,
         builds[b].at \notin Writing, y.at \notin Writing,
         y.at = "summaries" => y.todo \subseteq DOMAIN y.sections,
         y.at = "summaries" /\ y.alone => Writers = {} /\ (y.enrich => FoundAgain(y, disk.index)),
         builds' = [builds EXCEPT ![b] = y],
         UNCHANGED <<tree, disk, last, torn>>
  PROVE  WikiInv'
<1>1. WikiKept /\ Apart /\ PrintKnown /\ builds \in [Builders -> {Idle} \cup Running]
      /\ disk \in Disks /\ last \in PrintMaps /\ torn \in {"no", "cut", "overlap"}
  BY DEF WikiInv, WikiKept
<1>2. "pages" \in Writing
  BY DEF Writing
<1>3. WikiKept'
  BY <1>1, <1>2, BuildMoves
<1>4. builds'[b] = y /\ \A c \in Builders : c # b => builds'[c] = builds[c]
  BY <1>1
<1>5. Writers' = Writers /\ b \notin Writers
  BY <1>4 DEF Writers
<1>6. \A c \in Writers' : builds'[c] = builds[c] /\ c \in Writers
  BY <1>4, <1>5 DEF Writers
<1>7. Apart'
  <2>1. ASSUME NEW c \in Writers', builds'[c].alone PROVE Writers' = {c} /\ Wrote(builds'[c], disk')
    <3>1. c \in Writers /\ builds[c].alone /\ builds'[c] = builds[c]
      BY <1>6, <2>1
    <3>2. Writers = {c} /\ Wrote(builds[c], disk)
      BY <1>1, <3>1 DEF Apart
    <3> QED
      BY <1>5, <3>1, <3>2
  <2>2. ASSUME NEW c \in Builders, builds'[c].at = "summaries", builds'[c].alone
        PROVE  Writers' = {} /\ (builds'[c].enrich => FoundAgain(builds'[c], disk'.index))
    <3>1. CASE c = b
      BY <1>4, <1>5, <2>2, <3>1
    <3>2. CASE c # b
      <4>1. builds'[c] = builds[c]
        BY <1>4, <3>2
      <4>2. Writers = {} /\ (builds[c].enrich => FoundAgain(builds[c], disk.index))
        BY <1>1, <2>2, <4>1 DEF Apart
      <4> QED
        BY <1>5, <4>1, <4>2
    <3> QED
      BY <3>1, <3>2
  <2> QED
    BY <2>1, <2>2 DEF Apart
<1>8. PrintKnown'
  <2>1. (\A c \in Writers' : builds'[c].alone) => (\A c \in Writers : builds[c].alone)
    BY <1>5, <1>6
  <2>2. Settled' => Settled
    BY <1>5 DEF Settled
  <2> QED
    BY <1>1, <2>1, <2>2 DEF PrintKnown
<1> QED
  BY <1>3, <1>7, <1>8 DEF WikiInv

(* The steps of a build that asks for summaries.                           *)
LEMMA ReadingMoves ==
  ASSUME WikiInv, NEW b \in Builders,
         StartBuild(b) \/ Summarize(b) \/ SkipUnchanged(b)
  PROVE  WikiInv'
<1>1. WikiKept /\ Apart /\ "summaries" \notin Writing /\ "idle" \notin Writing
      /\ Idle.at = "idle"
  BY DEF WikiInv, Writing, Idle
<1>2. CASE StartBuild(b)
  <2>1. UNCHANGED <<tree, disk, last, torn>> /\ builds[b].at \notin Writing
    BY <1>1, <1>2, Started
  <2>2. CASE builds' = [builds EXCEPT ![b] = Idle]
    BY <1>1, <2>1, <2>2, ReaderMoves
  <2>3. CASE \E x \in Running : /\ builds' = [builds EXCEPT ![b] = x]
                                /\ x.at = "summaries" /\ x.todo \subseteq DOMAIN x.sections
                                /\ x.alone = (Writers \ {b} = {})
                                /\ x.enrich => FoundAgain(x, disk.index)
    <3>1. PICK x \in Running : /\ builds' = [builds EXCEPT ![b] = x]
                               /\ x.at = "summaries" /\ x.todo \subseteq DOMAIN x.sections
                               /\ x.alone = (Writers \ {b} = {})
                               /\ x.enrich => FoundAgain(x, disk.index)
      BY <2>3
    <3>2. b \notin Writers
      BY <2>1 DEF Writers
    <3>3. x.alone => Writers = {} /\ (x.enrich => FoundAgain(x, disk.index))
      BY <3>1, <3>2
    <3>4. x \in {Idle} \cup Running /\ x.at \notin Writing
      BY <1>1, <3>1
    <3> QED
      BY <1>1, <2>1, <3>1, <3>3, <3>4, ReaderMoves
  <2> QED
    BY <1>1, <1>2, <2>2, <2>3, Started
<1>3. CASE Summarize(b)
  <2>1. UNCHANGED <<tree, disk, last, torn>> /\ builds[b].at = "summaries"
    BY <1>1, <1>3, Summarized
  <2>2. PICK x \in Running :
              /\ builds' = [builds EXCEPT ![b] = x]
              /\ x.at = "summaries" /\ x.todo \subseteq DOMAIN x.sections
              /\ x.alone = builds[b].alone /\ x.enrich = builds[b].enrich
              /\ \A index : FoundAgain(builds[b], index) => FoundAgain(x, index)
    BY <1>1, <1>3, Summarized
  <2>3. x.alone => Writers = {} /\ (x.enrich => FoundAgain(x, disk.index))
    BY <1>1, <2>1, <2>2 DEF Apart
  <2> QED
    BY <1>1, <2>1, <2>2, <2>3, ReaderMoves
<1>4. CASE SkipUnchanged(b)
  <2>1. builds' = [builds EXCEPT ![b] = Idle] /\ builds[b].at = "summaries" /\ UNCHANGED <<tree, disk, last, torn>>
    BY <1>4 DEF SkipUnchanged, Decided
  <2> QED
    BY <1>1, <2>1, ReaderMoves
<1> QED
  BY <1>2, <1>3, <1>4

(* The code changes: the wiki does not look at it. *)
LEMMA TreeMoves ==
  ASSUME WikiInv, EditTree
  PROVE  WikiInv'
<1>1. tree' \in [TreeDirs -> 0..MaxVersion] /\ UNCHANGED <<disk, builds, last, torn>>
  BY DEF EditTree, WikiInv, WikiKept
<1>2. WikiKept'
  BY <1>1 DEF WikiInv, WikiKept
<1>3. Apart'
  BY <1>1 DEF WikiInv, Apart, Writers
<1>4. PrintKnown'
  BY <1>1 DEF WikiInv, PrintKnown, Writers, Settled
<1> QED
  BY <1>2, <1>3, <1>4 DEF WikiInv

(* A build starts to write: every other one knows that it is not alone.     *)
LEMMA BeginMoves ==
  ASSUME WikiInv, NEW b \in Builders, BeginWrite(b)
  PROVE  WikiInv'
<1> DEFINE pages == DOMAIN disk.pages
           alone == Writers = {}
           y == [builds[b] EXCEPT !.at = "clear", !.todo = pages, !.alone = alone]
<1>1. WikiKept /\ Apart /\ PrintKnown /\ builds[b].at = "summaries" /\ UNCHANGED <<tree, disk, last, torn>>
  BY DEF WikiInv, BeginWrite, Decided
<1>2. builds' = [c \in Builders |->
       IF c = b THEN y ELSE IF builds[c].at = "idle" THEN Idle ELSE [builds[c] EXCEPT !.alone = FALSE]]
  BY DEF BeginWrite
<1>3. builds[b] \in Running /\ "clear" \in Writing /\ "summaries" \notin Writing /\ "idle" \notin Writing /\ Idle.at = "idle"
  BY <1>1, BuildAt DEF Writing, Idle
<1>4. pages \in SUBSET TreeDirs /\ alone \in BOOLEAN
  <2>1. disk.pages \in SectionMaps
    BY <1>1 DEF WikiKept, Disks
  <2> QED
    BY <2>1, Maps
<1> HIDE DEF pages, alone
<1>5. y \in Running /\ y.at = "clear" /\ y.todo = pages /\ y.alone = alone
  <2>1. "clear" \in Writing \cup {"summaries"}
    BY <1>3
  <2> QED
    BY <1>3, <1>4, <2>1 DEF Running
<1> HIDE DEF y
<1>6. builds'[b] = y
  BY <1>2
<1>7. ASSUME NEW c \in Builders, c # b
      PROVE  /\ builds'[c] \in {Idle} \cup Running /\ builds'[c].at = builds[c].at
             /\ builds'[c].at # "idle" => /\ ~builds'[c].alone /\ builds'[c].todo = builds[c].todo
                                          /\ builds'[c].sections = builds[c].sections
  <2>1. CASE builds[c].at = "idle"
    <3>1. builds'[c] = Idle
      BY <1>2, <1>7, <2>1
    <3> QED
      BY <1>3, <2>1, <3>1
  <2>2. CASE builds[c].at # "idle"
    <3>1. builds'[c] = [builds[c] EXCEPT !.alone = FALSE]
      BY <1>2, <1>7, <2>2
    <3>2. builds[c] \in Running
      BY <1>1, <2>2, BuildAt
    <3> DEFINE z == [builds[c] EXCEPT !.alone = FALSE]
    <3>3. z \in Running /\ z.at = builds[c].at /\ z.alone = FALSE /\ z.todo = builds[c].todo /\ z.sections = builds[c].sections
      BY <3>2 DEF Running
    <3> QED
      BY <3>1, <3>3
  <2> QED
    BY <2>1, <2>2
<1>8. WikiKept'
  <2>1. builds' \in [Builders -> {Idle} \cup Running]
    <3>1. \A c \in Builders : builds'[c] \in {Idle} \cup Running
      BY <1>5, <1>6, <1>7
    <3>2. builds' = [c \in Builders |-> builds'[c]]
      BY <1>2
    <3> QED
      BY <3>1, <3>2
  <2>2. ASSUME NEW c \in Builders, builds'[c].at \in {"summaries", "pages"}
        PROVE  builds'[c].todo \subseteq DOMAIN builds'[c].sections
    <3>1. c # b /\ builds'[c].at # "idle"
      BY <1>5, <1>6, <2>2
    <3>2. builds[c].at \in {"summaries", "pages"}
      BY <1>7, <2>2, <3>1
    <3>3. builds[c].todo \subseteq DOMAIN builds[c].sections
      BY <1>1, <3>2 DEF WikiKept
    <3> QED
      BY <1>7, <3>1, <3>3
  <2> QED
    BY <1>1, <2>1, <2>2 DEF WikiKept
<1>9. Writers' = Writers \cup {b} /\ b \notin Writers
  BY <1>1, <1>3, <1>5, <1>6, <1>7 DEF Writers
<1>10. Apart'
  <2>1. ASSUME NEW c \in Writers', builds'[c].alone PROVE Writers' = {c} /\ Wrote(builds'[c], disk')
    <3>1. c \in Builders /\ builds'[c].at \in Writing
      BY <2>1 DEF Writers
    <3>2. c = b
      BY <1>3, <1>7, <2>1, <3>1
    <3>3. Writers = {}
      BY <1>5, <1>6, <2>1, <3>2 DEF alone
    <3>4. Wrote(y, disk)
      BY <1>5 DEF Wrote, pages
    <3> QED
      BY <1>1, <1>6, <1>9, <3>2, <3>3, <3>4
  <2>2. ASSUME NEW c \in Builders, builds'[c].at = "summaries", builds'[c].alone PROVE FALSE
    <3>1. c # b
      BY <1>5, <1>6, <2>2
    <3> QED
      BY <1>7, <2>2, <3>1
  <2> QED
    BY <2>1, <2>2 DEF Apart
<1>11. PrintKnown'
  <2>1. ~Settled'
    BY <1>9 DEF Settled
  <2>2. ASSUME torn' # "overlap", \A c \in Writers' : builds'[c].alone
        PROVE  disk'.print \in {NoFile, last'} /\ PagesMatch(disk')
    <3>1. b \in Writers'
      BY <1>9
    <3>2. Writers = {}
      BY <1>5, <1>6, <2>2, <3>1 DEF alone
    <3> QED
      BY <1>1, <2>2, <3>2 DEF PrintKnown
  <2> QED
    BY <2>1, <2>2 DEF PrintKnown
<1> QED
  BY <1>8, <1>10, <1>11 DEF WikiInv

(* A build that writes ends, with all its files written or half way.        *)
LEMMA WriterEnds ==
  ASSUME WikiInv, NEW b \in Writers,
         builds' = [builds EXCEPT ![b] = Idle], tree' = tree,
         disk' \in Disks, last' \in PrintMaps, torn' \in {"no", "cut", "overlap"},
         builds[b].alone \/ torn' = "overlap",
         builds[b].alone /\ torn' # "overlap" => disk'.print \in {NoFile, last'} /\ PagesMatch(disk'),
         builds[b].alone /\ torn' = "no" => disk'.print = Fingerprint(disk'.index) /\ disk'.pages = disk'.index
  PROVE  WikiInv'
<1>1. WikiKept /\ Apart /\ PrintKnown /\ builds \in [Builders -> {Idle} \cup Running]
      /\ b \in Builders /\ builds[b].at \in Writing
  BY DEF WikiInv, WikiKept, Writers
<1>2. Idle.at = "idle" /\ "idle" \notin Writing /\ "summaries" \notin Writing
  BY DEF Idle, Writing
<1>3. WikiKept'
  BY <1>1, <1>2, BuildMoves
<1>4. builds'[b] = Idle /\ \A c \in Builders : c # b => builds'[c] = builds[c]
  BY <1>1
<1>5. Writers' = Writers \ {b}
  BY <1>2, <1>4 DEF Writers
<1>6. Apart'
  <2>1. ASSUME NEW c \in Writers', builds'[c].alone PROVE FALSE
    <3>1. c \in Writers /\ c \in Builders /\ c # b
      BY <1>5 DEF Writers
    <3>2. Writers = {c}
      BY <1>1, <1>4, <2>1, <3>1 DEF Apart
    <3> QED
      BY <3>1, <3>2
  <2>2. ASSUME NEW c \in Builders, builds'[c].at = "summaries", builds'[c].alone PROVE FALSE
    <3>1. c # b
      BY <1>2, <1>4, <2>2
    <3> QED
      BY <1>1, <1>4, <2>2, <3>1 DEF Apart
  <2> QED
    BY <2>1, <2>2 DEF Apart
<1>7. PrintKnown'
  BY DEF PrintKnown, Settled
<1> QED
  BY <1>3, <1>6, <1>7 DEF WikiInv

(* A build ends.                                                           *)
LEMMA EndMoves ==
  ASSUME WikiInv, NEW b \in Builders, PrintRename(b) \/ WriteFails(b)
  PROVE  WikiInv'
<1>1. WikiKept /\ Apart /\ PrintKnown /\ disk \in Disks /\ last \in PrintMaps /\ torn \in {"no", "cut", "overlap"}
  BY DEF WikiInv, WikiKept
<1>2. CASE PrintRename(b)
  <2> DEFINE sections == builds[b].sections
             print == Fingerprint(sections)
             done == disk.print_tmp
  <2>1. /\ builds[b].at = "print" /\ "print" \in Writing /\ builds' = [builds EXCEPT ![b] = Idle]
        /\ torn' = (IF builds[b].alone THEN "no" ELSE "overlap") /\ last' = print
        /\ disk' = [disk EXCEPT !.print = done, !.print_tmp = NoFile] /\ tree' = tree
    BY <1>2 DEF PrintRename, Writing
  <2>2. b \in Writers /\ sections \in SectionMaps
    BY <1>1, <2>1, BuildAt DEF Writers
  <2>3. print \in PrintMaps /\ done \in PrintMaps /\ NoFile \in PrintMaps
    BY <1>1, <2>2, FingerprintType, Maps DEF Disks
  <2>4. builds[b].alone => disk.index = sections /\ disk.pages = sections /\ done = print
    BY <1>1, <2>1, <2>2 DEF Apart, Wrote
  <2> HIDE DEF done
  <2>5. disk' \in Disks /\ disk'.print = done /\ disk'.index = disk.index /\ disk'.pages = disk.pages
    BY <1>1, <2>1, <2>3 DEF Disks
  <2>6. builds[b].alone => disk'.print = Fingerprint(disk'.index) /\ disk'.pages = disk'.index /\ disk'.print = last'
    BY <2>1, <2>4, <2>5
  <2>7. builds[b].alone => PagesMatch(disk')
    BY <2>6 DEF PagesMatch
  <2> QED
    BY <2>1, <2>2, <2>3, <2>5, <2>6, <2>7, WriterEnds
<1>3. CASE WriteFails(b)
  <2>1. b \in Writers /\ builds' = [builds EXCEPT ![b] = Idle] /\ UNCHANGED <<tree, disk, last>>
        /\ torn' = IF builds[b].alone /\ torn # "overlap" THEN "cut" ELSE "overlap"
    BY <1>3 DEF WriteFails, Cut, Writers
  <2>2. builds[b].alone => \A c \in Writers : builds[c].alone
    BY <1>1, <2>1 DEF Apart
  <2>3. builds[b].alone /\ torn' # "overlap" => disk'.print \in {NoFile, last'} /\ PagesMatch(disk')
    BY <1>1, <2>1, <2>2 DEF PrintKnown
  <2> QED
    BY <1>1, <2>1, <2>3, WriterEnds
<1> QED
  BY <1>2, <1>3

(* The process ends, and every build with it. *)
LEMMA ProcessMoves ==
  ASSUME WikiInv, WikiProcessEnds
  PROVE  WikiInv'
<1>1. WikiKept /\ Apart /\ PrintKnown /\ UNCHANGED <<tree, disk, last>> /\ builds' = [b \in Builders |-> Idle]
      /\ torn' = IF Writers = {} THEN torn
                 ELSE IF \A b \in Writers : builds[b].alone /\ torn # "overlap" THEN "cut" ELSE "overlap"
  BY DEF WikiInv, WikiProcessEnds
<1>2. \A b \in Builders : builds'[b] = Idle /\ Idle.at = "idle"
  BY <1>1 DEF Idle
<1>3. Writers' = {}
  BY <1>2 DEF Writers, Writing
<1>4. torn' \in {"no", "cut", "overlap"}
  BY <1>1 DEF WikiKept
<1>5. WikiKept'
  BY <1>1, <1>2, <1>4 DEF WikiKept
<1>6. Apart'
  BY <1>2, <1>3 DEF Apart
<1>7. PrintKnown'
  <2>1. CASE Writers = {}
    BY <1>1, <1>3, <2>1 DEF PrintKnown, Settled
  <2>2. CASE Writers # {}
    <3>1. torn' # "no"
      BY <1>1, <2>2
    <3>2. torn' # "overlap" => torn # "overlap" /\ \A b \in Writers : builds[b].alone
      BY <1>1, <2>2
    <3> QED
      BY <1>1, <3>1, <3>2 DEF PrintKnown, Settled
  <2> QED
    BY <2>1, <2>2
<1> QED
  BY <1>5, <1>6, <1>7 DEF WikiInv

-----------------------------------------------------------------------------
(* The wiki. *)

(* The invariant of the wiki at first,                                     *)
LEMMA WikiBegins == WikiInit => WikiInv
<1> SUFFICES ASSUME WikiInit PROVE WikiInv
  OBVIOUS
<1>1. builds = [b \in Builders |-> Idle] /\ Idle.at = "idle" /\ last = NoFile /\ torn = "no"
      /\ disk.index = NoFile /\ disk.print = NoFile /\ disk.pages = NoFile
  BY DEF WikiInit, Idle
<1>2. Writers = {}
  BY <1>1 DEF Writers, Writing
<1>3. Fingerprint(NoFile) = NoFile
  <2>1. DOMAIN NoFile = {} /\ NoFile = [d \in {} |-> NoFile[d]]
    BY Maps
  <2>2. [d \in {} |-> NoFile[d]] = [d \in {} |-> NoFile[d].version]
    OBVIOUS
  <2> QED
    BY <2>1, <2>2 DEF Fingerprint
<1>4. Apart
  BY <1>1, <1>2 DEF Apart
<1>5. PagesMatch(disk)
  <2>1. DOMAIN disk.pages = {}
    BY <1>1, Maps
  <2> QED
    BY <2>1 DEF PagesMatch
<1>6. PrintKnown
  BY <1>1, <1>3, <1>5 DEF PrintKnown
<1> QED
  BY <1>4, <1>6, KeptInit DEF WikiInv

(* and after every step,                                                   *)
LEMMA WikiMoves == WikiInv /\ [WikiNext]_wkvars => WikiInv'
<1> SUFFICES ASSUME WikiInv, [WikiNext]_wkvars PROVE WikiInv'
  OBVIOUS
<1>1. CASE WikiNext
  BY <1>1, TreeMoves, ProcessMoves, ReadingMoves, BeginMoves, WritingMoves, EndMoves DEF WikiNext
<1>2. CASE UNCHANGED wkvars
  <2>1. UNCHANGED <<tree, disk, builds, last, torn>>
    BY <1>2 DEF wkvars
  <2>2. WikiKept'
    BY <2>1 DEF WikiInv, WikiKept
  <2>3. Apart'
    BY <2>1 DEF WikiInv, Apart, Writers
  <2>4. PrintKnown'
    BY <2>1 DEF WikiInv, PrintKnown, Writers, Settled
  <2> QED
    BY <2>2, <2>3, <2>4 DEF WikiInv
<1> QED
  BY <1>1, <1>2

(* The kinds above are those of the types of the wiki.                     *)
LEMMA KindsOfMaps ==
  /\ \A f \in SectionMaps : IsSections(f)
  /\ \A f \in PrintMaps : IsPrint(f)
<1>1. \A f \in SectionMaps : IsSections(f)
  BY Maps DEF IsSections, Honest
<1>2. \A f \in PrintMaps : IsPrint(f)
  BY Maps DEF IsPrint
<1> QED
  BY <1>1, <1>2

(* It says what the properties of the wiki say.                            *)
LEMMA WikiMeans == WikiInv => WikiTypeOK /\ PagesFollowIndex /\ SummariesKept
<1> SUFFICES ASSUME WikiInv PROVE WikiTypeOK /\ PagesFollowIndex /\ SummariesKept
  OBVIOUS
<1>1. /\ WikiKept /\ Apart /\ PrintKnown
      /\ disk.index \in SectionMaps /\ disk.index_tmp \in SectionMaps /\ disk.pages \in SectionMaps
      /\ disk.print \in PrintMaps /\ disk.print_tmp \in PrintMaps /\ last \in PrintMaps
  BY DEF WikiInv, WikiKept, Disks
<1>2. WikiTypeOK
  <2>1. \A b \in Builders : builds[b].at \in Writing \cup {"idle", "summaries"}
    BY <1>1 DEF WikiKept, Idle, Running
  <2>2. ASSUME NEW b \in Builders, builds[b].at # "idle"
        PROVE  IsSections(builds[b].sections) /\ builds[b].todo \subseteq TreeDirs /\ builds[b].budget \in 0..SummaryBudget
    BY <1>1, <2>2, BuildAt, KindsOfMaps DEF Running
  <2> QED
    BY <1>1, <2>1, <2>2, KindsOfMaps DEF WikiTypeOK, WikiKept
<1>3. PagesFollowIndex
  BY <1>1 DEF PrintKnown, PagesFollowIndex, Settled
<1>4. SummariesKept
  <2>1. ASSUME NEW d \in DOMAIN QuerySections
        PROVE  QuerySections[d].summary \in {0, QuerySections[d].version}
    <3>1. CASE disk.index # NoFile
      <4>1. disk.index[d] \in Honest
        BY <1>1, <2>1, <3>1, Maps DEF QuerySections
      <4> QED
        BY <3>1, <4>1 DEF QuerySections, Honest
    <3>2. CASE disk.index = NoFile
      BY <2>1, <3>2 DEF QuerySections, GroupIntoSections
    <3> QED
      BY <3>1, <3>2
  <2>2. ASSUME NEW b \in Builders, builds[b].at = "summaries", builds[b].enrich, builds[b].alone,
               NEW d \in DOMAIN disk.index \cap DOMAIN builds[b].sections,
               disk.index[d].version = builds[b].sections[d].version, disk.index[d].summary # 0
        PROVE  builds[b].sections[d].summary # 0
    BY <1>1, <2>2 DEF Apart, FoundAgain
  <2> QED
    BY <2>1, <2>2 DEF SummariesKept
<1> QED
  BY <1>2, <1>3, <1>4

-----------------------------------------------------------------------------
(* The bundle made of the wiki. *)

(* The rows of the bundles; the copy the process keeps is the list.        *)
OkfKept ==
  /\ DOMAIN overlay \subseteq FileNames /\ \A f \in DOMAIN overlay : overlay[f] \in Bodies
  /\ visibility \in {"private", "shared"} /\ DOMAIN folder \subseteq FileNames
  /\ registered = bundles
  /\ bundles \subseteq External /\ imports \subseteq ImportNames /\ theirs \subseteq Theirs
  /\ \A n \in ImportNames : <<"import", n>> \in bundles => n \in imports

OkfInv == WikiInv /\ OkfKept

(* Every section has a file of its own.  Only the repository root and a     *)
(* directory "root" have one stem, and whichever comes later in the order   *)
(* of the paths gets the suffix.                                           *)
LEMMA OwnPath ==
  ASSUME NEW S \in SUBSET TreeDirs, NEW d \in S, NEW e \in S, RelPath(d, S) = RelPath(e, S)
  PROVE  d = e
<1> SUFFICES ASSUME d # e PROVE FALSE
  OBVIOUS
<1> DEFINE StemsBefore(x) == {<<Stem(c), "">> : c \in {c \in S : Before(c, x)}}
           TakenBefore(x) == Reserved \cup StemsBefore(x)
<1>1. \A x \in S : RelPath(x, S) = IF <<Stem(x), "">> \in TakenBefore(x) THEN <<Stem(x), "concept">> ELSE <<Stem(x), "">>
  BY DEF RelPath
<1>2. Stem(d) = Stem(e) /\ (<<Stem(d), "">> \in TakenBefore(d) <=> <<Stem(e), "">> \in TakenBefore(e))
  <2> DEFINE s == Stem(d)
             t == Stem(e)
             P == TakenBefore(d)
             Q == TakenBefore(e)
  <2>1. /\ <<s, "">> \in P => RelPath(d, S) = <<s, "concept">>
        /\ <<s, "">> \notin P => RelPath(d, S) = <<s, "">>
        /\ <<t, "">> \in Q => RelPath(e, S) = <<t, "concept">>
        /\ <<t, "">> \notin Q => RelPath(e, S) = <<t, "">>
    BY <1>1
  <2> HIDE DEF P, Q, s, t
  <2>3. <<s, "concept">> # <<t, "">> /\ <<s, "">> # <<t, "concept">>
        /\ (<<s, "concept">> = <<t, "concept">> => s = t) /\ (<<s, "">> = <<t, "">> => s = t)
    OBVIOUS
  <2>4. s = t
    BY <2>1, <2>3
  <2>5. <<s, "">> \in P <=> <<t, "">> \in Q
    BY <2>1, <2>3
  <2> QED
    BY <2>4, <2>5 DEF P, Q, s, t
<1>3. d \in TreeDirs /\ e \in TreeDirs /\ {d, e} = {".", "root"} /\ Stem(d) = "root"
  <2>1. Stem(d) = Stem(e) /\ d # e
    BY <1>2
  <2>2. (d = "." /\ e = "root") \/ (d = "root" /\ e = ".")
    BY <2>1 DEF Stem
  <2>3. Stem(d) = "root"
    BY <2>2 DEF Stem
  <2> QED
    BY <2>2, <2>3
<1>4. \A x, y \in S : x # y => Before(x, y) \/ Before(y, x)
  <2> SUFFICES ASSUME NEW x \in S, NEW y \in S, x # y PROVE Before(x, y) \/ Before(y, x)
    OBVIOUS
  <2>1. PICK i \in DOMAIN WikiDirs : WikiDirs[i] = x
    BY DEF TreeDirs
  <2>2. PICK j \in DOMAIN WikiDirs : WikiDirs[j] = y
    BY DEF TreeDirs
  <2>3. i \in Nat /\ j \in Nat /\ i # j
    BY <2>1, <2>2, WikiAssumption
  <2>4. i < j \/ j < i
    BY <2>3
  <2> QED
    BY <2>1, <2>2, <2>4 DEF Before
<1>5. \A x, y : Before(x, y) => x # y /\ ~Before(y, x)
  <2> SUFFICES ASSUME NEW x, NEW y, Before(x, y), x = y \/ Before(y, x) PROVE FALSE
    OBVIOUS
  <2>1. PICK i \in DOMAIN WikiDirs, j \in DOMAIN WikiDirs : i < j /\ WikiDirs[i] = x /\ WikiDirs[j] = y
    BY DEF Before
  <2>2. i \in Nat /\ j \in Nat
    BY WikiAssumption
  <2>3. CASE x = y
    BY <2>1, <2>2, <2>3, WikiAssumption
  <2>4. CASE Before(y, x)
    <3>1. PICK k \in DOMAIN WikiDirs, l \in DOMAIN WikiDirs : k < l /\ WikiDirs[k] = y /\ WikiDirs[l] = x
      BY <2>4 DEF Before
    <3>2. k = j /\ l = i
      BY <2>1, <3>1, WikiAssumption
    <3> QED
      BY <2>1, <2>2, <3>1, <3>2
  <2> QED
    BY <2>3, <2>4
<1>6. \A c : c \in S /\ Stem(c) = "root" => c \in {d, e}
  BY <1>3 DEF Stem
<1>7. ASSUME NEW x \in {d, e}, NEW y \in {d, e}, x # y, Before(x, y)
      PROVE  <<"root", "">> \in TakenBefore(y) /\ <<"root", "">> \notin TakenBefore(x)
  <2>1. Stem(x) = "root" /\ x \in S /\ y \in S
    BY <1>2, <1>3
  <2>2. <<Stem(x), "">> \in StemsBefore(y)
    BY <1>7, <2>1
  <2>3. ASSUME <<"root", "">> \in StemsBefore(x) PROVE FALSE
    <3>1. PICK c \in S : Before(c, x) /\ <<Stem(c), "">> = <<"root", "">>
      BY <2>3
    <3>2. Stem(c) = "root"
      BY <3>1
    <3>3. c = y
      BY <1>5, <1>6, <1>7, <3>1, <3>2
    <3> QED
      BY <1>5, <1>7, <3>1, <3>3
  <2>4. <<"root", "">> \notin Reserved
    BY DEF Reserved
  <2> QED
    BY <2>1, <2>2, <2>3, <2>4
<1> QED
  BY <1>2, <1>3, <1>4, <1>7

(* The name of a section is a file name that the bundle may use.           *)
LEMMA PathKind ==
  ASSUME NEW S, NEW d \in TreeDirs
  PROVE  RelPath(d, S) \in FileNames /\ RelPath(d, S) \notin Reserved
<1> DEFINE taken == Reserved \cup {<<Stem(e), "">> : e \in {e \in S : Before(e, d)}}
<1>1. RelPath(d, S) = IF <<Stem(d), "">> \in taken THEN <<Stem(d), "concept">> ELSE <<Stem(d), "">>
  BY DEF RelPath
<1>2. <<Stem(d), "concept">> \notin Reserved
  BY DEF Reserved
<1>3. <<Stem(d), "concept">> \in FileNames /\ <<Stem(d), "">> \in FileNames
  BY DEF FileNames
<1>4. Reserved \subseteq taken
  OBVIOUS
<1> HIDE DEF taken
<1> QED
  BY <1>1, <1>2, <1>3, <1>4

(* There are finitely many directories.                                    *)
LEMMA DirsAreFinite == IsFiniteSet(TreeDirs)
<1> DEFINE at == [i \in DOMAIN WikiDirs |-> WikiDirs[i]]
<1>1. DOMAIN WikiDirs = 1..Len(WikiDirs) /\ Len(WikiDirs) \in Int
  BY WikiAssumption
<1>2. IsFiniteSet(DOMAIN WikiDirs)
  BY <1>1, FS_Interval
<1>3. at \in Surjection(DOMAIN WikiDirs, TreeDirs)
  BY DEF Surjection, TreeDirs
<1> QED
  BY <1>2, <1>3, FS_Surjection

(* What the generated bundle is, without the choice in its definition.      *)
LEMMA AutoFiles ==
  LET S == DOMAIN disk.index
  IN  /\ DOMAIN AutoBundle = {RelPath(d, S) : d \in S}
      /\ \A f \in DOMAIN AutoBundle : \E d \in S : AutoBundle[f] = Generated(d, S)
<1> DEFINE S == DOMAIN disk.index
           path == [d \in S |-> RelPath(d, S)]
<1>1. AutoBundle = [f \in {path[d] : d \in S} |-> Generated(CHOOSE d \in S : path[d] = f, S)]
  BY DEF AutoBundle
<1>2. DOMAIN AutoBundle = {path[d] : d \in S}
  BY <1>1
<1>3. {path[d] : d \in S} = {RelPath(d, S) : d \in S}
  OBVIOUS
<1>4. ASSUME NEW f \in DOMAIN AutoBundle PROVE \E d \in S : AutoBundle[f] = Generated(d, S)
  <2>1. AutoBundle[f] = Generated(CHOOSE d \in S : path[d] = f, S)
    BY <1>1, <1>2, <1>4
  <2>2. (CHOOSE d \in S : path[d] = f) \in S
    BY <1>2, <1>4
  <2> HIDE DEF path
  <2> QED
    BY <2>1, <2>2
<1> QED
  BY <1>2, <1>3, <1>4

(* The bundle with the edits of the user laid over it.                     *)
LEMMA OwnFiles ==
  ASSUME WikiInv
  PROVE  /\ DOMAIN disk.index \in SUBSET TreeDirs
         /\ DOMAIN AutoBundle \subseteq FileNames \ Reserved
         /\ DOMAIN OwnBundle = DOMAIN AutoBundle
         /\ \A f \in DOMAIN OwnBundle : f \notin DOMAIN overlay => OwnBundle[f] = AutoBundle[f]
         /\ OwnBundle = [f \in DOMAIN OwnBundle |-> OwnBundle[f]]
         /\ DOMAIN BundleFiles(OwnBundle) = DOMAIN OwnBundle \cup {<<"index", "">>}
         /\ \A f \in DOMAIN OwnBundle : BundleFiles(OwnBundle)[f] = OwnBundle[f]
<1> DEFINE S == DOMAIN disk.index
           ours == [f \in DOMAIN AutoBundle |-> IF f \in DOMAIN overlay THEN overlay[f] ELSE AutoBundle[f]]
<1>1. S \in SUBSET TreeDirs
  <2>1. disk.index \in SectionMaps
    BY DEF WikiInv, WikiKept, Disks
  <2> QED
    BY <2>1, Maps
<1>2. DOMAIN AutoBundle = {RelPath(d, S) : d \in S}
  BY AutoFiles
<1>3. \A d \in S : RelPath(d, S) \in FileNames \ Reserved
  BY <1>1, PathKind
<1>4. DOMAIN AutoBundle \subseteq FileNames \ Reserved
  BY <1>2, <1>3
<1>5. OwnBundle = ours
  BY DEF OwnBundle
<1>6. /\ DOMAIN ours = DOMAIN AutoBundle /\ ours = [f \in DOMAIN ours |-> ours[f]]
      /\ \A f \in DOMAIN ours : f \notin DOMAIN overlay => ours[f] = AutoBundle[f]
  OBVIOUS
<1> HIDE DEF ours
<1>7. /\ DOMAIN BundleFiles(ours) = (DOMAIN ours \ Reserved) \cup {<<"index", "">>}
      /\ \A f \in (DOMAIN ours \ Reserved) \cup {<<"index", "">>} :
           f # <<"index", "">> => BundleFiles(ours)[f] = ours[f]
  BY DEF BundleFiles
<1>8. <<"index", "">> \in Reserved /\ DOMAIN ours \cap Reserved = {}
  BY <1>4, <1>6 DEF Reserved
<1>9. /\ DOMAIN BundleFiles(ours) = DOMAIN ours \cup {<<"index", "">>}
      /\ \A f \in DOMAIN ours : BundleFiles(ours)[f] = ours[f]
  BY <1>7, <1>8
<1> QED
  BY <1>1, <1>4, <1>5, <1>6, <1>9

(* What is written and read again is what was generated.                   *)
LEMMA RoundTrip == WikiInv => BundleRoundTrip
<1> SUFFICES ASSUME WikiInv PROVE BundleRoundTrip
  OBVIOUS
<1> DEFINE ours == OwnBundle
           S == DOMAIN disk.index
           path == [d \in S |-> RelPath(d, S)]
<1>1. S \in SUBSET TreeDirs /\ DOMAIN ours = {RelPath(d, S) : d \in S} /\ DOMAIN ours \cap Reserved = {}
  BY OwnFiles, AutoFiles
<1>2. Cardinality(DOMAIN ours) = Cardinality(S)
  <2>1. IsFiniteSet(S)
    BY <1>1, DirsAreFinite, FS_Subset
  <2>2. path \in [S -> DOMAIN ours] /\ \A f \in DOMAIN ours : \E d \in S : path[d] = f
    BY <1>1
  <2>3. \A d, e \in S : path[d] = path[e] => d = e
    BY <1>1, OwnPath
  <2> HIDE DEF path, ours, S
  <2>4. path \in Bijection(S, DOMAIN ours)
    BY <2>2, <2>3 DEF Bijection, Injection, IsInjective, Surjection
  <2>5. ExistsBijection(S, DOMAIN ours)
    BY <2>4 DEF ExistsBijection
  <2> QED
    BY <2>1, <2>5, FS_Bijection
<1>3. ReadBundle(BundleFiles(ours)) = ours
  <2> DEFINE files == BundleFiles(ours)
  <2>1. /\ DOMAIN files = DOMAIN ours \cup {<<"index", "">>}
        /\ ours = [f \in DOMAIN ours |-> ours[f]]
        /\ \A f \in DOMAIN ours : files[f] = ours[f]
    BY OwnFiles
  <2>2. <<"index", "">> \in Reserved
    BY DEF Reserved
  <2> HIDE DEF files, ours
  <2>3. DOMAIN files \ Reserved = DOMAIN ours
    BY <1>1, <2>1, <2>2
  <2>4. ReadBundle(files) = [f \in DOMAIN ours |-> files[f]]
    BY <2>3 DEF ReadBundle
  <2>5. [f \in DOMAIN ours |-> files[f]] = [f \in DOMAIN ours |-> ours[f]]
    BY <2>1
  <2> QED
    BY <2>1, <2>4, <2>5 DEF files
<1>4. \A f \in DOMAIN ours : f \notin DOMAIN overlay => ours[f].links \subseteq DOMAIN ours
  <2> SUFFICES ASSUME NEW f \in DOMAIN ours, f \notin DOMAIN overlay
               PROVE  ours[f].links \subseteq DOMAIN ours
    OBVIOUS
  <2>1. ours[f] = AutoBundle[f] /\ f \in DOMAIN AutoBundle
    BY OwnFiles
  <2>2. PICK d \in S : AutoBundle[f] = Generated(d, S)
    BY <2>1, AutoFiles
  <2>3. ours[f].links = Related(d, S)
    BY <2>1, <2>2 DEF Generated
  <2> HIDE DEF ours, S
  <2> QED
    BY <1>1, <2>3 DEF Related
<1> QED
  BY <1>2, <1>3, <1>4 DEF BundleRoundTrip

-----------------------------------------------------------------------------
(* The settings, the folder and the bundles of others. *)

(* At first there are no bundles.                                          *)
LEMMA OkfBegins == OkfInit => OkfKept
<1> SUFFICES ASSUME OkfInit PROVE OkfKept
  OBVIOUS
<1>1. DOMAIN overlay = {} /\ DOMAIN folder = OwnNotes /\ OwnNotes \subseteq FileNames
  <2>1. DOMAIN NoFile = {}
    BY Maps
  <2> QED
    BY <2>1 DEF OkfInit, FileNames
<1> QED
  BY <1>1 DEF OkfInit, OkfKept

(* The steps on the own wiki.                                              *)
LEMMA OwnMoves ==
  ASSUME WikiInv, OkfKept, OwnNext
  PROVE  OkfKept'
<1>1. CASE SetOverlay
  <2>1. PICK f \in DOMAIN AutoBundle, body \in Bodies :
          overlay' = [g \in DOMAIN overlay \cup {f} |-> IF g = f THEN body ELSE overlay[g]]
    BY <1>1 DEF SetOverlay
  <2>2. f \in FileNames
    BY OwnFiles
  <2>3. DOMAIN overlay' \subseteq FileNames /\ \A g \in DOMAIN overlay' : overlay'[g] \in Bodies
    BY <2>1, <2>2 DEF OkfKept
  <2>4. UNCHANGED <<visibility, folder, bundles, registered, imports, theirs>>
    BY <1>1 DEF SetOverlay, ExternalUnchanged
  <2> QED
    BY <2>3, <2>4 DEF OkfKept
<1>2. CASE ClearOverlay
  <2>1. PICK f \in DOMAIN overlay : overlay' = [g \in DOMAIN overlay \ {f} |-> overlay[g]]
    BY <1>2 DEF ClearOverlay
  <2>2. UNCHANGED <<visibility, folder, bundles, registered, imports, theirs>>
    BY <1>2 DEF ClearOverlay, ExternalUnchanged
  <2> QED
    BY <2>1, <2>2 DEF OkfKept
<1>3. CASE OverlayCut
  <2>1. DOMAIN overlay' = {}
    BY <1>3, Maps DEF OverlayCut
  <2>2. UNCHANGED <<visibility, folder, bundles, imports, theirs>> /\ registered' = bundles
    BY <1>3 DEF OverlayCut
  <2> QED
    BY <2>1, <2>2 DEF OkfKept
<1>4. CASE Publish
  <2>1. folder' \in WriteBundle(BundleFiles(OwnBundle)) /\ UNCHANGED <<overlay, visibility, bundles, registered, imports, theirs>>
    BY <1>4 DEF Publish, ExternalUnchanged
  <2>2. DOMAIN folder' \subseteq DOMAIN BundleFiles(OwnBundle)
    BY <2>1 DEF WriteBundle
  <2>3. DOMAIN BundleFiles(OwnBundle) \subseteq FileNames
    BY OwnFiles DEF FileNames
  <2> QED
    BY <2>1, <2>2, <2>3 DEF OkfKept
<1>5. ASSUME NEW v \in {"private", "shared"}, SetOkfSettings(v) PROVE OkfKept'
  BY <1>5 DEF SetOkfSettings, ExternalUnchanged, OkfKept
<1> QED
  BY <1>1, <1>2, <1>3, <1>4, <1>5 DEF OwnNext

(* The steps on the bundles of others.                                     *)
LEMMA ExternalMoves ==
  ASSUME OkfKept, ExternalNext
  PROVE  OkfKept'
<1>1. \A n : <<"import", n>>[1] = "import" /\ <<"import", n>>[2] = n
  OBVIOUS
<1>2. \A n, m : <<"import", n>> = <<"import", m>> => n = m
  OBVIOUS
<1>3. \A n \in ImportNames : <<"import", n>> \in External
  BY DEF External, Managed
<1>4. CASE AddZip
  <2>1. PICK n \in FreeImports :
          imports' = imports \cup {n} /\ bundles' = bundles \cup {<<"import", n>>} /\ registered' = bundles'
    BY <1>4 DEF AddZip, Register
  <2>2. n \in ImportNames /\ UNCHANGED <<overlay, visibility, folder, theirs>>
    BY <1>4 DEF AddZip, OwnUnchanged, FreeImports
  <2> QED
    BY <1>2, <1>3, <2>1, <2>2 DEF OkfKept
<1>5. CASE AddZipBreaks
  <2>1. PICK n \in FreeImports, left \in BOOLEAN : imports' = IF left THEN imports \cup {n} ELSE imports
    BY <1>5 DEF AddZipBreaks
  <2>2. n \in ImportNames /\ UNCHANGED <<overlay, visibility, folder, bundles, registered, theirs>>
    BY <1>5 DEF AddZipBreaks, OwnUnchanged, FreeImports
  <2>3. imports' \subseteq ImportNames /\ imports \subseteq imports'
    BY <2>1, <2>2 DEF OkfKept
  <2> QED
    BY <2>2, <2>3 DEF OkfKept
<1>6. CASE OkfStart
  BY <1>6 DEF OkfStart, OwnUnchanged, OkfKept
<1>7. ASSUME NEW p \in External, AddDirectory(p) PROVE OkfKept'
  <2>1. bundles' = bundles \cup {p} /\ registered' = bundles' /\ Here(p) /\ UNCHANGED <<overlay, visibility, folder, imports, theirs>>
    BY <1>7 DEF AddDirectory, Register, OwnUnchanged
  <2>2. \A n : p = <<"import", n>> => n \in imports
    BY <1>1, <2>1 DEF Here
  <2> QED
    BY <2>1, <2>2 DEF OkfKept
<1>8. ASSUME NEW p \in External, RemoveExternal(p) PROVE OkfKept'
  <2>1. /\ bundles' = bundles \ {p} /\ registered' = bundles' /\ UNCHANGED <<overlay, visibility, folder, theirs>>
        /\ \E cleaned \in BOOLEAN : imports' = IF cleaned /\ p[1] = "import" THEN imports \ {p[2]} ELSE imports
    BY <1>8 DEF RemoveExternal, Register, OwnUnchanged
  <2>2. p[1] = "import" => p = <<"import", p[2]>>
    BY DEF External, Managed
  <2>3. imports' \subseteq imports /\ \A n \in imports : n \in imports' \/ p = <<"import", n>>
    <3>1. CASE imports' = imports
      BY <3>1
    <3>2. CASE p[1] = "import" /\ imports' = imports \ {p[2]}
      BY <2>2, <3>2
    <3> QED
      BY <2>1, <3>1, <3>2
  <2> QED
    BY <2>1, <2>3 DEF OkfKept
<1>9. ASSUME NEW p \in Theirs, UserDeletesFolder(p) PROVE OkfKept'
  BY <1>9 DEF UserDeletesFolder, OwnUnchanged, OkfKept
<1> QED
  BY <1>4, <1>5, <1>6, <1>7, <1>8, <1>9 DEF ExternalNext

(* Every step keeps both.                                                  *)
LEMMA OkfMoves == OkfInv /\ [OkfNext]_<<wkvars, okfvars>> => OkfInv'
<1> SUFFICES ASSUME OkfInv, [OkfNext]_<<wkvars, okfvars>> PROVE OkfInv'
  OBVIOUS
<1>1. [WikiNext]_wkvars
  BY DEF OkfNext, OwnNext, ExternalNext
<1>2. WikiInv'
  BY <1>1, WikiMoves DEF OkfInv
<1>3. OwnNext \/ ExternalNext \/ UNCHANGED okfvars
  BY DEF OkfNext
<1>4. OkfKept'
  <2>1. CASE UNCHANGED okfvars
    BY <2>1 DEF okfvars, OkfInv, OkfKept
  <2> QED
    BY <1>3, <2>1, OwnMoves, ExternalMoves DEF OkfInv
<1> QED
  BY <1>2, <1>4 DEF OkfInv

(* They say what the properties say.                                       *)
LEMMA OkfMeans == OkfInv => OkfTypeOK /\ ImportsReadable
<1> SUFFICES ASSUME OkfInv PROVE OkfTypeOK /\ ImportsReadable
  OBVIOUS
<1>1. OkfKept
  BY DEF OkfInv
<1>2. OkfTypeOK
  BY <1>1 DEF OkfKept, OkfTypeOK
<1>3. Readable = Browsable
  BY <1>1 DEF OkfKept, Readable, Browsable
<1>4. \A p \in bundles \cap Managed : Here(p)
  <2> SUFFICES ASSUME NEW p \in bundles \cap Managed PROVE Here(p)
    OBVIOUS
  <2>1. PICK n \in ImportNames : p = <<"import", n>>
    BY DEF Managed
  <2>2. n \in imports
    BY <1>1, <2>1 DEF OkfKept
  <2> QED
    BY <2>1, <2>2 DEF Here
<1>5. bundles \cap Managed \subseteq Readable
  BY <1>1, <1>4 DEF OkfKept, Readable
<1> QED
  BY <1>2, <1>3, <1>5 DEF ImportsReadable

(* So the invariant holds in every state.                                  *)
LEMMA OkfKeeps == OkfSpec => []OkfInv
<1>1. WikiInit /\ OkfInit => OkfInv
  BY WikiBegins, OkfBegins DEF OkfInv
<1> QED
  BY <1>1, OkfMoves, PTL DEF OkfSpec
-----------------------------------------------------------------------------
(* The wiki on disk, for any number of builds that overlap, are cut short    *)
(* or find it unchanged.  When nobody writes and no two wrote at once since  *)
(* the last whole build, no page says other than the index and the           *)
(* fingerprint is that of the last whole build, and once a lone build has    *)
(* written all, whatever stopped before it, all three say the same.  After a *)
(* build that stopped half way pages may be missing under a fingerprint that *)
(* still matches (PrintVouches, which does not hold).  In every state a      *)
(* summary belongs to the sources it stands beside, and the bundle of the    *)
(* repository gives the same sections back (wiki lib.rs, okf.rs).            *)
THEOREM WikiCorrect ==
  OkfSpec => [](WikiTypeOK /\ PagesFollowIndex /\ SummariesKept /\ BundleRoundTrip)
<1>1. OkfInv => WikiTypeOK /\ PagesFollowIndex /\ SummariesKept /\ BundleRoundTrip
  BY WikiMeans, RoundTrip DEF OkfInv
<1> QED
  BY <1>1, OkfKeeps, PTL

(* Bundles of others (commands.rs okf_import_bundle, okf_register_external,  *)
(* okf_remove_bundle): the list the user browses and the copy the model      *)
(* reads name the same bundles, and every import that is registered is still *)
(* on disk.                                                                  *)
THEOREM BundlesCorrect == OkfSpec => [](OkfTypeOK /\ ImportsReadable)
<1>1. OkfInv => OkfTypeOK /\ ImportsReadable
  BY OkfMeans
<1> QED
  BY <1>1, OkfKeeps, PTL


-----------------------------------------------------------------------------
(***************************************************************************)
(* Theorems about Pricing and Accounts, for any models, prices and reports.*)
(* PricesKept says what a capture may apply. BooksInv ties the four books  *)
(* to the reports: a row is for one report, a report has a row unless the  *)
(* run still holds it, and a run or its answer owes each of its reports    *)
(* once.                                                                   *)
(***************************************************************************)
(* Sums. *)

(* A set of numbers with zero and what follows each of them has them all.   *)
LEMMA Upwards ==
  ASSUME NEW S, 0 \in S, \A n \in Nat : n \in S => n + 1 \in S
  PROVE  Nat \subseteq S
<1> DEFINE T == Nat \ S
           R == OpToRel(<, Nat)
<1> SUFFICES ASSUME T # {} PROVE FALSE
  OBVIOUS
<1>1. IsWellFoundedOn(R, Nat)
  BY NatLessThanWellFounded
<1>2. \A y, z \in Nat : y < z => <<y, z>> \in R
  BY DEF OpToRel
<1>3. PICK x \in T : \A y \in T : ~ (<<y, x>> \in R)
  <2>1. T \subseteq Nat
    OBVIOUS
  <2> HIDE DEF R, T
  <2> QED
    BY <1>1, <2>1, WFMin
<1>4. x \in Nat /\ x # 0
  OBVIOUS
<1>5. x - 1 \in Nat /\ x - 1 < x /\ (x - 1) + 1 = x
  BY <1>4
<1>6. x - 1 \in S
  BY <1>2, <1>3, <1>4, <1>5
<1> QED
  BY <1>5, <1>6

(* What the sums up to n are, as a function.                                *)
Sums(f, g, n) == \A k \in 0..n : g[k] = IF k = 0 THEN 0 ELSE g[k - 1] + f[k]

LEMMA SumsAgree ==
  ASSUME NEW f, NEW g, NEW h, NEW n \in Nat, NEW m \in Nat, Sums(f, g, n), Sums(f, h, m)
  PROVE  \A k \in Nat : k <= n /\ k <= m => g[k] = h[k]
<1> DEFINE S == {k \in Nat : k <= n /\ k <= m => g[k] = h[k]}
<1>1. 0 \in S
  BY DEF Sums
<1>2. ASSUME NEW k \in Nat, k \in S PROVE k + 1 \in S
  <2> SUFFICES ASSUME k + 1 <= n, k + 1 <= m PROVE g[k + 1] = h[k + 1]
    OBVIOUS
  <2>1. k + 1 \in 0..n /\ k + 1 \in 0..m /\ k + 1 # 0 /\ (k + 1) - 1 = k /\ k <= n /\ k <= m
    OBVIOUS
  <2>2. g[k + 1] = g[k] + f[k + 1] /\ h[k + 1] = h[k] + f[k + 1]
    BY <2>1 DEF Sums
  <2> QED
    BY <1>2, <2>1, <2>2
<1> HIDE DEF S
<1>3. Nat \subseteq S
  BY <1>1, <1>2, Upwards
<1> QED
  BY <1>3 DEF S

LEMMA SumsExist ==
  ASSUME NEW f
  PROVE  \A n \in Nat : \E g : Sums(f, g, n)
<1> DEFINE S == {n \in Nat : \E g : Sums(f, g, n)}
<1>1. 0 \in S
  <2>1. Sums(f, [k \in {0} |-> 0], 0)
    BY DEF Sums
  <2> QED
    BY <2>1
<1>2. ASSUME NEW n \in Nat, n \in S PROVE n + 1 \in S
  <2>1. PICK g : Sums(f, g, n)
    BY <1>2
  <2> DEFINE h == [k \in 0..(n + 1) |-> IF k = n + 1 THEN g[n] + f[n + 1] ELSE g[k]]
  <2>2. ASSUME NEW k \in 0..(n + 1) PROVE h[k] = IF k = 0 THEN 0 ELSE h[k - 1] + f[k]
    <3>1. CASE k = n + 1
      <4>1. n \in 0..(n + 1) /\ n # n + 1 /\ k - 1 = n /\ k # 0
        BY <3>1
      <4> QED
        BY <3>1, <4>1
    <3>2. CASE k # n + 1
      <4>1. k \in 0..n /\ (k # 0 => k - 1 \in 0..(n + 1) /\ k - 1 # n + 1)
        BY <3>2
      <4>2. g[k] = IF k = 0 THEN 0 ELSE g[k - 1] + f[k]
        BY <2>1, <4>1 DEF Sums
      <4> QED
        BY <3>2, <4>1, <4>2
    <3> QED
      BY <3>1, <3>2
  <2> HIDE DEF h
  <2>3. Sums(f, h, n + 1)
    BY <2>2 DEF Sums
  <2> QED
    BY <2>3
<1> HIDE DEF S
<1>3. Nat \subseteq S
  BY <1>1, <1>2, Upwards
<1> QED
  BY <1>3 DEF S

(* So the recursion of SumTo has a solution, and adds one value at a time.  *)
LEMMA SumStep ==
  ASSUME NEW f
  PROVE  SumTo(f, 0) = 0 /\ \A n \in Nat : SumTo(f, n + 1) = SumTo(f, n) + f[n + 1]
<1> DEFINE upto(n) == CHOOSE g : Sums(f, g, n)
           all == [k \in Nat |-> upto(k)[k]]
           Rec(s) == s = [k \in Nat |-> IF k = 0 THEN 0 ELSE s[k - 1] + f[k]]
           sum == CHOOSE s : Rec(s)
<1>1. \A n \in Nat : Sums(f, upto(n), n)
  BY SumsExist
<1>2. ASSUME NEW k \in Nat PROVE all[k] = IF k = 0 THEN 0 ELSE all[k - 1] + f[k]
  <2>1. Sums(f, upto(k), k)
    BY <1>1
  <2>2. k \in 0..k
    OBVIOUS
  <2>3. upto(k)[k] = IF k = 0 THEN 0 ELSE upto(k)[k - 1] + f[k]
    BY <2>1, <2>2 DEF Sums
  <2>4. CASE k = 0
    BY <2>3, <2>4
  <2>5. CASE k # 0
    <3>1. k - 1 \in Nat /\ k - 1 <= k /\ k - 1 <= k - 1
      BY <2>5
    <3>2. Sums(f, upto(k - 1), k - 1)
      BY <1>1, <3>1
    <3> HIDE DEF upto
    <3>3. upto(k)[k - 1] = upto(k - 1)[k - 1]
      BY <2>1, <3>1, <3>2, SumsAgree
    <3> QED
      BY <2>3, <2>5, <3>1, <3>3
  <2> QED
    BY <2>4, <2>5
<1> HIDE DEF upto
<1>3. Rec(all)
  <2>1. all = [k \in Nat |-> all[k]]
    OBVIOUS
  <2> HIDE DEF all
  <2>2. [k \in Nat |-> all[k]] = [k \in Nat |-> IF k = 0 THEN 0 ELSE all[k - 1] + f[k]]
    BY <1>2
  <2> QED
    BY <2>1, <2>2, Zenon
<1> HIDE DEF all
<1>4. Rec(sum)
  <2> HIDE DEF Rec
  <2> QED
    BY <1>3
<1>5. \A n : SumTo(f, n) = sum[n]
  BY DEF SumTo
<1> HIDE DEF sum
<1>6. \A k \in Nat : sum[k] = IF k = 0 THEN 0 ELSE sum[k - 1] + f[k]
  BY <1>4
<1> HIDE DEF Rec
<1>7. ASSUME NEW n \in Nat PROVE sum[n + 1] = sum[n] + f[n + 1]
  <2>1. n + 1 \in Nat /\ n + 1 # 0 /\ (n + 1) - 1 = n
    OBVIOUS
  <2> QED
    BY <1>6, <2>1
<1>8. sum[0] = 0
  BY <1>6
<1> QED
  BY <1>5, <1>7, <1>8

(* Two functions that agree up to n have one sum up to n.                   *)
LEMMA SumSame ==
  ASSUME NEW f, NEW g, NEW n \in Nat, \A k \in 1..n : f[k] = g[k]
  PROVE  SumTo(f, n) = SumTo(g, n)
<1> DEFINE S == {m \in Nat : m <= n => SumTo(f, m) = SumTo(g, m)}
<1>1. 0 \in S
  BY SumStep
<1>2. ASSUME NEW m \in Nat, m \in S PROVE m + 1 \in S
  <2> SUFFICES ASSUME m + 1 <= n PROVE SumTo(f, m + 1) = SumTo(g, m + 1)
    OBVIOUS
  <2>1. m + 1 \in 1..n /\ m <= n
    OBVIOUS
  <2>2. SumTo(f, m) = SumTo(g, m) /\ f[m + 1] = g[m + 1]
    BY <1>2, <2>1
  <2>3. SumTo(f, m + 1) = SumTo(f, m) + f[m + 1] /\ SumTo(g, m + 1) = SumTo(g, m) + g[m + 1]
    BY SumStep
  <2> QED
    BY <2>2, <2>3
<1> HIDE DEF S
<1>3. Nat \subseteq S
  BY <1>1, <1>2, Upwards
<1>4. n \in S
  BY <1>3
<1> QED
  BY <1>4 DEF S

(* A sum of numbers that are not negative is none either,                  *)
LEMMA SumNat ==
  ASSUME NEW f, NEW n \in Nat, \A k \in 1..n : f[k] \in Nat
  PROVE  SumTo(f, n) \in Nat
<1> DEFINE S == {m \in Nat : m <= n => SumTo(f, m) \in Nat}
<1>1. 0 \in S
  BY SumStep
<1>2. ASSUME NEW m \in Nat, m \in S PROVE m + 1 \in S
  <2> SUFFICES ASSUME m + 1 <= n PROVE SumTo(f, m + 1) \in Nat
    OBVIOUS
  <2>1. m + 1 \in 1..n /\ m <= n
    OBVIOUS
  <2>2. SumTo(f, m) \in Nat /\ f[m + 1] \in Nat
    BY <1>2, <2>1
  <2>3. SumTo(f, m + 1) = SumTo(f, m) + f[m + 1]
    BY SumStep
  <2> QED
    BY <2>2, <2>3
<1> HIDE DEF S
<1>3. Nat \subseteq S
  BY <1>1, <1>2, Upwards
<1>4. n \in S
  BY <1>3
<1> QED
  BY <1>4 DEF S

(* and a sum of nothing is 0.                                              *)
LEMMA SumNothing ==
  ASSUME NEW f, NEW n \in Nat, \A k \in 1..n : f[k] = 0
  PROVE  SumTo(f, n) = 0
<1> DEFINE S == {m \in Nat : m <= n => SumTo(f, m) = 0}
<1>1. 0 \in S
  BY SumStep
<1>2. ASSUME NEW m \in Nat, m \in S PROVE m + 1 \in S
  <2> SUFFICES ASSUME m + 1 <= n PROVE SumTo(f, m + 1) = 0
    OBVIOUS
  <2>1. m + 1 \in 1..n /\ m <= n
    OBVIOUS
  <2>2. SumTo(f, m) = 0 /\ f[m + 1] = 0
    BY <1>2, <2>1
  <2>3. SumTo(f, m + 1) = SumTo(f, m) + f[m + 1]
    BY SumStep
  <2> QED
    BY <2>2, <2>3
<1> HIDE DEF S
<1>3. Nat \subseteq S
  BY <1>1, <1>2, Upwards
<1>4. n \in S
  BY <1>3
<1> QED
  BY <1>4 DEF S

(* One value more. *)
LEMMA SumMore ==
  ASSUME NEW f, NEW g, NEW n \in Nat, \A k \in 1..n : f[k] = g[k]
  PROVE  SumTo(g, n + 1) = SumTo(f, n) + g[n + 1]
<1>1. SumTo(g, n + 1) = SumTo(g, n) + g[n + 1]
  BY SumStep
<1> QED
  BY <1>1, SumSame

-----------------------------------------------------------------------------
(* Tiers. *)

(* Tiers in the order of their size. *)
Ascending(tiers) == \A i, j \in DOMAIN tiers : i <= j => tiers[i].max <= tiers[j].max

(* How many tiers come before the i-th. *)
Sooner(tiers, i) ==
  {j \in DOMAIN tiers : \/ tiers[j].max < tiers[i].max
                        \/ tiers[j].max = tiers[i].max /\ j < i}
Rank(tiers, i) == Cardinality(Sooner(tiers, i))

(* What comes first has less before it, and of two tiers one comes first.   *)
LEMMA RankOrders ==
  ASSUME NEW tiers \in Seq(Tier), NEW i \in DOMAIN tiers, NEW j \in DOMAIN tiers
  PROVE  /\ Rank(tiers, i) \in 0..(Len(tiers) - 1)
         /\ j \in Sooner(tiers, i) => Rank(tiers, j) < Rank(tiers, i)
         /\ i # j => i \in Sooner(tiers, j) \/ j \in Sooner(tiers, i)
<1> DEFINE n == Len(tiers)
<1>1. /\ n \in Nat /\ DOMAIN tiers = 1..n
      /\ \A k \in DOMAIN tiers : k \in Nat /\ tiers[k].max \in Int
  <2>1. n \in Nat /\ DOMAIN tiers = 1..n /\ \A k \in DOMAIN tiers : tiers[k] \in Tier
    OBVIOUS
  <2>2. \A k \in DOMAIN tiers : tiers[k].max \in Int
    BY <2>1 DEF Tier
  <2>3. \A k \in DOMAIN tiers : k \in Nat
    BY <2>1
  <2> QED
    BY <2>1, <2>2, <2>3
<1>2. IsFiniteSet(1..n) /\ Cardinality(1..n) = n
  <2>1. 1 \in Int /\ n \in Int /\ n >= 1
    BY <1>1
  <2>2. Cardinality(1..n) = IF 1 > n THEN 0 ELSE n - 1 + 1
    BY <2>1, FS_Interval
  <2>3. Cardinality(1..n) = n
    BY <2>1, <2>2
  <2> QED
    BY <2>1, <2>3, FS_Interval
<1>3. ASSUME NEW k \in DOMAIN tiers
      PROVE  /\ Sooner(tiers, k) \subseteq (1..n) \ {k}
             /\ IsFiniteSet(Sooner(tiers, k)) /\ Rank(tiers, k) \in Nat /\ Rank(tiers, k) <= n - 1
  <2>1. k \notin Sooner(tiers, k) /\ Sooner(tiers, k) \subseteq (1..n) \ {k}
    BY <1>1 DEF Sooner
  <2>2. IsFiniteSet((1..n) \ {k}) /\ Cardinality((1..n) \ {k}) = n - 1
    <3>1. k \in 1..n
      BY <1>1
    <3> HIDE DEF n
    <3> QED
      BY <1>2, <3>1, FS_RemoveElement
  <2>3. IsFiniteSet(Sooner(tiers, k)) /\ Cardinality(Sooner(tiers, k)) <= n - 1
    BY <2>1, <2>2, FS_Subset
  <2>4. Cardinality(Sooner(tiers, k)) \in Nat
    BY <2>3, FS_CardinalityType
  <2> QED
    BY <2>1, <2>3, <2>4 DEF Rank
<1>4. ASSUME j \in Sooner(tiers, i) PROVE Rank(tiers, j) < Rank(tiers, i)
  <2>1. Sooner(tiers, j) \subseteq Sooner(tiers, i)
    BY <1>1, <1>4 DEF Sooner
  <2>2. j \notin Sooner(tiers, j)
    BY <1>3
  <2>3. IsFiniteSet(Sooner(tiers, i)) /\ Rank(tiers, i) \in Nat /\ Rank(tiers, j) \in Nat
    BY <1>3
  <2>4. Rank(tiers, j) <= Rank(tiers, i) /\ (Rank(tiers, j) = Rank(tiers, i) => Sooner(tiers, j) = Sooner(tiers, i))
    BY <2>1, <2>3, FS_Subset DEF Rank
  <2>5. Rank(tiers, j) # Rank(tiers, i)
    BY <1>4, <2>2, <2>4
  <2> QED
    BY <2>3, <2>4, <2>5
<1>5. i # j => i \in Sooner(tiers, j) \/ j \in Sooner(tiers, i)
  BY <1>1 DEF Sooner
<1>6. Rank(tiers, i) \in 0..(n - 1)
  BY <1>1, <1>3
<1> QED
  BY <1>4, <1>5, <1>6

(* So there is one tier for each place. *)
LEMMA RankIsPlace ==
  ASSUME NEW tiers \in Seq(Tier), NEW n \in DOMAIN tiers
  PROVE  \E i \in DOMAIN tiers : Rank(tiers, i) = n - 1
<1> DEFINE len == Len(tiers)
           place == [i \in 1..len |-> Rank(tiers, i)]
<1>1. len \in Nat /\ DOMAIN tiers = 1..len /\ len >= 1 /\ n - 1 \in 0..(len - 1)
  <2>1. len \in Nat /\ DOMAIN tiers = 1..len
    OBVIOUS
  <2>2. n \in 1..len
    BY <2>1
  <2> QED
    BY <2>1, <2>2
<1>2. \A i \in 1..len : Rank(tiers, i) \in 0..(len - 1)
  BY <1>1, RankOrders
<1>3. ASSUME NEW i \in 1..len, NEW j \in 1..len, Rank(tiers, i) = Rank(tiers, j) PROVE i = j
  <2>1. Rank(tiers, i) \in Int
    BY <1>2
  <2>2. ~(Rank(tiers, i) < Rank(tiers, j)) /\ ~(Rank(tiers, j) < Rank(tiers, i))
    BY <1>3, <2>1
  <2> QED
    BY <1>1, <2>2, RankOrders
<1>4. place \in [1..len -> 0..(len - 1)]
  BY <1>2
<1>5. place \in Injection(1..len, 0..(len - 1))
  <2>1. \A i, j \in 1..len : place[i] = place[j] => i = j
    BY <1>3
  <2> HIDE DEF place
  <2> QED
    BY <1>4, <2>1 DEF Injection, IsInjective
<1>6. /\ IsFiniteSet(0..(len - 1)) /\ Cardinality(0..(len - 1)) = len
      /\ Cardinality(1..len) = len
  <2>1. 0 \in Int /\ 1 \in Int /\ len \in Int /\ len - 1 \in Int
    BY <1>1
  <2>2. Cardinality(0..(len - 1)) = (IF 0 > len - 1 THEN 0 ELSE (len - 1) - 0 + 1) /\ IsFiniteSet(0..(len - 1))
    BY <2>1, FS_Interval
  <2>3. Cardinality(1..len) = IF 1 > len THEN 0 ELSE len - 1 + 1
    BY <2>1, FS_Interval
  <2>4. Cardinality(0..(len - 1)) = len
    BY <1>1, <2>2
  <2>5. Cardinality(1..len) = len
    BY <1>1, <2>3
  <2> QED
    BY <2>2, <2>4, <2>5
<1>7. place \in Surjection(1..len, 0..(len - 1))
  <2> HIDE DEF place
  <2> QED
    BY <1>5, <1>6, FS_Injection
<1>8. \E i \in 1..len : place[i] = n - 1
  <2> HIDE DEF place
  <2> QED
    BY <1>1, <1>7 DEF Surjection
<1> QED
  BY <1>1, <1>8

(* What is sorted is in the order of size, and made of the same tiers.       *)
LEMMA SortTiersAscends ==
  ASSUME NEW tiers \in Seq(Tier)
  PROVE  SortTiers(tiers) \in Seq(Tier) /\ Ascending(SortTiers(tiers))
<1> DEFINE at(n) == CHOOSE i \in DOMAIN tiers : Rank(tiers, i) = n - 1
           sorted == [n \in DOMAIN tiers |-> tiers[at(n)]]
<1>1. SortTiers(tiers) = sorted
  BY DEF SortTiers, Rank, Sooner
<1>2. /\ DOMAIN tiers = 1..Len(tiers) /\ Len(tiers) \in Nat
      /\ \A i \in DOMAIN tiers : tiers[i] \in Tier /\ tiers[i].max \in Int
  <2>1. DOMAIN tiers = 1..Len(tiers) /\ Len(tiers) \in Nat /\ \A i \in DOMAIN tiers : tiers[i] \in Tier
    OBVIOUS
  <2> QED
    BY <2>1 DEF Tier
<1>3. \A n \in DOMAIN tiers : at(n) \in DOMAIN tiers /\ Rank(tiers, at(n)) = n - 1
  BY RankIsPlace
<1> HIDE DEF at
<1>4. sorted \in [1..Len(tiers) -> Tier]
  BY <1>2, <1>3
<1>5. ASSUME NEW m \in DOMAIN tiers, NEW n \in DOMAIN tiers, m <= n
      PROVE  tiers[at(m)].max <= tiers[at(n)].max
  <2>1. m \in Int /\ n \in Int /\ ~(n - 1 < m - 1)
    BY <1>2, <1>5
  <2>2. at(n) \notin Sooner(tiers, at(m))
    BY <1>3, <2>1, RankOrders
  <2>3. ~(tiers[at(n)].max < tiers[at(m)].max)
    BY <1>3, <2>2 DEF Sooner
  <2> QED
    BY <1>2, <1>3, <2>3
<1>6. DOMAIN sorted = DOMAIN tiers /\ \A n \in DOMAIN tiers : sorted[n] = tiers[at(n)]
  OBVIOUS
<1> HIDE DEF sorted
<1>7. Ascending(sorted)
  BY <1>5, <1>6 DEF Ascending
<1>8. sorted \in Seq(Tier)
  BY <1>2, <1>4
<1> QED
  BY <1>1, <1>7, <1>8

(* Of some numbers there is a first. *)
LEMMA FirstOf ==
  ASSUME NEW S, S \subseteq Nat, S # {}
  PROVE  Min(S) \in S /\ \A y \in S : Min(S) <= y
<1> DEFINE R == OpToRel(<, Nat)
<1>1. \A y, z \in Nat : y < z => <<y, z>> \in R
  BY DEF OpToRel
<1>2. PICK x \in S : \A y \in S : ~ (<<y, x>> \in R)
  <2>1. IsWellFoundedOn(R, Nat)
    BY NatLessThanWellFounded
  <2> HIDE DEF R
  <2> QED
    BY <2>1, WFMin
<1>3. \A y \in S : x <= y
  <2> HIDE DEF R
  <2>1. \A y \in S : y \in Nat /\ x \in Nat /\ ~(y < x)
    BY <1>1, <1>2
  <2> QED
    BY <2>1
<1> QED
  BY <1>3 DEF Min

(* In that order the first tier that holds a request is the smallest.       *)
LEMMA FirstFits ==
  ASSUME NEW p \in Tariff, Ascending(p.tiers), NEW t \in Range(p.tiers)
  PROVE  SelectRates(p, t.max).max = t.max
<1> DEFINE tiers == p.tiers
           fits == {i \in DOMAIN tiers : tiers[i].max >= t.max}
           first == Min(fits)
<1>1. /\ tiers \in Seq(Tier) /\ DOMAIN tiers \subseteq Nat
      /\ \A i \in DOMAIN tiers : tiers[i].max \in Int
  <2>1. tiers \in Seq(Tier)
    BY DEF Tariff
  <2>2. DOMAIN tiers \subseteq Nat /\ \A i \in DOMAIN tiers : tiers[i] \in Tier
    BY <2>1
  <2> QED
    BY <2>1, <2>2 DEF Tier
<1>2. PICK k \in DOMAIN tiers : tiers[k] = t
  BY DEF Range
<1>3. k \in fits /\ fits \subseteq Nat
  BY <1>1, <1>2
<1>4. SelectRates(p, t.max) = tiers[first]
  <2>1. tiers # <<>>
    <3>1. DOMAIN <<>> = {}
      OBVIOUS
    <3> QED
      BY <1>2, <3>1
  <2>2. fits # {}
    BY <1>3
  <2> QED
    BY <2>1, <2>2 DEF SelectRates
<1>5. first \in fits /\ first <= k
  <2> HIDE DEF fits
  <2> QED
    BY <1>3, FirstOf
<1> HIDE DEF first
<1>6. first \in DOMAIN tiers /\ tiers[first].max >= t.max
  BY <1>5
<1>7. tiers[first].max <= t.max
  BY <1>2, <1>5, <1>6 DEF Ascending
<1> QED
  BY <1>1, <1>2, <1>4, <1>6, <1>7

-----------------------------------------------------------------------------
(* The prices. *)

(* A price that can be applied: there is one, and its tiers are in order.   *)
Offered == {p \in Tariff : p # NoPrice /\ Ascending(p.tiers)}

(* What the panel shows can be applied, and what was applied is such a price.*)
PricesKept ==
  /\ PricingTypeOK
  /\ DOMAIN capture.diffs \subseteq Nat
  /\ \A i \in DOMAIN capture.diffs : capture.diffs[i].price \in Offered
  /\ \A k \in DOMAIN overrides : overrides[k] \in Offered

(* Of some rows up to the n-th there is a last one. *)
LEMMA LastOf ==
  ASSUME NEW n \in Nat, NEW S, S \subseteq 0..n, S # {}
  PROVE  \E i \in S : \A j \in S : j <= i
<1> DEFINE T == {n - i : i \in S}
           R == OpToRel(<, Nat)
<1>1. T # {} /\ T \subseteq Nat
  <2>1. \A i \in S : i \in Nat /\ i <= n
    OBVIOUS
  <2>2. \A i \in S : n - i \in Nat
    BY <2>1
  <2> QED
    BY <2>2
<1>2. IsWellFoundedOn(R, Nat)
  BY NatLessThanWellFounded
<1>3. \A y, z \in Nat : y < z => <<y, z>> \in R
  BY DEF OpToRel
<1>4. PICK x \in T : \A y \in T : ~ (<<y, x>> \in R)
  <2> HIDE DEF R, T
  <2> QED
    BY <1>1, <1>2, WFMin
<1>5. PICK i \in S : x = n - i
  BY <1>4
<1>6. \A j \in S : j <= i
  <2> SUFFICES ASSUME NEW j \in S, ~(j <= i) PROVE FALSE
    OBVIOUS
  <2>1. i \in 0..n /\ j \in 0..n
    OBVIOUS
  <2>2. n - j < x /\ n - j \in Nat /\ x \in Nat
    BY <1>5, <2>1
  <2>3. n - j \in T
    OBVIOUS
  <2> HIDE DEF R, T
  <2> QED
    BY <1>3, <1>4, <2>2, <2>3
<1> QED
  BY <1>6

(* Rows that are written can be applied, for those shown can.              *)
LEMMA Written ==
  ASSUME PricesKept, NEW table, NEW n \in Nat, NEW written, NEW Key(_),
         \A k \in DOMAIN table : table[k] \in Offered,
         written \subseteq DOMAIN capture.diffs, written \subseteq 0..n
  PROVE  \A k \in DOMAIN Upserted(table, written, Key) : Upserted(table, written, Key)[k] \in Offered
<1> DEFINE of(k)   == {i \in written : Key(capture.diffs[i].model) = k}
           latest(k) == CHOOSE i \in of(k) : \A j \in of(k) : j <= i
           keys    == DOMAIN table \cup {Key(capture.diffs[i].model) : i \in written}
<1>1. Upserted(table, written, Key) =
        [k \in keys |-> IF of(k) = {} THEN table[k] ELSE capture.diffs[latest(k)].price]
  BY DEF Upserted
<1>2. ASSUME NEW k \in keys PROVE (IF of(k) = {} THEN table[k] ELSE capture.diffs[latest(k)].price) \in Offered
  <2>1. CASE of(k) = {}
    <3>1. k \in DOMAIN table
      BY <1>2, <2>1
    <3> QED
      BY <2>1, <3>1
  <2>2. CASE of(k) # {}
    <3>1. of(k) \subseteq 0..n /\ of(k) \subseteq written
      OBVIOUS
    <3> HIDE DEF of
    <3>2. \E i \in of(k) : \A j \in of(k) : j <= i
      BY <2>2, <3>1, LastOf
    <3>3. latest(k) \in of(k)
      BY <3>2
    <3> HIDE DEF latest
    <3>4. latest(k) \in DOMAIN capture.diffs
      BY <3>1, <3>3
    <3> QED
      BY <2>2, <3>4 DEF PricesKept
  <2> QED
    BY <2>1, <2>2
<1> HIDE DEF of, latest, keys
<1> QED
  BY <1>1, <1>2

(* No row at first,                                                        *)
LEMMA PricesBegin == PricingInit => PricesKept
<1> SUFFICES ASSUME PricingInit PROVE PricesKept
  OBVIOUS
<1>1. DOMAIN overrides = {} /\ capture.stage = "shut" /\ DOMAIN capture.diffs = {}
  BY DEF PricingInit, Shut
<1>2. own \in [Registered -> Typed \cup {NoPrice}] /\ price_ops \in 0..MaxPriceOps
  BY PricingAssumption DEF PricingInit
<1> QED
  BY <1>1, <1>2 DEF PricesKept, PricingTypeOK

(* and every step keeps the prices.                                        *)
LEMMA PricesMove == PricesKept /\ [PricingNext]_prvars => PricesKept'
<1> SUFFICES ASSUME PricesKept, [PricingNext]_prvars PROVE PricesKept'
  OBVIOUS
<1>0. /\ Shut.stage = "shut" /\ DOMAIN Shut.diffs = {} /\ MaxPriceOps \in Nat
      /\ own \in [Registered -> Typed \cup {NoPrice}]
      /\ \A p \in Offered : p # NoPrice
  BY PricingAssumption DEF Shut, PricesKept, PricingTypeOK, Offered
<1>1. CASE CaptureStarts
  <2>1. capture'.stage \in {"asked", "shut"} /\ DOMAIN capture'.diffs = {}
    BY <1>0, <1>1 DEF CaptureStarts
  <2>2. UNCHANGED <<overrides, own>> /\ price_ops' \in 0..MaxPriceOps
    BY <1>0, <1>1 DEF CaptureStarts, PricesKept, PricingTypeOK
  <2> QED
    BY <2>1, <2>2 DEF PricesKept, PricingTypeOK
<1>2. CASE CaptureFails \/ ClosePanel
  <2>1. capture' = Shut /\ UNCHANGED <<overrides, own, price_ops>>
    BY <1>2 DEF CaptureFails, ClosePanel
  <2> QED
    BY <1>0, <2>1 DEF PricesKept, PricingTypeOK
<1>3. CASE CaptureAnswers
  <2>1. PICK answer \in Answers :
          LET entries == ParseExtraction(answer) IN
          /\ ValidateExtraction(entries)
          /\ capture' = [stage |-> "shown", diffs |-> [i \in DOMAIN entries |-> DiffPricing(entries[i])]]
    BY <1>3 DEF CaptureAnswers
  <2> DEFINE entries == ParseExtraction(answer)
  <2>2. DOMAIN entries \subseteq Nat
    <3>1. answer \in Seq(Entry)
      BY PricingAssumption
    <3> QED
      BY <3>1 DEF ParseExtraction
  <2> HIDE DEF entries
  <2>3. capture'.stage = "shown" /\ DOMAIN capture'.diffs = DOMAIN entries
        /\ \A i \in DOMAIN entries : capture'.diffs[i].price = entries[i].price
    BY <2>1 DEF entries, DiffPricing
  <2>4. \A i \in DOMAIN entries : entries[i].price.input > 0
    BY <2>1 DEF entries, ValidateExtraction, InRange
  <2>5. NoPrice.input = -1 /\ ~(-1 > 0)
    BY DEF NoPrice
  <2>6. \A i \in DOMAIN entries : entries[i].price \in Offered
    <3> SUFFICES ASSUME NEW i \in DOMAIN entries PROVE entries[i].price \in Offered
      OBVIOUS
    <3> DEFINE read == answer[i].price
               sorted == SortTiers(read.tiers)
    <3>1. read \in Tariff
      <4>1. answer \in Seq(Entry) /\ i \in DOMAIN answer
        BY PricingAssumption DEF entries, ParseExtraction
      <4>2. answer[i] \in Entry
        BY <4>1
      <4> QED
        BY <4>2 DEF Entry
    <3>2. sorted \in Seq(Tier) /\ Ascending(sorted)
      BY <3>1, SortTiersAscends DEF Tariff
    <3>3. entries[i].price = [read EXCEPT !.tiers = sorted]
      <4>1. i \in DOMAIN answer /\ answer \in Seq(Entry)
        BY PricingAssumption DEF entries, ParseExtraction
      <4>2. entries[i] = [answer[i] EXCEPT !.price.tiers = SortTiers(@)]
        BY <4>1 DEF entries, ParseExtraction
      <4>3. answer[i] \in Entry
        BY <4>1
      <4> QED
        BY <4>2, <4>3 DEF Entry
    <3> HIDE DEF read, sorted
    <3>4. entries[i].price \in Tariff /\ entries[i].price.tiers = sorted
      BY <3>1, <3>2, <3>3 DEF Tariff
    <3> QED
      BY <2>4, <2>5, <3>2, <3>4 DEF Offered
  <2>7. UNCHANGED <<overrides, own, price_ops>>
    BY <1>3 DEF CaptureAnswers
  <2> QED
    BY <1>0, <2>2, <2>3, <2>6, <2>7 DEF PricesKept, PricingTypeOK
<1>4. CASE ApplyPrices
  <2>1. PICK chosen \in SUBSET {i \in DOMAIN capture.diffs : capture.diffs[i].change # "unchanged"},
             n \in 0..Len(capture.diffs) :
               LET written == {i \in chosen : i <= n}
               IN  overrides' = Upserts(written) /\ capture' = IF written = chosen THEN Shut ELSE capture
    BY <1>4 DEF ApplyPrices
  <2> DEFINE written == {i \in chosen : i <= n}
  <2>2. n \in Nat /\ written \subseteq DOMAIN capture.diffs /\ written \subseteq 0..n
    BY DEF PricesKept
  <2>3. overrides' = Upserted(overrides, written, CanonicalId)
    BY <2>1 DEF Upserts
  <2>4. capture' = Shut \/ capture' = capture
    BY <2>1
  <2> HIDE DEF written
  <2>5. \A k \in DOMAIN overrides : overrides[k] \in Offered
    BY DEF PricesKept
  <2>6. \A k \in DOMAIN overrides' : overrides'[k] \in Offered
    BY <2>2, <2>3, <2>5, Written
  <2>7. UNCHANGED <<own, price_ops>>
    BY <1>4 DEF ApplyPrices
  <2> QED
    BY <1>0, <2>4, <2>6, <2>7 DEF PricesKept, PricingTypeOK
<1>5. CASE ResetPrices
  <2>1. PICK dropped \in SUBSET Registered : own' = [m \in Registered |-> IF m \in dropped THEN NoPrice ELSE own[m]]
    BY <1>5 DEF ResetPrices
  <2>2. own' \in [Registered -> Typed \cup {NoPrice}]
    BY <1>0, <2>1
  <2>3. capture' = Shut /\ UNCHANGED price_ops /\ (overrides' = <<>> \/ UNCHANGED overrides)
    BY <1>5 DEF ResetPrices
  <2>4. \A k \in DOMAIN overrides' : overrides'[k] \in Offered
    <3>1. DOMAIN <<>> = {}
      OBVIOUS
    <3> QED
      BY <2>3, <3>1 DEF PricesKept, PricingTypeOK
  <2> QED
    BY <1>0, <2>2, <2>3, <2>4 DEF PricesKept, PricingTypeOK
<1>6. CASE TypePrice
  <2>1. PICK m \in Registered, p \in Typed \cup {NoPrice} : own' = [own EXCEPT ![m] = p]
    BY <1>6 DEF TypePrice
  <2>2. own' \in [Registered -> Typed \cup {NoPrice}] /\ price_ops' \in 0..MaxPriceOps /\ UNCHANGED <<overrides, capture>>
    BY <1>0, <1>6, <2>1 DEF TypePrice, PricesKept, PricingTypeOK
  <2> QED
    BY <2>2 DEF PricesKept, PricingTypeOK
<1>7. CASE UNCHANGED prvars
  BY <1>7 DEF prvars, PricesKept, PricingTypeOK
<1> QED
  BY <1>1, <1>2, <1>3, <1>4, <1>5, <1>6, <1>7 DEF PricingNext

-----------------------------------------------------------------------------
(* The books. *)

(* The kinds of runs, usages and reports.                                  *)
Stages   == {"idle", "look", "request", "compacted", "tool", "settle", "done"}
RunKinds == {"tools", "plan", "chat"}
Usage    == [prompt : Nat, hit : Nat, miss : Nat, out : Nat, of : Seq(Nat)]
Runs     == [stage : Stages, kind : RunKinds, usage : Usage, rounds : 0..MaxRounds,
             typed : [{"main", "subagent"} -> Typed \cup {NoPrice}]]
Spent    == [run : Nat, consumer : Consumers, kind : RunKinds]

(* Every table holds rows of its kind; a report is of a run there was.     *)
BooksTyped ==
  /\ acct \in Runs /\ streamed \in Usage /\ counter \in Nat
  /\ spent \in Seq(Spent) /\ Len(spent) <= MaxReports
  /\ rows \in Seq(Range(rows)) /\ ledger \in Seq(Nat)
  /\ bills \in Seq(Range(bills)) /\ Len(bills) <= MaxRuns
  /\ \A r \in DOMAIN bills : DOMAIN bills[r] = {"usage", "amount", "price"} /\ bills[r].usage \in Usage
  /\ acct.stage # "idle" => ThisRun > 0
  /\ \A i \in DOMAIN spent : spent[i].run \in 1..ThisRun

(* A row is for one report, that of its run and consumer; a report has one   *)
(* row at most.                                                            *)
RowsHeld ==
  /\ \A k \in DOMAIN rows : \E i \in DOMAIN spent :
       rows[k].of = <<i>> /\ rows[k].run = spent[i].run /\ rows[k].consumer = spent[i].consumer
  /\ \A k, l \in DOMAIN rows : rows[k].of = rows[l].of => k = l

(* Report i has been attributed; all but the requests that wait have been. *)
HasRow(i)    == \E k \in DOMAIN rows : rows[k].of = <<i>>
AllHaveRows  == \A i \in DOMAIN spent : Waits(i) \/ HasRow(i)

(* What the answer of run r is charged for: with tools all the run spent,   *)
(* else the one request.                                                   *)
Charged(r) == {i \in DOMAIN spent : spent[i].run = r /\ (spent[i].kind = "tools" \/ spent[i].consumer # "vision")}
Owes(u, r) == IsInjective(u.of) /\ Range(u.of) = Charged(r)

(* The run under way. *)
RunHeld ==
  acct.stage # "idle" =>
    /\ \A i \in DOMAIN spent : spent[i].run = ThisRun => spent[i].kind = acct.kind
    /\ Owes(acct.usage, ThisRun)
    /\ acct.stage = "look" => acct.usage = NoUsage /\ \A i \in DOMAIN spent : spent[i].run # ThisRun
    /\ acct.kind # "tools" => acct.stage \notin {"compacted", "tool"}
    /\ acct.stage = "settle" /\ acct.kind # "tools" =>
         /\ \A i \in Charged(ThisRun) : ~HasRow(i)
         /\ acct.usage # NoUsage =>
              \E i \in DOMAIN spent : acct.usage.of = <<i>> /\ spent[i].run = ThisRun /\ spent[i].consumer = "main"
    /\ acct.stage = "request" /\ acct.kind # "tools" => acct.usage = NoUsage
    /\ streamed = IF acct.stage = "done" THEN acct.usage ELSE NoUsage
    /\ acct.stage = "done" => \A i \in Charged(ThisRun) : HasRow(i)

(* An answer that was stored with a usage has that of its run, and rows for*)
(* all of it.                                                              *)
BillsHeld ==
  \A r \in DOMAIN bills :
    /\ IsInjective(bills[r].usage.of)
    /\ bills[r].usage # NoUsage =>
         /\ Range(bills[r].usage.of) = Charged(r) /\ \A i \in Charged(r) : HasRow(i)
         /\ r = ThisRun => acct.stage = "idle"

(* All that holds of the books.                                            *)
BooksInv == BooksTyped /\ RowsHeld /\ AllHaveRows /\ RunHeld /\ BillsHeld /\ LedgerIsVision

-----------------------------------------------------------------------------
(* Sequences that grow. *)

(* A sequence grows by one value.                                          *)
LEMMA Longer ==
  ASSUME NEW s, s \in Seq(Range(s)), NEW x
  PROVE  LET t == Append(s, x) IN
         /\ t \in Seq(Range(t)) /\ Range(t) = Range(s) \cup {x}
         /\ Len(s) \in Nat /\ DOMAIN s = 1..Len(s) /\ Len(t) = Len(s) + 1
         /\ DOMAIN t = DOMAIN s \cup {Len(s) + 1} /\ Len(s) + 1 \notin DOMAIN s
         /\ \A i \in DOMAIN s : t[i] = s[i]
         /\ t[Len(s) + 1] = x
<1> DEFINE S == Range(s) \cup {x}
           t == Append(s, x)
<1>1. s \in Seq(S)
  <2>1. Range(s) \subseteq S
    OBVIOUS
  <2> HIDE DEF S
  <2> QED
    BY <2>1
<1>2. x \in S
  OBVIOUS
<1>3. /\ t \in Seq(S) /\ Len(t) = Len(s) + 1
      /\ \A i \in 1..Len(s) : t[i] = s[i]
      /\ t[Len(s) + 1] = x
  <2> HIDE DEF S
  <2> QED
    BY <1>1, <1>2, AppendProperties
<1> HIDE DEF t
<1>4. Len(s) \in Nat /\ DOMAIN s = 1..Len(s)
  BY <1>1
<1>5. DOMAIN t = 1..(Len(s) + 1)
  BY <1>3, <1>4
<1>6. DOMAIN t = DOMAIN s \cup {Len(s) + 1} /\ Len(s) + 1 \notin DOMAIN s
  BY <1>4, <1>5
<1>7. Range(t) = Range(s) \cup {x}
  BY <1>3, <1>4, <1>6 DEF Range
<1>8. t \in Seq(Range(t))
  BY <1>3, <1>7
<1> QED
  BY <1>3, <1>4, <1>6, <1>7, <1>8 DEF t

(* A sequence of a kind is one of its own values. *)
LEMMA OfItself ==
  ASSUME NEW S, NEW s \in Seq(S)
  PROVE  s \in Seq(Range(s)) /\ Range(s) \subseteq S /\ DOMAIN s = 1..Len(s) /\ Len(s) \in Nat
<1>1. s \in [1..Len(s) -> S] /\ Len(s) \in Nat /\ DOMAIN s = 1..Len(s)
  OBVIOUS
<1>2. s \in [1..Len(s) -> Range(s)] /\ Range(s) \subseteq S
  BY <1>1 DEF Range
<1> QED
  BY <1>1, <1>2

-----------------------------------------------------------------------------
(* Usages. *)

(* A usage that is missing has no reports.                                 *)
LEMMA NoUsageIs == NoUsage \in Usage /\ NoUsage.of = <<>> /\ Range(NoUsage.of) = {} /\ IsInjective(NoUsage.of)
<1>1. <<>> \in Seq(Nat) /\ DOMAIN <<>> = {}
  OBVIOUS
<1>2. Range(<<>>) = {} /\ IsInjective(<<>>)
  BY <1>1 DEF Range, IsInjective
<1> QED
  BY <1>1, <1>2 DEF NoUsage, Usage

(* A usage that a response reports has one report, the next.               *)
LEMMA UsagesAre ==
  ASSUME BooksTyped, NEW u \in Usages
  PROVE  /\ u \in Usage
         /\ u # NoUsage => u.of = <<Len(spent) + 1>> /\ Len(spent) + 1 <= MaxReports
<1>1. Len(spent) \in Nat /\ MaxReports \in Nat
  BY AccountsAssumption DEF BooksTyped
<1>2. ASSUME NEW r \in Reports
      PROVE  Reported(r) \in Usage /\ Reported(r).of = <<Len(spent) + 1>>
  <2>1. <<Len(spent) + 1>> \in Seq(Nat)
    BY <1>1
  <2>2. r \in [prompt : Nat, hit : Nat, miss : Nat, out : Nat]
    BY AccountsAssumption
  <2> QED
    BY <2>1, <2>2 DEF Reported, Usage
<1>3. CASE u = NoUsage
  BY <1>3, NoUsageIs
<1>4. CASE u # NoUsage
  <2>1. Len(spent) < MaxReports /\ \E r \in Reports : u = Reported(r)
    BY <1>4 DEF Usages
  <2> QED
    BY <1>1, <1>2, <2>1
<1> QED
  BY <1>3, <1>4

(* Reports that were merged, and one more. *)
LEMMA OneMore ==
  ASSUME NEW a \in Seq(Nat), IsInjective(a), NEW n \in Nat, n \notin Range(a), NEW b, b = a \o <<n>>
  PROVE  b \in Seq(Nat) /\ IsInjective(b) /\ Range(b) = Range(a) \cup {n}
<1>1. b = Append(a, n) /\ b \in Seq(Nat)
  OBVIOUS
<1>2. /\ Len(b) = Len(a) + 1 /\ b[Len(a) + 1] = n
      /\ \A i \in 1..Len(a) : b[i] = a[i]
  BY <1>1, AppendProperties
<1>3. /\ DOMAIN b = DOMAIN a \cup {Len(a) + 1} /\ Len(a) + 1 \notin DOMAIN a
      /\ \A i \in DOMAIN a : b[i] = a[i]
      /\ b[Len(a) + 1] = n /\ Range(b) = Range(a) \cup {n}
  <2>1. Len(a) \in Nat /\ DOMAIN a = 1..Len(a) /\ DOMAIN b = 1..Len(b)
    BY <1>1
  <2>2. DOMAIN b = DOMAIN a \cup {Len(a) + 1} /\ Len(a) + 1 \notin DOMAIN a
    BY <1>2, <2>1
  <2>3. \A i \in DOMAIN a : b[i] = a[i]
    BY <1>2, <2>1
  <2>4. Range(b) = Range(a) \cup {n}
    <3> DEFINE l == Len(a) + 1
    <3>1. DOMAIN b = DOMAIN a \cup {l} /\ b[l] = n
      BY <1>2, <2>2
    <3> HIDE DEF l
    <3> QED
      BY ONLY <3>1, <2>3, Zenon DEF Range
  <2> QED
    BY <1>2, <2>2, <2>3, <2>4
<1>4. \A i \in DOMAIN a : a[i] # n
  BY DEF Range
<1>5. IsInjective(b)
  BY <1>3, <1>4 DEF IsInjective
<1> QED
  BY <1>1, <1>3, <1>5

(* Usages that are merged.                                                 *)
LEMMA Merged ==
  ASSUME NEW a \in Usage, NEW b \in Usage
  PROVE  MergeUsage(a, b) \in Usage /\ MergeUsage(a, b).of = a.of \o b.of /\ (b.of = <<>> => MergeUsage(a, b).of = a.of)
<1>1. a.of \in Seq(Nat) /\ b.of \in Seq(Nat)
  BY DEF Usage
<1>2. a.of \o b.of \in Seq(Nat) /\ a.of \o <<>> = a.of
  BY <1>1
<1>3. /\ a.prompt + b.prompt \in Nat /\ a.hit + b.hit \in Nat
      /\ a.miss + b.miss \in Nat /\ a.out + b.out \in Nat
  BY DEF Usage
<1> QED
  BY <1>2, <1>3 DEF MergeUsage, Usage

-----------------------------------------------------------------------------
(* A response is noted, with or without a report in it. *)

(* The next report, and what a response adds.                              *)
Next1 == Len(spent) + 1
New(u) == IF u = NoUsage THEN {} ELSE {Next1}

(* A response notes the next report, or nothing.                           *)
LEMMA Spending ==
  ASSUME BooksTyped, NEW u \in Usages, NEW c \in Consumers, Spends(u, c), acct.stage # "idle"
  PROVE  /\ spent' \in Seq(Spent) /\ Len(spent') <= MaxReports
         /\ Next1 \in Nat /\ Next1 \notin DOMAIN spent /\ (\A i \in DOMAIN spent : i < Next1)
         /\ DOMAIN spent' = DOMAIN spent \cup New(u)
         /\ \A i \in DOMAIN spent : spent'[i] = spent[i]
         /\ \A i \in New(u) : spent'[i].run = ThisRun /\ spent'[i].kind = acct.kind /\ spent'[i].consumer = c
         /\ \A i \in DOMAIN spent' : spent'[i].run \in 1..ThisRun
         /\ u # NoUsage => u.of = <<Next1>>
<1> DEFINE new == [run |-> ThisRun, consumer |-> c, kind |-> acct.kind]
<1>1. /\ spent \in Seq(Spent) /\ Len(spent) \in Nat /\ DOMAIN spent = 1..Len(spent) /\ ThisRun \in Nat /\ ThisRun > 0
      /\ acct.kind \in RunKinds /\ \A i \in DOMAIN spent : spent[i].run \in 1..ThisRun
  BY DEF BooksTyped, ThisRun, Runs
<1>2. new \in Spent
  BY <1>1 DEF Spent
<1>3. Next1 \in Nat /\ Next1 \notin DOMAIN spent /\ \A i \in DOMAIN spent : i < Next1
  BY <1>1 DEF Next1
<1>4. CASE u = NoUsage
  <2>1. spent' = spent /\ New(u) = {}
    BY <1>4 DEF Spends, New
  <2>2. Len(spent) <= MaxReports
    BY DEF BooksTyped
  <2> QED
    BY <1>1, <1>3, <1>4, <2>1, <2>2
<1>5. CASE u # NoUsage
  <2>1. spent' = Append(spent, new) /\ New(u) = {Next1} /\ u.of = <<Next1>> /\ Len(spent) + 1 <= MaxReports
    BY <1>5, UsagesAre DEF Spends, New, Next1
  <2> HIDE DEF new
  <2>2. /\ spent' \in Seq(Spent) /\ Len(spent') = Len(spent) + 1
        /\ \A i \in 1..Len(spent) : spent'[i] = spent[i]
        /\ spent'[Len(spent) + 1] = new
    BY <1>1, <1>2, <2>1, AppendProperties
  <2>3. DOMAIN spent' = 1..(Len(spent) + 1)
    BY <2>2
  <2>4. DOMAIN spent' = DOMAIN spent \cup {Next1}
    BY <1>1, <2>3 DEF Next1
  <2>5. \A i \in DOMAIN spent : spent'[i] = spent[i]
    BY <1>1, <2>2
  <2>6. \A i \in New(u) : spent'[i] = new
    BY <2>1, <2>2 DEF Next1
  <2>7. new.run = ThisRun /\ new.kind = acct.kind /\ new.consumer = c
    BY DEF new
  <2>8. \A i \in DOMAIN spent' : spent'[i].run \in 1..ThisRun
    BY <1>1, <2>1, <2>4, <2>5, <2>6, <2>7
  <2> QED
    BY <1>3, <2>1, <2>2, <2>4, <2>5, <2>6, <2>7, <2>8
<1> QED
  BY <1>4, <1>5

(* What a response adds to the charge of a run.                            *)
LEMMA ChargedNow ==
  ASSUME BooksTyped, NEW u \in Usages, NEW c \in Consumers, Spends(u, c), acct.stage # "idle"
  PROVE  \A r : Charged(r)' = Charged(r) \cup
           (IF r = ThisRun /\ (acct.kind = "tools" \/ c # "vision") THEN New(u) ELSE {})
<1> SUFFICES ASSUME NEW r
             PROVE  Charged(r)' = Charged(r) \cup
                      (IF r = ThisRun /\ (acct.kind = "tools" \/ c # "vision") THEN New(u) ELSE {})
  OBVIOUS
<1>1. Charged(r)' = {i \in DOMAIN spent' : spent'[i].run = r /\ (spent'[i].kind = "tools" \/ spent'[i].consumer # "vision")}
  BY DEF Charged
<1>2. /\ DOMAIN spent' = DOMAIN spent \cup New(u)
      /\ \A i \in DOMAIN spent : spent'[i] = spent[i]
      /\ \A i \in New(u) : spent'[i].run = ThisRun /\ spent'[i].kind = acct.kind /\ spent'[i].consumer = c
  BY Spending
<1>3. New(u) \cap DOMAIN spent = {}
  BY Spending DEF New
<1> HIDE DEF New
<1> QED
  BY <1>1, <1>2, <1>3 DEF Charged

(* What it says is written to the table, or there is nothing to write. *)
LEMMA Attributing ==
  ASSUME BooksInv, NEW u \in Usages, NEW c \in Consumers, Spends(u, c), acct.stage # "idle",
         RecordAttribution(u, c), c = "main" => acct.kind = "tools"
  PROVE  /\ rows' \in Seq(Range(rows')) /\ RowsHeld' /\ AllHaveRows'
         /\ \A i : HasRow(i) => HasRow(i)'
         /\ \A i \in New(u) : HasRow(i)'
<1>1. /\ BooksTyped /\ RowsHeld /\ AllHaveRows /\ rows \in Seq(Range(rows))
  BY DEF BooksInv, BooksTyped
<1>2. /\ Next1 \notin DOMAIN spent /\ Next1 \in Nat
      /\ DOMAIN spent' = DOMAIN spent \cup New(u)
      /\ \A i \in DOMAIN spent : spent'[i] = spent[i]
      /\ \A i \in New(u) : spent'[i].run = ThisRun /\ spent'[i].kind = acct.kind /\ spent'[i].consumer = c
      /\ u # NoUsage => u.of = <<Next1>>
  BY <1>1, Spending
<1>3. CASE u = NoUsage
  <2>1. rows' = rows /\ New(u) = {}
    BY <1>3 DEF RecordAttribution, New
  <2>2. DOMAIN spent' = DOMAIN spent
    BY <1>2, <2>1
  <2>3. RowsHeld'
    BY <1>1, <1>2, <2>1, <2>2 DEF RowsHeld
  <2>4. AllHaveRows'
    BY <1>1, <1>2, <2>1, <2>2 DEF AllHaveRows, HasRow, Waits
  <2> QED
    BY <1>1, <2>1, <2>3, <2>4 DEF HasRow
<1>4. CASE u # NoUsage
  <2> DEFINE row == Row(u, c)
             m == Len(rows) + 1
  <2>1. rows' = Append(rows, row) /\ New(u) = {Next1} /\ u.of = <<Next1>>
    BY <1>2, <1>4 DEF RecordAttribution, New
  <2>2. row.run = ThisRun /\ row.consumer = c /\ row.of = <<Next1>>
    BY <2>1 DEF Row
  <2> HIDE DEF row
  <2>3. /\ rows' \in Seq(Range(rows'))
        /\ DOMAIN rows' = DOMAIN rows \cup {m} /\ m \notin DOMAIN rows
        /\ \A k \in DOMAIN rows : rows'[k] = rows[k]
        /\ rows'[m] = row
    <3>1. LET t == Append(rows, row) IN
          /\ t \in Seq(Range(t))
          /\ DOMAIN t = DOMAIN rows \cup {m} /\ m \notin DOMAIN rows
          /\ \A k \in DOMAIN rows : t[k] = rows[k]
          /\ t[m] = row
      BY <1>1, Longer
    <3> QED
      BY <2>1, <3>1
  <2> HIDE DEF m
  <2>4. \A k \in DOMAIN rows : \E i \in DOMAIN spent :
          rows[k].of = <<i>> /\ rows[k].run = spent[i].run /\ rows[k].consumer = spent[i].consumer
    BY <1>1 DEF RowsHeld
  <2>5. \A i, j : <<i>> = <<j>> => i = j
    OBVIOUS
  <2>6. \A k \in DOMAIN rows : rows[k].of # <<Next1>>
    BY <1>2, <2>4, <2>5
  <2>7. RowsHeld'
    <3>1. ASSUME NEW k \in DOMAIN rows'
          PROVE  \E i \in DOMAIN spent' :
                   rows'[k].of = <<i>> /\ rows'[k].run = spent'[i].run /\ rows'[k].consumer = spent'[i].consumer
      <4>1. CASE k = m
        <5>1. Next1 \in DOMAIN spent' /\ spent'[Next1].run = ThisRun /\ spent'[Next1].consumer = c
          BY <1>2, <2>1
        <5> QED
          BY <2>2, <2>3, <4>1, <5>1
      <4>2. CASE k # m
        <5>1. k \in DOMAIN rows /\ rows'[k] = rows[k]
          BY <2>3, <3>1, <4>2
        <5>2. PICK i \in DOMAIN spent :
                rows[k].of = <<i>> /\ rows[k].run = spent[i].run /\ rows[k].consumer = spent[i].consumer
          BY <2>4, <5>1
        <5>3. i \in DOMAIN spent' /\ spent'[i] = spent[i]
          BY <1>2
        <5> QED
          BY <5>1, <5>2, <5>3
      <4> QED
        BY <4>1, <4>2
    <3>2. \A k, l \in DOMAIN rows' : rows'[k].of = rows'[l].of => k = l
      BY <1>1, <2>2, <2>3, <2>6 DEF RowsHeld
    <3> QED
      BY <3>1, <3>2 DEF RowsHeld
  <2>8. \A i : HasRow(i) => HasRow(i)'
    BY <2>3 DEF HasRow
  <2>9. \A i : i = Next1 => HasRow(i)'
    BY <2>2, <2>3 DEF HasRow
  <2>10. AllHaveRows'
    <3> SUFFICES ASSUME NEW i \in DOMAIN spent' PROVE Waits(i)' \/ HasRow(i)'
      BY DEF AllHaveRows
    <3>1. CASE i \in DOMAIN spent
      <4>1. spent'[i] = spent[i] /\ (Waits(i) \/ HasRow(i))
        BY <1>1, <1>2, <3>1 DEF AllHaveRows
      <4> QED
        BY <2>8, <4>1 DEF Waits
    <3>2. CASE i = Next1
      BY <2>9, <3>2
    <3> QED
      BY <1>2, <2>1, <3>1, <3>2
  <2> QED
    BY <2>1, <2>3, <2>7, <2>8, <2>9, <2>10
<1> QED
  BY <1>3, <1>4

(* The vision model's reports go to the ledger too. *)
LEMMA Ledgering ==
  ASSUME BooksInv, NEW u \in Usages, NEW c \in Consumers, Spends(u, c), acct.stage # "idle",
         c = "vision" => LedgerEntry(u), c # "vision" => ledger' = ledger
  PROVE  ledger' \in Seq(Nat) /\ LedgerIsVision'
<1> DEFINE vision == {i \in DOMAIN spent : spent[i].consumer = "vision"}
<1>1. /\ BooksTyped /\ ledger \in Seq(Nat) /\ Range(ledger) = vision
      /\ \A k, l \in DOMAIN ledger : k < l => ledger[k] < ledger[l]
  BY DEF BooksInv, BooksTyped, LedgerIsVision
<1>2. /\ Next1 \notin DOMAIN spent /\ Next1 \in Nat /\ (\A i \in DOMAIN spent : i < Next1)
      /\ DOMAIN spent' = DOMAIN spent \cup New(u)
      /\ \A i \in DOMAIN spent : spent'[i] = spent[i]
      /\ \A i \in New(u) : spent'[i].run = ThisRun /\ spent'[i].kind = acct.kind /\ spent'[i].consumer = c
      /\ u # NoUsage => u.of = <<Next1>>
  BY <1>1, Spending
<1>3. New(u) \cap DOMAIN spent = {}
  BY <1>2 DEF New
<1>4. {i \in DOMAIN spent' : spent'[i].consumer = "vision"} = vision \cup (IF c = "vision" THEN New(u) ELSE {})
  <2> HIDE DEF New
  <2> QED
    BY <1>2, <1>3
<1>5. CASE c # "vision" \/ u = NoUsage
  <2>1. ledger' = ledger
    BY <1>5 DEF LedgerEntry
  <2>2. {i \in DOMAIN spent' : spent'[i].consumer = "vision"} = vision
    BY <1>4, <1>5 DEF New
  <2> QED
    BY <1>1, <2>1, <2>2 DEF LedgerIsVision
<1>6. CASE c = "vision" /\ u # NoUsage
  <2> DEFINE m == Len(ledger) + 1
  <2>1. ledger' = Append(ledger, Next1) /\ New(u) = {Next1}
    BY <1>2, <1>6 DEF LedgerEntry, New
  <2>2. ledger \in Seq(Range(ledger))
    BY <1>1, OfItself
  <2>3. LET t == Append(ledger, Next1) IN
        /\ Range(t) = Range(ledger) \cup {Next1}
        /\ Len(ledger) \in Nat /\ DOMAIN ledger = 1..Len(ledger)
        /\ DOMAIN t = DOMAIN ledger \cup {m}
        /\ \A k \in DOMAIN ledger : t[k] = ledger[k]
        /\ t[m] = Next1
    BY <2>2, Longer
  <2>4. ledger' \in Seq(Nat)
    BY <1>1, <1>2, <2>1
  <2>5. \A k \in DOMAIN ledger : ledger[k] < Next1 /\ k < m
    <3>1. \A k \in DOMAIN ledger : ledger[k] \in DOMAIN spent
      BY <1>1 DEF Range
    <3>2. \A k \in DOMAIN ledger : k < m
      BY <2>3
    <3> QED
      BY <1>2, <3>1, <3>2
  <2>6. Range(ledger') = {i \in DOMAIN spent' : spent'[i].consumer = "vision"}
    BY <1>1, <1>4, <1>6, <2>1, <2>3
  <2>7. \A k, l \in DOMAIN ledger' : k < l => ledger'[k] < ledger'[l]
    <3> SUFFICES ASSUME NEW k \in DOMAIN ledger', NEW l \in DOMAIN ledger', k < l
                 PROVE  ledger'[k] < ledger'[l]
      OBVIOUS
    <3>1. DOMAIN ledger' = DOMAIN ledger \cup {m} /\ m \in Nat
      <4> HIDE DEF m
      <4>1. DOMAIN ledger' = DOMAIN ledger \cup {m}
        BY <2>1, <2>3
      <4>2. m \in Nat
        BY <2>3 DEF m
      <4> QED
        BY <4>1, <4>2
    <3>2. k \in DOMAIN ledger
      BY <2>3, <2>5, <3>1
    <3>3. ledger'[k] = ledger[k]
      BY <2>1, <2>3, <3>2
    <3>4. CASE l = m
      <4>1. ledger'[l] = Next1
        BY <2>1, <2>3, <3>4
      <4> QED
        BY <2>5, <3>2, <3>3, <4>1
    <3>5. CASE l # m
      <4>1. l \in DOMAIN ledger /\ ledger'[l] = ledger[l]
        BY <2>1, <2>3, <3>1, <3>5
      <4> QED
        BY <1>1, <3>2, <3>3, <4>1
    <3> QED
      BY <3>4, <3>5
  <2> QED
    BY <2>4, <2>6, <2>7 DEF LedgerIsVision
<1> QED
  BY <1>5, <1>6

(* The bills of the runs before are of what those runs spent. *)
LEMMA BillsStand ==
  ASSUME BooksInv, NEW u \in Usages, NEW c \in Consumers, Spends(u, c), acct.stage # "idle",
         bills' = bills, \A i : HasRow(i) => HasRow(i)'
  PROVE  BillsHeld' /\ ThisRun' = ThisRun
<1>1. BooksTyped /\ BillsHeld
  BY DEF BooksInv
<1>2. \A r : r # ThisRun => Charged(r)' = Charged(r)
  BY <1>1, ChargedNow
<1>3. ThisRun' = ThisRun
  BY DEF ThisRun
<1>4. ASSUME NEW r \in DOMAIN bills', bills'[r].usage # NoUsage
      PROVE  /\ Range(bills'[r].usage.of) = Charged(r)'
             /\ \A i \in Charged(r)' : HasRow(i)'
             /\ r # ThisRun
  <2>1. r \in DOMAIN bills /\ bills[r].usage # NoUsage
    BY <1>4
  <2>2. Range(bills[r].usage.of) = Charged(r) /\ (\A i \in Charged(r) : HasRow(i)) /\ r # ThisRun
    BY <1>1, <2>1 DEF BillsHeld
  <2> QED
    BY <1>2, <2>2
<1>5. \A r \in DOMAIN bills' : IsInjective(bills'[r].usage.of)
  BY <1>1 DEF BillsHeld
<1> QED
  BY <1>3, <1>4, <1>5 DEF BillsHeld

(* The usage of the run grows by what is spent. *)
LEMMA OwesMore ==
  ASSUME BooksInv, NEW u \in Usages, NEW c \in Consumers, Spends(u, c), acct.stage # "idle",
         acct.kind = "tools" \/ c # "vision", bills' = bills,
         NEW w \in Usage, w.of = acct.usage.of \o u.of
  PROVE  IsInjective(w.of) /\ \A r : r = ThisRun => Range(w.of) = Charged(r)'
<1>1. /\ BooksTyped /\ acct.usage.of \in Seq(Nat)
      /\ IsInjective(acct.usage.of) /\ Range(acct.usage.of) = Charged(ThisRun)
  BY DEF BooksInv, BooksTyped, RunHeld, Owes, Runs, Usage
<1>2. /\ Next1 \notin DOMAIN spent /\ Next1 \in Nat
      /\ u # NoUsage => u.of = <<Next1>>
  BY <1>1, Spending
<1>3. \A r : r = ThisRun => Charged(r)' = Charged(r) \cup New(u)
  BY <1>1, ChargedNow
<1>4. CASE u = NoUsage
  <2>1. w.of = acct.usage.of /\ New(u) = {}
    BY <1>1, <1>4, NoUsageIs DEF New
  <2> QED
    BY <1>1, <1>3, <2>1
<1>5. CASE u # NoUsage
  <2>1. w.of = acct.usage.of \o <<Next1>> /\ New(u) = {Next1}
    BY <1>2, <1>5 DEF New
  <2>2. Next1 \notin Range(acct.usage.of)
    BY <1>1, <1>2 DEF Charged
  <2>3. IsInjective(w.of) /\ Range(w.of) = Range(acct.usage.of) \cup {Next1}
    BY <1>1, <1>2, <2>1, <2>2, OneMore
  <2> QED
    BY <1>1, <1>3, <2>1, <2>3
<1> QED
  BY <1>4, <1>5

(* What stays of the types when a response is noted. *)
LEMMA Noted ==
  ASSUME BooksInv, NEW u \in Usages, NEW c \in Consumers, Spends(u, c), acct.stage # "idle",
         acct' \in Runs, rows' \in Seq(Range(rows')), ledger' \in Seq(Nat),
         UNCHANGED <<streamed, bills, counter>>
  PROVE  BooksTyped'
<1>1. BooksTyped /\ ThisRun' = ThisRun /\ ThisRun > 0
  BY DEF BooksInv, BooksTyped, ThisRun
<1>2. /\ spent' \in Seq(Spent) /\ Len(spent') <= MaxReports
      /\ \A i \in DOMAIN spent' : spent'[i].run \in 1..ThisRun
  BY <1>1, Spending
<1>3. /\ streamed' \in Usage /\ counter' \in Nat
      /\ bills' \in Seq(Range(bills')) /\ Len(bills') <= MaxRuns
      /\ \A r \in DOMAIN bills' : DOMAIN bills'[r] = {"usage", "amount", "price"} /\ bills'[r].usage \in Usage
  BY <1>1 DEF BooksTyped
<1> QED
  BY <1>1, <1>2, <1>3 DEF BooksTyped

(* A response of a run with tools. *)
LEMMA Responds ==
  ASSUME BooksInv, NEW u \in Usages, NEW c \in Consumers, Spends(u, c), RecordAttribution(u, c),
         c = "vision" => LedgerEntry(u), c # "vision" => ledger' = ledger,
         UNCHANGED <<streamed, bills, counter>>,
         acct.kind = "tools", acct.stage \in {"look", "request", "compacted", "tool"},
         acct' \in Runs, acct'.kind = "tools", acct'.stage \in {"request", "compacted", "tool", "settle"},
         acct'.usage.of = acct.usage.of \o u.of
  PROVE  BooksInv'
<1>1. acct.stage # "idle" /\ acct.stage # "done" /\ acct'.stage # "idle" /\ acct'.stage # "done" /\ acct'.stage # "look"
  OBVIOUS
<1>2. /\ rows' \in Seq(Range(rows')) /\ RowsHeld' /\ AllHaveRows'
      /\ \A i : HasRow(i) => HasRow(i)'
  BY <1>1, Attributing
<1>3. ledger' \in Seq(Nat) /\ LedgerIsVision'
  BY <1>1, Ledgering
<1>4. BooksTyped'
  BY <1>1, <1>2, <1>3, Noted
<1>5. BillsHeld' /\ ThisRun' = ThisRun
  BY <1>1, <1>2, BillsStand
<1>6. acct'.usage \in Usage
  BY DEF Runs
<1>7. Owes(acct.usage, ThisRun)'
  BY <1>1, <1>5, <1>6, OwesMore DEF Owes
<1>8. \A i \in DOMAIN spent' : spent'[i].run = ThisRun => spent'[i].kind = "tools"
  <2>1. /\ DOMAIN spent' = DOMAIN spent \cup New(u)
        /\ \A i \in DOMAIN spent : spent'[i] = spent[i]
        /\ \A i \in New(u) : spent'[i].kind = acct.kind
    BY <1>1, Spending DEF BooksInv
  <2>2. \A i \in DOMAIN spent : spent[i].run = ThisRun => spent[i].kind = acct.kind
    BY <1>1 DEF BooksInv, RunHeld
  <2> QED
    BY <2>1, <2>2
<1>9. streamed' = NoUsage
  BY <1>1 DEF BooksInv, RunHeld
<1>10. RunHeld'
  BY <1>1, <1>5, <1>7, <1>8, <1>9 DEF RunHeld
<1> QED
  BY <1>2, <1>3, <1>4, <1>5, <1>10 DEF BooksInv

(* The first look of a plan or a chat is paid for, and no part of its answer. *)
LEMMA LooksFirst ==
  ASSUME BooksInv, NEW u \in Usages, Spends(u, "vision"), RecordAttribution(u, "vision"), LedgerEntry(u),
         UNCHANGED <<streamed, bills, counter>>,
         acct.kind # "tools", acct.stage = "look",
         acct' \in Runs, acct'.kind = acct.kind, acct'.stage = "request", acct'.usage = NoUsage
  PROVE  BooksInv'
<1>1. acct.stage # "idle" /\ "vision" \in Consumers
  BY DEF Consumers
<1>2. /\ rows' \in Seq(Range(rows')) /\ RowsHeld' /\ AllHaveRows'
      /\ \A i : HasRow(i) => HasRow(i)'
  BY <1>1, Attributing
<1>3. ledger' \in Seq(Nat) /\ LedgerIsVision'
  BY <1>1, Ledgering
<1>4. BooksTyped'
  BY <1>1, <1>2, <1>3, Noted
<1>5. BillsHeld' /\ ThisRun' = ThisRun
  BY <1>1, <1>2, BillsStand
<1>6. \A r : r = ThisRun => Charged(r)' = Charged(r)
  BY <1>1, ChargedNow DEF BooksInv
<1>7. Charged(ThisRun) = {}
  BY <1>1, NoUsageIs DEF BooksInv, RunHeld, Owes
<1>8. Owes(acct.usage, ThisRun)'
  BY <1>5, <1>6, <1>7, NoUsageIs DEF Owes
<1>9. \A i \in DOMAIN spent' : spent'[i].run = ThisRun => spent'[i].kind = acct.kind
  <2>1. /\ DOMAIN spent' = DOMAIN spent \cup New(u)
        /\ \A i \in DOMAIN spent : spent'[i] = spent[i]
        /\ \A i \in New(u) : spent'[i].kind = acct.kind
    BY <1>1, Spending DEF BooksInv
  <2>2. \A i \in DOMAIN spent : spent[i].run = ThisRun => spent[i].kind = acct.kind
    BY <1>1 DEF BooksInv, RunHeld
  <2> QED
    BY <2>1, <2>2
<1>10. streamed' = NoUsage
  BY <1>1 DEF BooksInv, RunHeld
<1>11. RunHeld'
  BY <1>5, <1>8, <1>9, <1>10 DEF RunHeld
<1> QED
  BY <1>2, <1>3, <1>4, <1>5, <1>11 DEF BooksInv

(* The one request of a plan or a chat waits to be attributed. *)
LEMMA OneRequest ==
  ASSUME BooksInv, NEW u \in Usages, Spends(u, "main"),
         UNCHANGED <<rows, ledger, streamed, bills, counter>>,
         acct.kind # "tools", acct.stage = "request",
         acct' \in Runs, acct'.kind = acct.kind, acct'.stage = "settle", acct'.usage = u
  PROVE  BooksInv'
<1>1. acct.stage # "idle" /\ "main" \in Consumers /\ BooksTyped /\ RowsHeld /\ AllHaveRows
  BY DEF Consumers, BooksInv
<1>2. /\ Next1 \notin DOMAIN spent /\ Next1 \in Nat
      /\ DOMAIN spent' = DOMAIN spent \cup New(u)
      /\ \A i \in DOMAIN spent : spent'[i] = spent[i]
      /\ \A i \in New(u) : spent'[i].run = ThisRun /\ spent'[i].kind = acct.kind /\ spent'[i].consumer = "main"
      /\ u # NoUsage => u.of = <<Next1>>
  BY <1>1, Spending
<1>3. \A i : HasRow(i)' <=> HasRow(i)
  BY DEF HasRow
<1>4. RowsHeld'
  BY <1>1, <1>2 DEF RowsHeld
<1>5. AllHaveRows'
  <2> SUFFICES ASSUME NEW i \in DOMAIN spent' PROVE Waits(i)' \/ HasRow(i)'
    BY DEF AllHaveRows
  <2>1. CASE i \in DOMAIN spent
    BY <1>1, <1>2, <1>3, <2>1 DEF AllHaveRows, Waits
  <2>2. CASE i \in New(u)
    BY <1>2, <2>2 DEF Waits
  <2> QED
    BY <1>2, <2>1, <2>2
<1>6. ledger' \in Seq(Nat) /\ LedgerIsVision'
  BY <1>1, Ledgering
<1>7. BooksTyped'
  BY <1>1, <1>6, Noted DEF BooksTyped
<1>8. BillsHeld' /\ ThisRun' = ThisRun
  BY <1>1, <1>3, BillsStand
<1>9. /\ acct.usage = NoUsage /\ streamed = NoUsage
      /\ Charged(ThisRun) = {}
      /\ \A i \in DOMAIN spent : spent[i].run = ThisRun => spent[i].kind = acct.kind
  BY <1>1, NoUsageIs DEF BooksInv, RunHeld, Owes
<1>10. \A r : r = ThisRun => Charged(r)' = New(u)
  <2>1. \A r : r = ThisRun => Charged(r)' = Charged(r) \cup New(u)
    BY <1>1, ChargedNow
  <2> QED
    BY <1>9, <2>1
<1>11. Owes(acct.usage, ThisRun)'
  <2>1. u \in Usage /\ u.of \in Seq(Nat) /\ u.of = acct.usage.of \o u.of
    <3>1. u \in Usage
      BY <1>1, UsagesAre
    <3>2. u.of \in Seq(Nat)
      BY <3>1 DEF Usage
    <3> QED
      BY <1>9, <3>1, <3>2, NoUsageIs
  <2>2. IsInjective(u.of) /\ \A r : r = ThisRun => Range(u.of) = Charged(r)'
    BY <1>1, <2>1, OwesMore
  <2> QED
    BY <1>8, <2>2 DEF Owes
<1>12. \A i \in DOMAIN spent' : spent'[i].run = ThisRun => spent'[i].kind = acct.kind
  BY <1>2, <1>9
<1>13. \A i \in New(u) : ~HasRow(i)'
  <2>1. \A k \in DOMAIN rows : \E i \in DOMAIN spent : rows[k].of = <<i>>
    BY <1>1 DEF RowsHeld
  <2>2. \A i, j : <<i>> = <<j>> => i = j
    OBVIOUS
  <2>3. \A i : HasRow(i) => i \in DOMAIN spent
    BY <2>1, <2>2 DEF HasRow
  <2>4. \A i \in New(u) : i \notin DOMAIN spent
    BY <1>2 DEF New
  <2> QED
    BY <1>3, <2>3, <2>4
<1>14. u # NoUsage => Next1 \in DOMAIN spent' /\ u.of = <<Next1>> /\ spent'[Next1].run = ThisRun /\ spent'[Next1].consumer = "main"
  BY <1>2 DEF New
<1>15. RunHeld'
  BY <1>8, <1>9, <1>10, <1>11, <1>12, <1>13, <1>14 DEF RunHeld
<1> QED
  BY <1>4, <1>5, <1>6, <1>7, <1>8, <1>15 DEF BooksInv

(* Steps of the run that spend nothing. *)
LEMMA Quiet ==
  ASSUME UNCHANGED <<spent, rows>>
  PROVE  /\ \A i : (HasRow(i)' <=> HasRow(i)) /\ (Waits(i)' <=> Waits(i))
         /\ \A r : Charged(r)' = Charged(r)
         /\ (RowsHeld => RowsHeld') /\ (AllHaveRows => AllHaveRows')
<1>1. \A i : (HasRow(i)' <=> HasRow(i)) /\ (Waits(i)' <=> Waits(i))
  BY DEF HasRow, Waits
<1>2. \A r : Charged(r)' = Charged(r)
  BY DEF Charged
<1> QED
  BY <1>1, <1>2 DEF RowsHeld, AllHaveRows

(* A run starts.                                                           *)
LEMMA Starts ==
  ASSUME BooksInv, PricesKept, StartRun
  PROVE  BooksInv'
<1> DEFINE bill == [usage |-> NoUsage, amount |-> -1, price |-> NoPrice]
<1>1. PICK kind \in RunKinds, stage \in {"look", "request"} :
        acct' = [NoRun EXCEPT !.stage = stage, !.kind = kind,
                   !.typed = [c \in {"main", "subagent"} |-> own[RoleModel[c]]]]
  BY DEF StartRun, RunKinds
<1>2. /\ acct'.stage = stage /\ acct'.kind = kind /\ acct'.usage = NoUsage /\ acct'.rounds = 0
      /\ acct' \in Runs
  <2>1. [c \in {"main", "subagent"} |-> own[RoleModel[c]]] \in [{"main", "subagent"} -> Typed \cup {NoPrice}]
    <3>1. own \in [Registered -> Typed \cup {NoPrice}]
      BY DEF PricesKept, PricingTypeOK
    <3>2. \A c \in {"main", "subagent"} : RoleModel[c] \in Registered
      BY AccountsAssumption
    <3> QED
      BY <3>1, <3>2
  <2>2. 0 \in 0..MaxRounds /\ stage \in Stages
    BY AccountsAssumption DEF Stages
  <2> HIDE DEF RunKinds
  <2> QED
    BY <1>1, <2>1, <2>2, NoUsageIs DEF NoRun, Runs
<1>3. /\ UNCHANGED <<spent, rows, ledger, counter>> /\ streamed' = NoUsage
      /\ bills' = Append(bills, bill) /\ Len(bills) < MaxRuns /\ acct.stage = "idle"
  BY DEF StartRun
<1>4. BooksTyped /\ RowsHeld /\ AllHaveRows /\ BillsHeld /\ LedgerIsVision
  BY DEF BooksInv
<1>5. bill.usage = NoUsage /\ DOMAIN bill = {"usage", "amount", "price"}
  OBVIOUS
<1> HIDE DEF bill
<1>6. /\ bills' \in Seq(Range(bills')) /\ Len(bills') = ThisRun + 1
      /\ ThisRun \in Nat /\ DOMAIN bills = 1..ThisRun
      /\ DOMAIN bills' = DOMAIN bills \cup {ThisRun + 1}
      /\ \A r \in DOMAIN bills : bills'[r] = bills[r]
      /\ bills'[ThisRun + 1] = bill
  <2>1. bills \in Seq(Range(bills))
    BY <1>4 DEF BooksTyped
  <2>2. LET t == Append(bills, bill) IN
        /\ t \in Seq(Range(t)) /\ Len(bills) \in Nat /\ DOMAIN bills = 1..Len(bills) /\ Len(t) = Len(bills) + 1
        /\ DOMAIN t = DOMAIN bills \cup {Len(bills) + 1}
        /\ \A r \in DOMAIN bills : t[r] = bills[r]
        /\ t[Len(bills) + 1] = bill
    BY <2>1, Longer
  <2> QED
    BY <1>3, <2>2 DEF ThisRun
<1>7. ThisRun' = ThisRun + 1
  BY <1>6 DEF ThisRun
<1>8. /\ \A i : HasRow(i)' <=> HasRow(i)
      /\ \A r : Charged(r)' = Charged(r)
      /\ RowsHeld' /\ AllHaveRows' /\ LedgerIsVision'
  BY <1>3, <1>4, Quiet DEF LedgerIsVision
<1>9. \A i \in DOMAIN spent : spent[i].run \in 1..ThisRun
  BY <1>4 DEF BooksTyped
<1>10. BooksTyped'
  <2>1. ThisRun' > 0 /\ \A i \in DOMAIN spent' : spent'[i].run \in 1..ThisRun'
    BY <1>3, <1>6, <1>7, <1>9
  <2>2. Len(bills') <= MaxRuns
    BY <1>3, <1>6, AccountsAssumption DEF ThisRun
  <2>3. \A r \in DOMAIN bills' : DOMAIN bills'[r] = {"usage", "amount", "price"} /\ bills'[r].usage \in Usage
    BY <1>4, <1>5, <1>6, NoUsageIs DEF BooksTyped
  <2>4. /\ spent' \in Seq(Spent) /\ Len(spent') <= MaxReports
        /\ rows' \in Seq(Range(rows')) /\ ledger' \in Seq(Nat) /\ counter' \in Nat
        /\ streamed' \in Usage
    BY <1>3, <1>4, NoUsageIs DEF BooksTyped
  <2> QED
    BY <1>2, <1>6, <2>1, <2>2, <2>3, <2>4 DEF BooksTyped
<1>11. RunHeld'
  <2>1. \A i \in DOMAIN spent' : spent'[i].run # ThisRun'
    BY <1>3, <1>6, <1>7, <1>9
  <2>2. Charged(ThisRun)' = {}
    BY <2>1 DEF Charged
  <2>3. Owes(acct.usage, ThisRun)'
    BY <1>2, <2>2, NoUsageIs DEF Owes
  <2>4. acct'.stage # "done" /\ acct'.stage # "settle" /\ acct'.stage \notin {"compacted", "tool"}
    BY <1>2
  <2> QED
    BY <1>2, <1>3, <2>1, <2>3, <2>4 DEF RunHeld
<1>12. BillsHeld'
  <2>1. ASSUME NEW r \in DOMAIN bills', bills'[r].usage # NoUsage
        PROVE  /\ Range(bills'[r].usage.of) = Charged(r)'
               /\ \A i \in Charged(r)' : HasRow(i)'
               /\ r # ThisRun'
    <3>1. r \in DOMAIN bills /\ bills'[r] = bills[r]
      BY <1>5, <1>6, <2>1
    <3>2. Range(bills[r].usage.of) = Charged(r) /\ \A i \in Charged(r) : HasRow(i)
      BY <1>4, <2>1, <3>1 DEF BillsHeld
    <3>3. r # ThisRun'
      BY <1>6, <1>7, <3>1
    <3> QED
      BY <1>8, <3>1, <3>2, <3>3
  <2>2. \A r \in DOMAIN bills' : IsInjective(bills'[r].usage.of)
    BY <1>4, <1>5, <1>6, NoUsageIs DEF BillsHeld
  <2> QED
    BY <2>1, <2>2 DEF BillsHeld
<1> QED
  BY <1>8, <1>10, <1>11, <1>12 DEF BooksInv

(* The calls are done, or the user stops the run. *)
LEMMA Passes ==
  ASSUME BooksInv, CallsEnd \/ StopRun
  PROVE  BooksInv'
<1>1. PICK stage \in {"request", "settle"} :
        /\ acct' = [acct EXCEPT !.stage = stage]
        /\ stage = "request" => acct.stage = "tool"
        /\ acct.stage \in {"request", "compacted", "tool"}
        /\ UNCHANGED <<spent, rows, ledger, streamed, bills, counter>>
  BY DEF CallsEnd, StopRun
<1>2. BooksTyped /\ RowsHeld /\ AllHaveRows /\ BillsHeld /\ LedgerIsVision /\ RunHeld
  BY DEF BooksInv
<1>3. /\ acct' \in Runs /\ acct'.stage = stage /\ acct'.kind = acct.kind /\ acct'.usage = acct.usage
  BY <1>1, <1>2 DEF BooksTyped, Runs, Stages
<1>4. /\ \A i : HasRow(i)' <=> HasRow(i)
      /\ \A r : Charged(r)' = Charged(r)
      /\ RowsHeld' /\ AllHaveRows' /\ LedgerIsVision' /\ ThisRun' = ThisRun
  BY <1>1, <1>2, Quiet DEF LedgerIsVision, ThisRun
<1>5. BooksTyped'
  BY <1>1, <1>2, <1>3, <1>4 DEF BooksTyped
<1>6. /\ \A i \in DOMAIN spent : spent[i].run = ThisRun => spent[i].kind = acct.kind
      /\ IsInjective(acct.usage.of) /\ Range(acct.usage.of) = Charged(ThisRun)
      /\ acct.kind # "tools" => acct.stage = "request" /\ acct.usage = NoUsage
      /\ streamed = NoUsage
  BY <1>1, <1>2 DEF RunHeld, Owes
<1>7. RunHeld'
  <2>1. Owes(acct.usage, ThisRun)'
    BY <1>3, <1>4, <1>6 DEF Owes
  <2>2. acct.kind # "tools" => Charged(ThisRun) = {} /\ stage = "settle"
    BY <1>1, <1>6, NoUsageIs
  <2>3. \A i \in DOMAIN spent' : spent'[i].run = ThisRun' => spent'[i].kind = acct'.kind
    BY <1>1, <1>3, <1>4, <1>6
  <2>4. acct'.kind # "tools" => \A i \in Charged(ThisRun)' : ~HasRow(i)'
    BY <1>3, <1>4, <2>2
  <2> QED
    BY <1>1, <1>3, <1>6, <2>1, <2>2, <2>3, <2>4 DEF RunHeld
<1>8. BillsHeld'
  BY <1>1, <1>2, <1>3, <1>4 DEF BillsHeld
<1> QED
  BY <1>4, <1>5, <1>7, <1>8 DEF BooksInv

(* The answer is settled: the one request of a plan or a chat gets its row. *)
LEMMA Settles ==
  ASSUME BooksInv, Settle
  PROVE  BooksInv'
<1> DEFINE u == acct.usage
<1>1. /\ BooksTyped /\ RowsHeld /\ AllHaveRows /\ BillsHeld /\ LedgerIsVision /\ RunHeld
      /\ acct \in Runs /\ u \in Usage /\ acct.stage = "settle"
      /\ rows \in Seq(Range(rows)) /\ bills \in Seq(Range(bills))
  BY DEF BooksInv, BooksTyped, Runs, Settle
<1>2. /\ \A i \in DOMAIN spent : spent[i].run = ThisRun => spent[i].kind = acct.kind
      /\ IsInjective(u.of) /\ Range(u.of) = Charged(ThisRun) /\ streamed = NoUsage
      /\ acct.kind # "tools" => \A i \in Charged(ThisRun) : ~HasRow(i)
      /\ acct.kind # "tools" /\ u # NoUsage =>
           \E i \in DOMAIN spent : u.of = <<i>> /\ spent[i].run = ThisRun /\ spent[i].consumer = "main"
  BY <1>1 DEF RunHeld, Owes
<1>3. /\ UNCHANGED <<spent, ledger>> /\ streamed' = u
      /\ acct' = [acct EXCEPT !.stage = "done"]
      /\ counter' = counter + Total(u)
      /\ acct.kind # "tools" => RecordAttribution(u, "main")
      /\ acct.kind = "tools" => rows' = rows
  BY <1>2 DEF Settle, AttributedHere
<1>4. /\ acct' \in Runs /\ acct'.stage = "done" /\ acct'.kind = acct.kind /\ acct'.usage = u
  BY <1>1, <1>3 DEF Runs, Stages
<1>5. PICK a, p : bills' = [bills EXCEPT ![ThisRun].price = p, ![ThisRun].amount = a]
  BY DEF Settle
<1>6. /\ DOMAIN bills' = DOMAIN bills /\ Len(bills') = Len(bills) /\ bills' \in Seq(Range(bills'))
      /\ \A r \in DOMAIN bills : bills'[r].usage = bills[r].usage /\ DOMAIN bills'[r] = DOMAIN bills[r]
  <2>1. Len(bills) \in Nat /\ DOMAIN bills = 1..Len(bills)
    BY <1>1
  <2>2. DOMAIN bills' = DOMAIN bills
    BY <1>5
  <2>3. \A r \in DOMAIN bills : bills'[r].usage = bills[r].usage /\ DOMAIN bills'[r] = DOMAIN bills[r]
    BY <1>1, <1>5 DEF BooksTyped
  <2>4. bills' \in Seq(Range(bills')) /\ Len(bills') = Len(bills)
    <3>1. bills' \in [1..Len(bills) -> Range(bills')]
      BY <1>5, <2>1, <2>2 DEF Range
    <3> QED
      BY <2>1, <3>1
  <2> QED
    BY <2>2, <2>3, <2>4
<1>7. ThisRun' = ThisRun
  BY <1>6 DEF ThisRun
<1>8. \A r : Charged(r)' = Charged(r)
  BY <1>3 DEF Charged
(* The rows. *)
<1>9. /\ rows' \in Seq(Range(rows')) /\ RowsHeld' /\ \A i : HasRow(i) => HasRow(i)'
      /\ \A i \in Charged(ThisRun) : HasRow(i)'
  <2>1. CASE acct.kind = "tools"
    <3>1. rows' = rows
      BY <1>3, <2>1
    <3>2. RowsHeld' /\ \A i : HasRow(i) => HasRow(i)'
      BY <1>1, <1>3, <3>1, Quiet
    <3>3. \A i \in Charged(ThisRun) : ~Waits(i)
      BY <1>2, <2>1 DEF Charged, Waits
    <3>4. \A i \in Charged(ThisRun) : HasRow(i)
      BY <1>1, <3>3 DEF AllHaveRows, Charged
    <3> QED
      BY <1>1, <3>1, <3>2, <3>4
  <2>2. CASE acct.kind # "tools" /\ u = NoUsage
    <3>1. rows' = rows
      BY <1>3, <2>2 DEF RecordAttribution
    <3>2. RowsHeld' /\ \A i : HasRow(i) => HasRow(i)'
      BY <1>1, <1>3, <3>1, Quiet
    <3>3. Charged(ThisRun) = {}
      BY <1>2, <2>2, NoUsageIs
    <3> QED
      BY <1>1, <3>1, <3>2, <3>3
  <2>3. CASE acct.kind # "tools" /\ u # NoUsage
    <3> DEFINE row == Row(u, "main")
               m == Len(rows) + 1
    <3>1. rows' = Append(rows, row)
      BY <1>3, <2>3 DEF RecordAttribution
    <3>2. PICK i \in DOMAIN spent : u.of = <<i>> /\ spent[i].run = ThisRun /\ spent[i].consumer = "main"
      BY <1>2, <2>3
    <3>3. row.run = ThisRun /\ row.consumer = "main" /\ row.of = <<i>>
      BY <3>2 DEF Row
    <3> HIDE DEF row
    <3>4. LET t == Append(rows, row) IN
          /\ t \in Seq(Range(t))
          /\ DOMAIN t = DOMAIN rows \cup {m} /\ m \notin DOMAIN rows
          /\ \A k \in DOMAIN rows : t[k] = rows[k]
          /\ t[m] = row
      BY <1>1, Longer
    <3> HIDE DEF m
    <3>5. /\ rows' \in Seq(Range(rows'))
          /\ DOMAIN rows' = DOMAIN rows \cup {m} /\ m \notin DOMAIN rows
          /\ \A k \in DOMAIN rows : rows'[k] = rows[k]
          /\ rows'[m] = row
      BY <3>1, <3>4
    <3>6. Range(u.of) = {i} /\ Charged(ThisRun) = {i}
      <4>1. DOMAIN <<i>> = {1}
        OBVIOUS
      <4>2. Range(u.of) = {i}
        BY <3>2, <4>1 DEF Range
      <4> QED
        BY <1>2, <4>2
    <3>7. \A k \in DOMAIN rows : rows[k].of # <<i>>
      BY <1>2, <2>3, <3>6 DEF HasRow
    <3>8. RowsHeld'
      <4>1. \A k \in DOMAIN rows : \E j \in DOMAIN spent :
              rows[k].of = <<j>> /\ rows[k].run = spent[j].run /\ rows[k].consumer = spent[j].consumer
        BY <1>1 DEF RowsHeld
      <4>2. \A k \in DOMAIN rows' : \E j \in DOMAIN spent :
              rows'[k].of = <<j>> /\ rows'[k].run = spent[j].run /\ rows'[k].consumer = spent[j].consumer
        BY <3>2, <3>3, <3>5, <4>1
      <4>3. \A k, l \in DOMAIN rows' : rows'[k].of = rows'[l].of => k = l
        BY <1>1, <3>3, <3>5, <3>7 DEF RowsHeld
      <4> QED
        BY <1>3, <4>2, <4>3 DEF RowsHeld
    <3>9. \A j : HasRow(j) => HasRow(j)'
      BY <3>5 DEF HasRow
    <3>10. \A j : j = i => HasRow(j)'
      BY <3>3, <3>5 DEF HasRow
    <3> QED
      BY <3>5, <3>6, <3>8, <3>9, <3>10
  <2> QED
    BY <2>1, <2>2, <2>3
<1>10. AllHaveRows'
  BY <1>1, <1>3, <1>9 DEF AllHaveRows, Waits
<1>11. LedgerIsVision'
  BY <1>1, <1>3 DEF LedgerIsVision
<1>12. BooksTyped'
  <2>1. Total(u) \in Nat
    BY <1>1 DEF Total, Usage
  <2>2. counter' \in Nat
    BY <1>1, <1>3, <2>1 DEF BooksTyped
  <2>3. /\ spent' \in Seq(Spent) /\ Len(spent') <= MaxReports /\ ledger' \in Seq(Nat)
        /\ ThisRun' > 0 /\ \A i \in DOMAIN spent' : spent'[i].run \in 1..ThisRun'
    BY <1>1, <1>3, <1>7 DEF BooksTyped
  <2>4. /\ Len(bills') <= MaxRuns
        /\ \A r \in DOMAIN bills' : DOMAIN bills'[r] = {"usage", "amount", "price"} /\ bills'[r].usage \in Usage
    BY <1>1, <1>6 DEF BooksTyped
  <2> QED
    BY <1>1, <1>3, <1>4, <1>6, <1>9, <2>2, <2>3, <2>4 DEF BooksTyped
<1>13. RunHeld'
  <2>1. Owes(acct.usage, ThisRun)'
    BY <1>2, <1>4, <1>7, <1>8 DEF Owes
  <2>2. \A i \in DOMAIN spent' : spent'[i].run = ThisRun' => spent'[i].kind = acct'.kind
    BY <1>2, <1>3, <1>4, <1>7
  <2>3. \A i \in Charged(ThisRun)' : HasRow(i)'
    BY <1>7, <1>8, <1>9
  <2> QED
    BY <1>3, <1>4, <2>1, <2>2, <2>3 DEF RunHeld
<1>14. BillsHeld'
  <2>1. ASSUME NEW r \in DOMAIN bills', bills'[r].usage # NoUsage
        PROVE  /\ Range(bills'[r].usage.of) = Charged(r)'
               /\ \A i \in Charged(r)' : HasRow(i)'
               /\ r # ThisRun'
    <3>1. r \in DOMAIN bills /\ bills'[r].usage = bills[r].usage
      BY <1>6, <2>1
    <3>2. Range(bills[r].usage.of) = Charged(r) /\ (\A i \in Charged(r) : HasRow(i)) /\ r # ThisRun
      BY <1>1, <2>1, <3>1 DEF BillsHeld
    <3> QED
      BY <1>7, <1>8, <1>9, <3>1, <3>2
  <2>2. \A r \in DOMAIN bills' : IsInjective(bills'[r].usage.of)
    BY <1>1, <1>6 DEF BillsHeld
  <2> QED
    BY <2>1, <2>2 DEF BillsHeld
<1> QED
  BY <1>9, <1>10, <1>11, <1>12, <1>13, <1>14 DEF BooksInv

(* The run is over: an answer is stored with what the frontend was told. *)
LEMMA Ends ==
  ASSUME BooksInv, ChatDone \/ RunFails \/ AcctProcessEnds
  PROVE  BooksInv'
<1>1. /\ BooksTyped /\ RowsHeld /\ AllHaveRows /\ BillsHeld /\ LedgerIsVision /\ RunHeld
      /\ acct \in Runs /\ acct.stage # "idle" /\ streamed \in Usage
      /\ ThisRun > 0
  BY DEF BooksInv, BooksTyped, ChatDone, RunFails, AcctProcessEnds
<1>2. /\ acct' = NoRun /\ UNCHANGED <<spent, rows, ledger, counter>> /\ streamed' \in {streamed, NoUsage}
      /\ bills' = bills \/ bills' = [bills EXCEPT ![ThisRun].usage = streamed]
  BY DEF ChatDone, RunFails, AcctProcessEnds
<1>3. acct' \in Runs /\ acct'.stage = "idle"
  <2>1. [c \in {"main", "subagent"} |-> NoPrice] \in [{"main", "subagent"} -> Typed \cup {NoPrice}]
    OBVIOUS
  <2>2. 0 \in 0..MaxRounds
    BY AccountsAssumption
  <2> QED
    BY <1>2, <2>1, <2>2, NoUsageIs DEF NoRun, Runs, Stages, RunKinds
<1>4. streamed # NoUsage =>
        /\ IsInjective(streamed.of) /\ Range(streamed.of) = Charged(ThisRun)
        /\ \A i \in Charged(ThisRun) : HasRow(i)
  BY <1>1 DEF RunHeld, Owes
<1>5. IsInjective(streamed.of)
  BY <1>4, NoUsageIs
<1>6. /\ \A i : HasRow(i)' <=> HasRow(i)
      /\ \A r : Charged(r)' = Charged(r)
      /\ RowsHeld' /\ AllHaveRows' /\ LedgerIsVision'
  BY <1>1, <1>2, Quiet DEF LedgerIsVision
<1>7. /\ DOMAIN bills' = DOMAIN bills /\ Len(bills') = Len(bills) /\ bills' \in Seq(Range(bills'))
      /\ \A r \in DOMAIN bills :
           /\ bills'[r].usage = bills[r].usage \/ (r = ThisRun /\ bills'[r].usage = streamed)
           /\ DOMAIN bills'[r] = DOMAIN bills[r]
  <2>1. bills \in Seq(Range(bills)) /\ Len(bills) \in Nat /\ DOMAIN bills = 1..Len(bills)
    BY <1>1 DEF BooksTyped
  <2>2. CASE bills' = bills
    <3>1. DOMAIN bills' = DOMAIN bills /\ Len(bills') = Len(bills) /\ bills' \in Seq(Range(bills'))
      BY <2>1, <2>2
    <3>2. \A r \in DOMAIN bills : bills'[r].usage = bills[r].usage /\ DOMAIN bills'[r] = DOMAIN bills[r]
      BY <2>2
    <3> QED
      BY <3>1, <3>2
  <2>3. CASE bills' = [bills EXCEPT ![ThisRun].usage = streamed]
    <3>1. DOMAIN bills' = DOMAIN bills
      BY <2>3
    <3>2. ASSUME NEW r \in DOMAIN bills
          PROVE  /\ bills'[r].usage = bills[r].usage \/ (r = ThisRun /\ bills'[r].usage = streamed)
                 /\ DOMAIN bills'[r] = DOMAIN bills[r]
      <4>1. CASE r # ThisRun
        <5>1. bills'[r] = bills[r]
          BY <2>3, <4>1
        <5> QED
          BY <5>1
      <4>2. CASE r = ThisRun
        <5>1. bills'[r] = [bills[r] EXCEPT !.usage = streamed]
          BY <2>3, <4>2
        <5>2. "usage" \in DOMAIN bills[r]
          BY <1>1 DEF BooksTyped
        <5> QED
          BY <4>2, <5>1, <5>2
      <4> QED
        BY <4>1, <4>2
    <3>3. bills' \in [1..Len(bills) -> Range(bills')]
      BY <2>1, <2>3, <3>1 DEF Range
    <3>4. bills' \in Seq(Range(bills')) /\ Len(bills') = Len(bills)
      BY <2>1, <3>3
    <3> QED
      BY <3>1, <3>2, <3>4
  <2> QED
    BY <1>2, <2>2, <2>3
<1>8. ThisRun' = ThisRun
  BY <1>7 DEF ThisRun
<1>9. BooksTyped'
  <2>1. /\ streamed' \in Usage
        /\ spent' \in Seq(Spent) /\ Len(spent') <= MaxReports /\ ledger' \in Seq(Nat)
        /\ rows' \in Seq(Range(rows')) /\ counter' \in Nat
        /\ \A i \in DOMAIN spent' : spent'[i].run \in 1..ThisRun'
    BY <1>1, <1>2, <1>8, NoUsageIs DEF BooksTyped
  <2>2. /\ Len(bills') <= MaxRuns
        /\ \A r \in DOMAIN bills' : DOMAIN bills'[r] = {"usage", "amount", "price"} /\ bills'[r].usage \in Usage
    BY <1>1, <1>7 DEF BooksTyped
  <2> QED
    BY <1>3, <1>7, <2>1, <2>2 DEF BooksTyped
<1>10. RunHeld'
  BY <1>3 DEF RunHeld
<1>11. BillsHeld'
  <2>1. ASSUME NEW r \in DOMAIN bills', bills'[r].usage # NoUsage
        PROVE  /\ Range(bills'[r].usage.of) = Charged(r)'
               /\ \A i \in Charged(r)' : HasRow(i)'
    <3>1. CASE r = ThisRun /\ bills'[r].usage = streamed
      BY <1>4, <1>6, <2>1, <3>1
    <3>2. CASE bills'[r].usage = bills[r].usage
      BY <1>1, <1>6, <1>7, <2>1, <3>2 DEF BillsHeld
    <3> QED
      BY <1>7, <3>1, <3>2
  <2>2. \A r \in DOMAIN bills' : IsInjective(bills'[r].usage.of)
    BY <1>1, <1>5, <1>7 DEF BillsHeld
  <2> QED
    BY <1>3, <2>1, <2>2 DEF BillsHeld
<1> QED
  BY <1>6, <1>9, <1>10, <1>11 DEF BooksInv

(* The books are empty at first.                                           *)
LEMMA BooksBegin == AcctInit => BooksInv
<1> SUFFICES ASSUME AcctInit PROVE BooksInv
  OBVIOUS
<1>1. /\ acct = NoRun /\ spent = <<>> /\ rows = <<>> /\ ledger = <<>>
      /\ streamed = NoUsage /\ bills = <<>> /\ counter = 0
  BY DEF AcctInit
<1>2. <<>> \in Seq(Range(<<>>)) /\ <<>> \in Seq(Nat) /\ <<>> \in Seq(Spent) /\ DOMAIN <<>> = {} /\ Len(<<>>) = 0
  OBVIOUS
<1>3. Range(<<>>) = {}
  BY <1>2 DEF Range
<1>4. acct \in Runs /\ acct.stage = "idle"
  <2>1. [c \in {"main", "subagent"} |-> NoPrice] \in [{"main", "subagent"} -> Typed \cup {NoPrice}]
    OBVIOUS
  <2>2. 0 \in 0..MaxRounds
    BY AccountsAssumption
  <2> QED
    BY <1>1, <2>1, <2>2, NoUsageIs DEF NoRun, Runs, Stages, RunKinds
<1>5. BooksTyped
  BY <1>1, <1>2, <1>3, <1>4, NoUsageIs, AccountsAssumption DEF BooksTyped
<1>6. RowsHeld /\ AllHaveRows /\ LedgerIsVision
  BY <1>1, <1>2, <1>3 DEF RowsHeld, AllHaveRows, LedgerIsVision
<1>7. RunHeld /\ BillsHeld
  BY <1>1, <1>2, <1>4 DEF RunHeld, BillsHeld
<1> QED
  BY <1>5, <1>6, <1>7 DEF BooksInv

(* Every step of a run keeps the books.                                    *)
LEMMA RunsOn == BooksInv /\ PricesKept /\ RunSteps => BooksInv'
<1> SUFFICES ASSUME BooksInv, PricesKept, RunSteps PROVE BooksInv'
  OBVIOUS
<1>0. /\ BooksTyped /\ acct \in Runs /\ acct.usage \in Usage /\ acct.rounds \in Nat
      /\ {"main", "vision", "subagent"} \subseteq Consumers /\ MaxRounds \in Nat
  BY AccountsAssumption DEF BooksInv, BooksTyped, Runs, Consumers
<1>1. CASE StartRun
  BY <1>1, Starts
<1>2. CASE FirstLook
  <2>1. PICK u \in Usages :
          /\ Spends(u, "vision") /\ LedgerEntry(u) /\ RecordAttribution(u, "vision")
          /\ acct' = [acct EXCEPT !.stage = "request",
                                  !.usage = IF acct.kind = "tools" THEN u ELSE NoUsage]
    BY <1>2 DEF FirstLook
  <2>2. acct.stage = "look" /\ UNCHANGED <<streamed, bills, counter>> /\ acct.usage = NoUsage
    BY <1>2 DEF FirstLook, BooksInv, RunHeld
  <2>3. u \in Usage /\ u.of \in Seq(Nat)
    <3>1. u \in Usage
      BY <1>0, UsagesAre
    <3> QED
      BY <3>1 DEF Usage
  <2>4. /\ acct' \in Runs /\ acct'.stage = "request" /\ acct'.kind = acct.kind
        /\ acct.kind = "tools" => acct'.usage = u
        /\ acct.kind # "tools" => acct'.usage = NoUsage
    BY <1>0, <2>1, <2>3, NoUsageIs DEF Runs, Stages
  <2>5. CASE acct.kind = "tools"
    <3>1. acct'.usage.of = acct.usage.of \o u.of
      BY <2>2, <2>3, <2>4, <2>5, NoUsageIs
    <3> QED
      BY <1>0, <2>1, <2>2, <2>4, <2>5, <3>1, Responds
  <2>6. CASE acct.kind # "tools"
    BY <2>1, <2>2, <2>4, <2>6, LooksFirst
  <2> QED
    BY <2>5, <2>6
<1>3. CASE SingleRequest
  <2>1. PICK u \in Usages : Spends(u, "main") /\ acct' = [acct EXCEPT !.stage = "settle", !.usage = u]
    BY <1>3 DEF SingleRequest
  <2>2. u \in Usage
    BY <1>0, UsagesAre
  <2>3. acct' \in Runs /\ acct'.stage = "settle" /\ acct'.kind = acct.kind /\ acct'.usage = u
    BY <1>0, <2>1, <2>2 DEF Runs, Stages
  <2> QED
    BY <1>3, <2>1, <2>3, OneRequest DEF SingleRequest
<1>4. CASE Round
  <2>1. PICK u \in Usages :
          /\ Spends(u, "main") /\ RecordAttribution(u, "main")
          /\ \E next \in {"tool", "request", "settle"} :
               acct' = [acct EXCEPT !.stage = next, !.usage = MergeUsage(acct.usage, u), !.rounds = @ + 1]
    BY <1>4 DEF Round
  <2>2. PICK next \in {"tool", "request", "settle"} :
          acct' = [acct EXCEPT !.stage = next, !.usage = MergeUsage(acct.usage, u), !.rounds = @ + 1]
    BY <2>1
  <2>3. /\ acct.stage \in {"request", "compacted"} /\ acct.kind = "tools" /\ acct.rounds < MaxRounds
        /\ UNCHANGED <<ledger, streamed, bills, counter>>
    BY <1>4 DEF Round
  <2>4. MergeUsage(acct.usage, u) \in Usage /\ MergeUsage(acct.usage, u).of = acct.usage.of \o u.of
    BY <1>0, UsagesAre, Merged
  <2>5. acct.rounds + 1 \in 0..MaxRounds
    BY <1>0, <2>3
  <2>6. /\ acct' \in Runs /\ acct'.stage = next /\ acct'.kind = acct.kind
        /\ acct'.usage = MergeUsage(acct.usage, u)
    BY <1>0, <2>2, <2>4, <2>5 DEF Runs, Stages
  <2> QED
    BY <1>0, <2>1, <2>3, <2>4, <2>6, Responds
<1>5. CASE Compaction
  <2>1. PICK u \in Usages :
          /\ Spends(u, "main") /\ RecordAttribution(u, "main")
          /\ acct' = [acct EXCEPT !.stage = "compacted", !.usage = MergeUsage(@, u)]
    BY <1>5 DEF Compaction
  <2>2. acct.stage = "request" /\ acct.kind = "tools" /\ UNCHANGED <<ledger, streamed, bills, counter>>
    BY <1>5 DEF Compaction
  <2>3. MergeUsage(acct.usage, u) \in Usage /\ MergeUsage(acct.usage, u).of = acct.usage.of \o u.of
    BY <1>0, UsagesAre, Merged
  <2>4. /\ acct' \in Runs /\ acct'.stage = "compacted" /\ acct'.kind = acct.kind
        /\ acct'.usage = MergeUsage(acct.usage, u)
    BY <1>0, <2>1, <2>3 DEF Runs, Stages
  <2> QED
    BY <1>0, <2>1, <2>2, <2>3, <2>4, Responds
<1>6. CASE AskVision \/ Subagent
  <2>1. PICK c \in {"vision", "subagent"}, u \in Usages :
          /\ Spends(u, c) /\ RecordAttribution(u, c)
          /\ c = "vision" => LedgerEntry(u)
          /\ c # "vision" => ledger' = ledger
          /\ acct' = [acct EXCEPT !.usage = MergeUsage(@, u)]
    BY <1>6 DEF AskVision, Subagent
  <2>2. acct.stage = "tool" /\ acct.kind = "tools" /\ UNCHANGED <<streamed, bills, counter>>
    BY <1>6 DEF AskVision, Subagent, BooksInv, RunHeld
  <2>3. MergeUsage(acct.usage, u) \in Usage /\ MergeUsage(acct.usage, u).of = acct.usage.of \o u.of
    BY <1>0, UsagesAre, Merged
  <2>4. /\ acct' \in Runs /\ acct'.stage = acct.stage /\ acct'.kind = acct.kind
        /\ acct'.usage = MergeUsage(acct.usage, u)
    BY <1>0, <2>1, <2>3 DEF Runs, Stages
  <2> QED
    BY <1>0, <2>1, <2>2, <2>3, <2>4, Responds
<1>7. CASE CallsEnd \/ StopRun
  BY <1>7, Passes
<1>8. CASE Settle
  BY <1>8, Settles
<1>9. CASE ChatDone \/ RunFails \/ AcctProcessEnds
  BY <1>9, Ends
<1> QED
  BY <1>1, <1>2, <1>3, <1>4, <1>5, <1>6, <1>7, <1>8, <1>9 DEF RunSteps

(* Steps on the prices leave them alone.                                   *)
LEMMA BooksStay == BooksInv /\ UNCHANGED acvars => BooksInv'
<1> SUFFICES ASSUME BooksInv, UNCHANGED acvars PROVE BooksInv'
  OBVIOUS
<1>1. UNCHANGED acct /\ UNCHANGED spent /\ UNCHANGED rows /\ UNCHANGED ledger
      /\ UNCHANGED streamed /\ UNCHANGED bills /\ UNCHANGED counter
  BY DEF acvars
<1>2. BooksTyped' /\ LedgerIsVision'
  BY <1>1 DEF BooksInv, BooksTyped, LedgerIsVision, ThisRun
<1>3. /\ \A i : HasRow(i)' <=> HasRow(i)
      /\ \A r : Charged(r)' = Charged(r)
      /\ RowsHeld' /\ AllHaveRows' /\ ThisRun' = ThisRun
  BY <1>1, Quiet DEF BooksInv, ThisRun
<1>4. BillsHeld'
  BY <1>1, <1>3 DEF BooksInv, BillsHeld
<1>5. RunHeld'
  BY <1>1, <1>3 DEF BooksInv, RunHeld, Owes
<1> QED
  BY <1>2, <1>3, <1>4, <1>5 DEF BooksInv

(* What the rows, the ledger and the answers say follows. *)
LEMMA BooksMeans == BooksInv => AcctTypeOK /\ AttributedOnce /\ LedgerIsVision /\ BillIsItsRows
<1> SUFFICES ASSUME BooksInv PROVE AcctTypeOK /\ AttributedOnce /\ LedgerIsVision /\ BillIsItsRows
  OBVIOUS
<1>1. /\ BooksTyped /\ RowsHeld /\ AllHaveRows /\ BillsHeld /\ LedgerIsVision
      /\ \A i \in DOMAIN spent : spent[i].consumer \in Consumers
  <2>1. spent \in Seq(Spent)
    BY DEF BooksInv, BooksTyped
  <2>2. \A i \in DOMAIN spent : spent[i] \in Spent
    BY <2>1
  <2>3. \A i \in DOMAIN spent : spent[i].consumer \in Consumers
    BY <2>2 DEF Spent
  <2> QED
    BY <2>3 DEF BooksInv
<1>2. ASSUME NEW i PROVE Range(<<i>>) = {i} /\ IsInjective(<<i>>)
  <2>1. DOMAIN <<i>> = {1} /\ <<i>>[1] = i
    OBVIOUS
  <2> QED
    BY <2>1 DEF Range, IsInjective
<1>3. \A k \in DOMAIN rows : \E i \in DOMAIN spent :
        /\ rows[k].of = <<i>> /\ Range(rows[k].of) = {i} /\ IsInjective(rows[k].of)
        /\ rows[k].run = spent[i].run /\ rows[k].consumer = spent[i].consumer
  <2> SUFFICES ASSUME NEW k \in DOMAIN rows
               PROVE  \E i \in DOMAIN spent :
                        /\ rows[k].of = <<i>> /\ Range(rows[k].of) = {i} /\ IsInjective(rows[k].of)
                        /\ rows[k].run = spent[i].run /\ rows[k].consumer = spent[i].consumer
    OBVIOUS
  <2>1. PICK i \in DOMAIN spent :
          rows[k].of = <<i>> /\ rows[k].run = spent[i].run /\ rows[k].consumer = spent[i].consumer
    BY <1>1 DEF RowsHeld
  <2>2. Range(rows[k].of) = {i} /\ IsInjective(rows[k].of)
    BY <1>2, <2>1
  <2> QED
    BY <2>1, <2>2
<1>4. AcctTypeOK
  <2>1. \A k \in DOMAIN rows : rows[k].consumer \in Consumers
    BY <1>1, <1>3
  <2> QED
    BY <1>1, <2>1 DEF BooksTyped, Runs, Stages, RunKinds, AcctTypeOK
<1>5. AttributedOnce
  <2>1. \A k \in DOMAIN rows : IsInjective(rows[k].of)
    BY <1>3
  <2>2. ASSUME NEW k \in DOMAIN rows, NEW l \in DOMAIN rows, Range(rows[k].of) \cap Range(rows[l].of) # {}
        PROVE  k = l
    <3>1. PICK i : rows[k].of = <<i>> /\ Range(rows[k].of) = {i}
      BY <1>3
    <3>2. PICK j : rows[l].of = <<j>> /\ Range(rows[l].of) = {j}
      BY <1>3
    <3>3. i = j
      BY <2>2, <3>1, <3>2
    <3> QED
      BY <1>1, <3>1, <3>2, <3>3 DEF RowsHeld
  <2>3. \A c \in Consumers : \A i \in AttributedTo(c) : spent[i].consumer = c
    BY <1>3 DEF AttributedTo
  <2>4. ASSUME NEW i \in DOMAIN spent, ~Waits(i) PROVE i \in AttributedTo(spent[i].consumer)
    <3>1. PICK k \in DOMAIN rows : rows[k].of = <<i>>
      BY <1>1, <2>4 DEF AllHaveRows, HasRow
    <3>2. i \in Range(rows[k].of)
      BY <1>2, <3>1
    <3>3. rows[k].consumer = spent[i].consumer
      BY <1>3, <3>2
    <3> QED
      BY <3>2, <3>3 DEF AttributedTo
  <2> QED
    BY <2>1, <2>2, <2>3, <2>4 DEF AttributedOnce
<1>6. BillIsItsRows
  <2> SUFFICES ASSUME NEW r \in DOMAIN bills
               PROVE  /\ IsInjective(bills[r].usage.of)
                      /\ bills[r].usage # NoUsage =>
                           Range(bills[r].usage.of) = UNION {Range(rows[k].of) : k \in {j \in RunRows(r) :
                             rows[j].consumer # "vision" \/ \E i \in Range(rows[j].of) : spent[i].kind = "tools"}}
    BY DEF BillIsItsRows
  <2> DEFINE counted == {j \in RunRows(r) :
                         rows[j].consumer # "vision" \/ \E i \in Range(rows[j].of) : spent[i].kind = "tools"}
  <2>1. IsInjective(bills[r].usage.of)
    BY <1>1 DEF BillsHeld
  <2>2. ASSUME bills[r].usage # NoUsage
        PROVE  Range(bills[r].usage.of) = UNION {Range(rows[k].of) : k \in counted}
    <3>1. Range(bills[r].usage.of) = Charged(r) /\ \A i \in Charged(r) : HasRow(i)
      BY <1>1, <2>2 DEF BillsHeld
    <3>2. ASSUME NEW i \in Charged(r) PROVE \E k \in counted : i \in Range(rows[k].of)
      <4>1. PICK k \in DOMAIN rows : rows[k].of = <<i>>
        BY <3>1 DEF HasRow
      <4>2. i \in Range(rows[k].of)
        BY <1>2, <4>1
      <4>3. rows[k].run = spent[i].run /\ rows[k].consumer = spent[i].consumer
        BY <1>3, <4>2
      <4>4. k \in counted
        BY <4>2, <4>3 DEF RunRows, Charged
      <4> QED
        BY <4>2, <4>4
    <3>3. ASSUME NEW k \in counted, NEW i \in Range(rows[k].of) PROVE i \in Charged(r)
      <4>1. k \in DOMAIN rows /\ rows[k].run = r
        BY DEF RunRows
      <4>2. /\ i \in DOMAIN spent /\ Range(rows[k].of) = {i}
            /\ rows[k].run = spent[i].run /\ rows[k].consumer = spent[i].consumer
        BY <1>3, <4>1
      <4> QED
        BY <4>1, <4>2 DEF Charged
    <3> HIDE DEF counted
    <3> QED
      BY <3>1, <3>2, <3>3
  <2> HIDE DEF counted
  <2> QED
    BY <2>1, <2>2 DEF counted
<1> QED
  BY <1>1, <1>4, <1>5, <1>6

(* So prices and books hold in every state.                                *)
LEMMA AccountsKeep == AccountsSpec => [](PricesKept /\ BooksInv)
<1>1. PricingInit /\ AcctInit => PricesKept /\ BooksInv
  BY PricesBegin, BooksBegin
<1>2. PricesKept /\ BooksInv /\ [AccountsNext]_<<prvars, acvars>> => (PricesKept /\ BooksInv)'
  <2> SUFFICES ASSUME PricesKept, BooksInv, [AccountsNext]_<<prvars, acvars>>
               PROVE  PricesKept' /\ BooksInv'
    OBVIOUS
  <2>1. CASE RunSteps /\ UNCHANGED prvars
    BY <2>1, PricesMove, RunsOn
  <2>2. CASE PricingNext /\ UNCHANGED acvars
    BY <2>2, PricesMove, BooksStay
  <2>3. CASE UNCHANGED <<prvars, acvars>>
    <3>1. UNCHANGED prvars /\ UNCHANGED acvars
      BY <2>3
    <3> QED
      BY <3>1, PricesMove, BooksStay
  <2> QED
    BY <2>1, <2>2, <2>3 DEF AccountsNext
<1> QED
  BY <1>1, <1>2, PTL DEF AccountsSpec

(* The books agree on who spent what: every report is attributed to its      *)
(* consumer and to no other, once; the ledger has those of the vision model *)
(* in their order; the usage stored with an answer is that of the rows of   *)
(* its run; and no row of the panel of prices is without a price            *)
(* (agent_loop.rs and commands.rs write the four places, pricing_capture.rs *)
(* the prices).                                                            *)
THEOREM BooksOfReports ==
  AccountsSpec => [](PricingTypeOK /\ AcctTypeOK /\ AttributedOnce /\ LedgerIsVision /\ BillIsItsRows)
<1>1. PricesKept => PricingTypeOK
  BY DEF PricesKept
<1> QED
  BY <1>1, AccountsKeep, BooksMeans, PTL

-----------------------------------------------------------------------------
(* What is charged. *)

(* Every price that is charged is a price. *)
LEMMA PriceIsKnown ==
  ASSUME PricesKept, BooksTyped
  PROVE  PriceFor("main") \in Tariff
<1>1. NoPrice \in Tariff
  <2>1. <<>> \in Seq(Tier)
    OBVIOUS
  <2> QED
    BY <2>1 DEF NoPrice, Tariff
<1>2. acct.typed["main"] \in Tariff
  <2>1. acct.typed \in [{"main", "subagent"} -> Typed \cup {NoPrice}]
    BY DEF BooksTyped, Runs
  <2>2. acct.typed["main"] \in Typed \cup {NoPrice}
    BY <2>1
  <2> QED
    BY <1>1, <2>2, PricingAssumption
<1>3. ASSUME NEW s PROVE LookupPreset(s) \in Tariff
  <2> DEFINE hits == {i \in DOMAIN Compiled : Normalize(Compiled[i].model).name = CanonicalId(s)}
  <2>1. CASE hits = {}
    BY <1>1, <2>1 DEF LookupPreset
  <2>2. CASE hits # {}
    <3>1. Compiled \in Seq(Entry)
      BY PricingAssumption
    <3>2. hits \subseteq Nat /\ \A i \in hits : Compiled[i] \in Entry
      BY <3>1
    <3>3. LookupPreset(s) = Compiled[Min(hits)].price
      BY <2>2 DEF LookupPreset
    <3> HIDE DEF hits
    <3>4. Min(hits) \in hits
      BY <2>2, <3>2, FirstOf
    <3>5. Compiled[Min(hits)] \in Entry
      BY <3>2, <3>4
    <3> QED
      BY <3>3, <3>5 DEF Entry
  <2> QED
    BY <2>1, <2>2
<1>4. ASSUME NEW s PROVE CurrentPrice(s) \in Tariff
  BY <1>3 DEF CurrentPrice, PricesKept, Offered
<1> QED
  BY <1>2, <1>4 DEF PriceFor, TypedFor, ResolveBilling, Mode

(* A price without tiers; a usage that tells hits from misses.              *)
Flat(p)  == p # NoPrice /\ p.tiers = <<>>
Whole(u) == u.hit + u.miss = 0 => u.prompt = 0

(* Without tiers a usage costs what its tokens cost,                       *)
LEMMA CostIs ==
  ASSUME NEW p \in Tariff, Flat(p), NEW u \in Usage, Whole(u)
  PROVE  LET hit == IF p.cached = -1 THEN p.input ELSE p.cached IN
         ComputeCost(u, Mode, p) = u.miss * p.input + u.hit * hit + u.out * p.output
<1>1. u.hit \in Nat /\ u.miss \in Nat /\ u.prompt \in Nat
  BY DEF Usage
<1>2. (IF u.hit = 0 /\ u.miss = 0 THEN u.prompt ELSE u.miss) = u.miss
  BY <1>1 DEF Whole
<1>3. \A n : SelectRates(p, n) = p
  BY DEF SelectRates, Flat
<1> QED
  BY <1>2, <1>3 DEF ComputeCost, Mode, Flat

(* Merged, they tell hits from misses too. *)
LEMMA WholeMerged ==
  ASSUME NEW u \in Usage, Whole(u), NEW w \in Usage, Whole(w)
  PROVE  Whole(MergeUsage(u, w))
<1> DEFINE m == MergeUsage(u, w)
<1>1. /\ u.hit \in Nat /\ u.miss \in Nat /\ u.prompt \in Nat
      /\ w.hit \in Nat /\ w.miss \in Nat /\ w.prompt \in Nat
  BY DEF Usage
<1>2. m.hit = u.hit + w.hit /\ m.miss = u.miss + w.miss /\ m.prompt = u.prompt + w.prompt
  BY DEF MergeUsage
<1> HIDE DEF m
<1>3. ASSUME m.hit + m.miss = 0 PROVE m.prompt = 0
  <2>1. u.hit + u.miss = 0 /\ w.hit + w.miss = 0
    BY <1>1, <1>2, <1>3
  <2>2. u.prompt = 0 /\ w.prompt = 0
    BY <2>1 DEF Whole
  <2> QED
    BY <1>2, <2>2
<1> QED
  BY <1>3 DEF Whole, m

LEMMA Distributes ==
  ASSUME NEW a \in Int, NEW b \in Int, NEW x \in Int
  PROVE  (a + b) * x = a * x + b * x
OBVIOUS

(* and two usages together what both cost.                                 *)
LEMMA CostAdds ==
  ASSUME NEW p \in Tariff, Flat(p), NEW u \in Usage, Whole(u), NEW w \in Usage, Whole(w)
  PROVE  /\ ComputeCost(u, Mode, p) \in Int
         /\ ComputeCost(MergeUsage(u, w), Mode, p) = ComputeCost(u, Mode, p) + ComputeCost(w, Mode, p)
<1> DEFINE m == MergeUsage(u, w)
           hit == IF p.cached = -1 THEN p.input ELSE p.cached
<1>1. /\ u.hit \in Nat /\ u.miss \in Nat /\ u.prompt \in Nat /\ u.out \in Nat
      /\ w.hit \in Nat /\ w.miss \in Nat /\ w.prompt \in Nat /\ w.out \in Nat
  BY DEF Usage
<1>2. m \in Usage
  BY Merged
<1>3. m.hit = u.hit + w.hit /\ m.miss = u.miss + w.miss /\ m.prompt = u.prompt + w.prompt /\ m.out = u.out + w.out
  BY DEF MergeUsage
<1>4. Whole(m)
  BY WholeMerged
<1>5. p.input \in Int /\ p.output \in Int /\ hit \in Int
  BY DEF Tariff
<1> HIDE DEF m
<1>6. /\ ComputeCost(u, Mode, p) = u.miss * p.input + u.hit * hit + u.out * p.output
      /\ ComputeCost(w, Mode, p) = w.miss * p.input + w.hit * hit + w.out * p.output
      /\ ComputeCost(m, Mode, p) = m.miss * p.input + m.hit * hit + m.out * p.output
  BY <1>2, <1>4, CostIs
<1> HIDE DEF hit
<1>7. /\ u.miss * p.input \in Int /\ u.hit * hit \in Int /\ u.out * p.output \in Int
      /\ w.miss * p.input \in Int /\ w.hit * hit \in Int /\ w.out * p.output \in Int
  BY <1>1, <1>5
<1>8. /\ m.miss * p.input = u.miss * p.input + w.miss * p.input
      /\ m.hit * hit = u.hit * hit + w.hit * hit
      /\ m.out * p.output = u.out * p.output + w.out * p.output
  BY <1>1, <1>3, <1>5, Distributes
<1>9. ComputeCost(m, Mode, p) = ComputeCost(u, Mode, p) + ComputeCost(w, Mode, p)
  BY <1>6, <1>7, <1>8
<1>10. ComputeCost(u, Mode, p) \in Int
  BY <1>6, <1>7
<1> QED
  BY <1>9, <1>10 DEF m

(* Nothing costs nothing, and changes no usage.                            *)
LEMMA NothingCosts ==
  ASSUME NEW p \in Tariff, Flat(p)
  PROVE  Whole(NoUsage) /\ ComputeCost(NoUsage, Mode, p) = 0
<1>1. NoUsage.hit = 0 /\ NoUsage.miss = 0 /\ NoUsage.prompt = 0 /\ NoUsage.out = 0 /\ NoUsage \in Usage
  BY NoUsageIs DEF NoUsage
<1>2. Whole(NoUsage)
  BY <1>1 DEF Whole
<1>3. \A x \in Int : 0 * x = 0
  OBVIOUS
<1>4. p.input \in Int /\ p.output \in Int /\ p.cached \in Int
  BY DEF Tariff
<1> QED
  BY <1>1, <1>2, <1>3, <1>4, CostIs

LEMMA NothingMerged ==
  ASSUME NEW u \in Usage
  PROVE  MergeUsage(u, NoUsage) = u /\ MergeUsage(NoUsage, u) = u
<1>1. u = [prompt |-> u.prompt, hit |-> u.hit, miss |-> u.miss, out |-> u.out, of |-> u.of]
  BY DEF Usage
<1>2. /\ u.prompt + 0 = u.prompt /\ u.hit + 0 = u.hit /\ u.miss + 0 = u.miss /\ u.out + 0 = u.out
      /\ 0 + u.prompt = u.prompt /\ 0 + u.hit = u.hit /\ 0 + u.miss = u.miss /\ 0 + u.out = u.out
  BY DEF Usage
<1>3. u.of \o <<>> = u.of /\ <<>> \o u.of = u.of
  <2>1. u.of \in Seq(Nat)
    BY DEF Usage
  <2> QED
    BY <2>1
<1>4. NoUsage.prompt = 0 /\ NoUsage.hit = 0 /\ NoUsage.miss = 0 /\ NoUsage.out = 0 /\ NoUsage.of = <<>>
  BY DEF NoUsage
<1> QED
  BY <1>1, <1>2, <1>3, <1>4, Zenon DEF MergeUsage

(* A usage that a response reports is whole.                               *)
LEMMA UsagesWhole ==
  ASSUME NEW u \in Usages
  PROVE  Whole(u)
<1>1. Whole(NoUsage)
  BY DEF NoUsage, Whole
<1>2. \A r \in Reports : Whole(Reported(r))
  BY AccountsAssumption DEF Reported, Whole
<1> QED
  BY <1>1, <1>2 DEF Usages

-----------------------------------------------------------------------------
(* The counter of the month. *)

(* What the first n answers have in all. *)
Totals(b, n) ==
  SumTo([r \in DOMAIN b |-> b[r].usage.prompt], n) + SumTo([r \in DOMAIN b |-> b[r].usage.out], n)

LEMMA TotalsSame ==
  ASSUME NEW b, NEW c, NEW n \in Nat, 1..n \subseteq DOMAIN b, 1..n \subseteq DOMAIN c,
         \A r \in 1..n : b[r].usage = c[r].usage /\ b[r].usage \in Usage
  PROVE  Totals(c, n) = Totals(b, n) /\ Totals(b, n) \in Nat
<1> DEFINE prompt(x) == [r \in DOMAIN x |-> x[r].usage.prompt]
           out(x) == [r \in DOMAIN x |-> x[r].usage.out]
<1>1. \A r \in 1..n :
        /\ prompt(b)[r] = prompt(c)[r] /\ prompt(b)[r] \in Nat
        /\ out(b)[r] = out(c)[r] /\ out(b)[r] \in Nat
  BY DEF Usage
<1>2. \A x : Totals(x, n) = SumTo(prompt(x), n) + SumTo(out(x), n)
  BY DEF Totals
<1> HIDE DEF prompt, out
<1>3. SumTo(prompt(b), n) = SumTo(prompt(c), n) /\ SumTo(out(b), n) = SumTo(out(c), n)
  BY <1>1, SumSame
<1>4. SumTo(prompt(b), n) \in Nat /\ SumTo(out(b), n) \in Nat
  BY <1>1, SumNat
<1> QED
  BY <1>2, <1>3, <1>4

LEMMA TotalsStep ==
  ASSUME NEW b, NEW n \in Nat, 1..(n + 1) \subseteq DOMAIN b, \A r \in 1..(n + 1) : b[r].usage \in Usage
  PROVE  Totals(b, n + 1) = Totals(b, n) + Total(b[n + 1].usage) /\ Totals(b, n) \in Nat
<1> DEFINE prompt == [r \in DOMAIN b |-> b[r].usage.prompt]
           out == [r \in DOMAIN b |-> b[r].usage.out]
<1>1. \A r \in 1..(n + 1) : prompt[r] \in Nat /\ out[r] \in Nat
  BY DEF Usage
<1>2. Total(b[n + 1].usage) = prompt[n + 1] + out[n + 1]
  BY DEF Total
<1>3. \A m : Totals(b, m) = SumTo(prompt, m) + SumTo(out, m)
  BY DEF Totals
<1> HIDE DEF prompt, out
<1>4. SumTo(prompt, n + 1) = SumTo(prompt, n) + prompt[n + 1] /\ SumTo(out, n + 1) = SumTo(out, n) + out[n + 1]
  BY SumStep
<1>5. SumTo(prompt, n) \in Nat /\ SumTo(out, n) \in Nat
  <2>1. \A r \in 1..n : prompt[r] \in Nat /\ out[r] \in Nat
    BY <1>1
  <2> QED
    BY <2>1, SumNat
<1>6. n + 1 \in 1..(n + 1)
  OBVIOUS
<1>7. prompt[n + 1] \in Nat /\ out[n + 1] \in Nat
  BY <1>1, <1>6
<1> QED
  BY <1>2, <1>3, <1>4, <1>5, <1>7

(* An answer that was settled and is not stored yet is in the counter too.   *)
CounterHeld ==
  Totals(bills, ThisRun) + (IF acct.stage = "done" THEN Total(acct.usage) ELSE 0) <= counter

LEMMA CounterMeans == CounterHeld /\ BooksTyped => CounterCovers
<1> SUFFICES ASSUME CounterHeld, BooksTyped PROVE CounterCovers
  OBVIOUS
<1>1. Total(AggregateUsage) = Totals(bills, ThisRun)
  BY DEF Total, AggregateUsage, Totals, ThisRun
<1>2. Totals(bills, ThisRun) \in Nat
  <2>1. ThisRun \in Nat /\ DOMAIN bills = 1..ThisRun
    <3>1. bills \in Seq(Range(bills))
      BY DEF BooksTyped
    <3> QED
      BY <3>1 DEF ThisRun
  <2> QED
    BY <2>1, TotalsSame DEF BooksTyped
<1>3. counter \in Nat /\ Total(acct.usage) \in Nat
  BY DEF BooksTyped, Runs, Usage, Total
<1> QED
  BY <1>1, <1>2, <1>3 DEF CounterHeld, CounterCovers

(* The answer under way has no usage yet. *)
LEMMA NotBilled == BooksInv /\ acct.stage # "idle" =>
  /\ ThisRun \in Nat /\ ThisRun > 0 /\ ThisRun \in DOMAIN bills /\ DOMAIN bills = 1..ThisRun
  /\ bills[ThisRun].usage = NoUsage
  /\ \A r \in DOMAIN bills : DOMAIN bills[r] = {"usage", "amount", "price"} /\ bills[r].usage \in Usage
<1> SUFFICES ASSUME BooksInv, acct.stage # "idle"
             PROVE  /\ ThisRun \in Nat /\ ThisRun > 0 /\ ThisRun \in DOMAIN bills /\ DOMAIN bills = 1..ThisRun
                    /\ bills[ThisRun].usage = NoUsage
                    /\ \A r \in DOMAIN bills : DOMAIN bills[r] = {"usage", "amount", "price"} /\ bills[r].usage \in Usage
  OBVIOUS
<1>1. BooksTyped /\ BillsHeld /\ bills \in Seq(Range(bills)) /\ ThisRun > 0
  BY DEF BooksInv, BooksTyped
<1>2. ThisRun \in Nat /\ DOMAIN bills = 1..ThisRun /\ ThisRun \in DOMAIN bills
  BY <1>1 DEF ThisRun
<1>3. bills[ThisRun].usage = NoUsage
  BY <1>1, <1>2 DEF BillsHeld
<1> QED
  BY <1>1, <1>2, <1>3 DEF BooksTyped

(* An answer gets a usage: the others keep theirs. *)
LEMMA BillGets ==
  ASSUME BooksInv, acct.stage # "idle", NEW u \in Usage, bills' = [bills EXCEPT ![ThisRun].usage = u]
  PROVE  /\ DOMAIN bills' = DOMAIN bills /\ ThisRun' = ThisRun
         /\ \A r \in DOMAIN bills : r # ThisRun => bills'[r] = bills[r]
         /\ bills'[ThisRun].usage = u /\ bills'[ThisRun].amount = bills[ThisRun].amount
         /\ bills'[ThisRun].price = bills[ThisRun].price
         /\ Totals(bills', ThisRun) = Totals(bills, ThisRun) + Total(u)
<1>1. /\ ThisRun \in Nat /\ ThisRun > 0 /\ ThisRun \in DOMAIN bills /\ DOMAIN bills = 1..ThisRun
      /\ bills[ThisRun].usage = NoUsage
      /\ \A r \in DOMAIN bills : DOMAIN bills[r] = {"usage", "amount", "price"} /\ bills[r].usage \in Usage
  BY NotBilled
<1>2. DOMAIN bills' = DOMAIN bills /\ \A r \in DOMAIN bills : r # ThisRun => bills'[r] = bills[r]
  OBVIOUS
<1>3. bills'[ThisRun] = [bills[ThisRun] EXCEPT !.usage = u]
  BY <1>1
<1>4. /\ bills'[ThisRun].usage = u /\ bills'[ThisRun].amount = bills[ThisRun].amount
      /\ bills'[ThisRun].price = bills[ThisRun].price
  BY <1>1, <1>3
<1>5. Len(bills') = Len(bills)
  <2>1. bills \in Seq(Range(bills))
    BY DEF BooksInv, BooksTyped
  <2> DEFINE n == ThisRun
             all == {bills'[r] : r \in 1..n}
  <2>2. bills' \in [1..n -> all]
    <3>1. bills' = [r \in 1..n |-> bills'[r]]
      BY <1>1
    <3>2. \A r \in 1..n : bills'[r] \in all
      OBVIOUS
    <3> HIDE DEF all
    <3> QED
      BY <3>1, <3>2
  <2> HIDE DEF all
  <2>3. n \in Nat
    BY <1>1
  <2> HIDE DEF n
  <2>4. Len(bills') = n
    BY <2>2, <2>3
  <2> QED
    BY <2>4 DEF n, ThisRun
<1>6. ThisRun' = ThisRun
  BY <1>5 DEF ThisRun
<1> DEFINE m == ThisRun - 1
<1>7. m \in Nat /\ ThisRun = m + 1 /\ 1..m \subseteq DOMAIN bills /\ 1..(m + 1) \subseteq DOMAIN bills /\ \A r \in 1..m : r # ThisRun
  BY <1>1
<1> HIDE DEF m
<1>8. Totals(bills, m + 1) = Totals(bills, m) + Total(NoUsage) /\ Totals(bills, m) \in Nat
  BY <1>1, <1>7, TotalsStep
<1>9. \A r \in 1..(m + 1) : bills'[r].usage \in Usage
  BY <1>1, <1>2, <1>4, <1>7
<1>10. Totals(bills', m + 1) = Totals(bills', m) + Total(u)
  <2>1. Totals(bills', m + 1) = Totals(bills', m) + Total(bills'[m + 1].usage)
    BY <1>2, <1>7, <1>9, TotalsStep
  <2> QED
    BY <1>4, <1>7, <2>1
<1>11. Totals(bills', m) = Totals(bills, m)
  <2>1. 1..m \subseteq DOMAIN bills' /\ \A r \in 1..m : bills[r].usage = bills'[r].usage /\ bills[r].usage \in Usage
    BY <1>1, <1>2, <1>7
  <2>2. m \in Nat /\ 1..m \subseteq DOMAIN bills
    BY <1>7
  <2> QED
    BY ONLY <2>1, <2>2, TotalsSame
<1>12. Total(NoUsage) = 0 /\ Total(u) \in Nat
  BY DEF Total, NoUsage, Usage
<1>13. Totals(bills', ThisRun) = Totals(bills, ThisRun) + Total(u)
  BY <1>7, <1>8, <1>10, <1>11, <1>12
<1> QED
  BY <1>2, <1>4, <1>6, <1>13

(* A step that is not of an answer leaves the counter and what it covers.    *)
LEMMA CounterStays ==
  ASSUME BooksInv, CounterHeld, UNCHANGED <<bills, counter>>, acct.stage = "done" => acct' = acct, acct'.stage = "done" => acct' = acct
  PROVE  CounterHeld'
<1>1. ThisRun' = ThisRun
  BY DEF ThisRun
<1> QED
  BY <1>1 DEF CounterHeld

(* What a run does before it is settled. *)
Working ==
  FirstLook \/ SingleRequest \/ Round \/ Compaction \/ AskVision \/ Subagent \/ CallsEnd \/ StopRun

LEMMA StillWorking ==
  ASSUME acct \in Runs, Working
  PROVE  /\ UNCHANGED <<streamed, bills, counter>> /\ acct.stage \notin {"idle", "settle", "done"}
         /\ acct'.stage \notin {"idle", "done"} /\ acct'.kind = acct.kind
<1>0. \E s, k, u, n, t : acct = [stage |-> s, kind |-> k, usage |-> u, rounds |-> n, typed |-> t]
  BY Zenon DEF Runs
<1>1. CASE FirstLook
  BY <1>0, <1>1 DEF FirstLook
<1>2. CASE SingleRequest
  BY <1>0, <1>2 DEF SingleRequest
<1>3. CASE Round
  BY <1>0, <1>3 DEF Round
<1>4. CASE Compaction
  BY <1>0, <1>4 DEF Compaction
<1>5. CASE AskVision
  BY <1>0, <1>5 DEF AskVision
<1>6. CASE Subagent
  BY <1>0, <1>6 DEF Subagent
<1>7. CASE CallsEnd \/ StopRun
  BY <1>0, <1>7 DEF CallsEnd, StopRun
<1> QED
  BY <1>1, <1>2, <1>3, <1>4, <1>5, <1>6, <1>7 DEF Working

(* The counter covers what is settled. *)
LEMMA CounterSteps == BooksInv /\ CounterHeld /\ (RunSteps \/ UNCHANGED acvars) => CounterHeld'
<1> SUFFICES ASSUME BooksInv, CounterHeld, RunSteps \/ UNCHANGED acvars PROVE CounterHeld'
  OBVIOUS
<1>0. /\ acct \in Runs /\ acct.usage \in Usage /\ streamed \in Usage /\ counter \in Nat
      /\ Total(NoUsage) = 0 /\ \A u \in Usage : Total(u) \in Nat
  <2>1. acct \in Runs /\ acct.usage \in Usage /\ streamed \in Usage /\ counter \in Nat
    BY DEF BooksInv, BooksTyped, Runs
  <2>2. Total(NoUsage) = 0
    BY DEF Total, NoUsage
  <2>3. \A u \in Usage : Total(u) \in Nat
    BY DEF Total, Usage
  <2> QED
    BY <2>1, <2>2, <2>3
<1>1. /\ bills \in Seq(Range(bills)) /\ ThisRun \in Nat /\ DOMAIN bills = 1..ThisRun
      /\ \A r \in DOMAIN bills : bills[r].usage \in Usage
  <2>1. bills \in Seq(Range(bills)) /\ \A r \in DOMAIN bills : bills[r].usage \in Usage
    BY DEF BooksInv, BooksTyped
  <2> QED
    BY <2>1 DEF ThisRun
<1>2. Totals(bills, ThisRun) \in Nat
  BY <1>1, TotalsSame
<1>3. CASE UNCHANGED acvars
  BY <1>3, CounterStays DEF acvars
<1>4. CASE Working
  BY <1>0, <1>4, StillWorking, CounterStays
<1>5. CASE StartRun
  <2> DEFINE bill == [usage |-> NoUsage, amount |-> -1, price |-> NoPrice]
             n == ThisRun + 1
  <2>1. bills' = Append(bills, bill) /\ counter' = counter /\ acct.stage = "idle" /\ acct'.stage # "done"
    BY <1>5 DEF StartRun, NoRun
  <2>2. bill.usage = NoUsage
    OBVIOUS
  <2> HIDE DEF bill
  <2>3. /\ DOMAIN bills' = 1..n /\ bills'[n] = bill /\ \A r \in DOMAIN bills : bills'[r] = bills[r]
        /\ ThisRun' = n
    <3>1. LET t == Append(bills, bill) IN
          /\ Len(t) = Len(bills) + 1 /\ t \in Seq(Range(t))
          /\ \A i \in DOMAIN bills : t[i] = bills[i]
          /\ t[Len(bills) + 1] = bill
      BY <1>1, Longer
    <3>2. Len(bills') = Len(bills) + 1 /\ bills' \in Seq(Range(bills'))
      BY <2>1, <3>1
    <3>3. DOMAIN bills' = 1..n
      BY <3>2 DEF ThisRun
    <3> QED
      BY <2>1, <3>1, <3>2, <3>3 DEF ThisRun
  <2>4. \A r \in 1..n : bills'[r].usage \in Usage
    BY <1>1, <2>2, <2>3, NoUsageIs
  <2>5. Totals(bills', n) = Totals(bills', ThisRun) + Total(bills'[n].usage)
    BY <1>1, <2>3, <2>4, TotalsStep
  <2>6. Totals(bills', ThisRun) = Totals(bills, ThisRun)
    <3>1. 1..ThisRun \subseteq DOMAIN bills' /\ \A r \in 1..ThisRun : bills[r].usage = bills'[r].usage /\ bills[r].usage \in Usage
      BY <1>1, <2>3
    <3> QED
      BY <1>1, <3>1, TotalsSame
  <2>7. Totals(bills', n) = Totals(bills, ThisRun)
    BY <1>0, <1>2, <2>2, <2>3, <2>5, <2>6
  <2>8. Totals(bills, ThisRun) <= counter
    BY <1>2, <2>1 DEF CounterHeld
  <2>9. Totals(bills', ThisRun') <= counter'
    BY <2>1, <2>3, <2>7, <2>8
  <2> QED
    BY <1>2, <2>1, <2>3, <2>7, <2>9 DEF CounterHeld
<1>6. CASE Settle
  <2>1. /\ counter' = counter + Total(acct.usage) /\ acct.stage = "settle"
        /\ acct'.stage = "done" /\ acct'.usage = acct.usage
    BY <1>0, <1>6 DEF Settle, Runs
  <2>2. PICK a, p : bills' = [bills EXCEPT ![ThisRun].price = p, ![ThisRun].amount = a]
    BY <1>6 DEF Settle
  <2>3. DOMAIN bills' = DOMAIN bills /\ \A r \in DOMAIN bills : bills'[r].usage = bills[r].usage
    <3>1. \A r \in DOMAIN bills : DOMAIN bills[r] = {"usage", "amount", "price"}
      BY DEF BooksInv, BooksTyped
    <3> QED
      BY <2>2, <3>1
  <2>4. ThisRun' = ThisRun
    <3>1. BooksTyped'
      BY <1>6, Settles DEF BooksInv
    <3>2. DOMAIN bills' = 1..Len(bills') /\ Len(bills') \in Nat
      <4>1. bills' \in Seq(Range(bills'))
        BY <3>1 DEF BooksTyped
      <4> QED
        BY <4>1
    <3> QED
      BY <1>1, <2>3, <3>2 DEF ThisRun
  <2>5. Totals(bills', ThisRun) = Totals(bills, ThisRun)
    <3>1. 1..ThisRun \subseteq DOMAIN bills' /\ \A r \in 1..ThisRun : bills[r].usage = bills'[r].usage /\ bills[r].usage \in Usage
      BY <1>1, <2>3
    <3> QED
      BY <1>1, <3>1, TotalsSame
  <2>6. Total(acct.usage) \in Nat /\ Totals(bills, ThisRun) <= counter
    BY <1>0, <1>2, <2>1 DEF CounterHeld
  <2>7. Totals(bills', ThisRun') + Total(acct'.usage) <= counter'
    BY <1>0, <1>2, <2>1, <2>4, <2>5, <2>6
  <2> QED
    BY <2>1, <2>7 DEF CounterHeld
<1>7. CASE ChatDone \/ RunFails
  <2>1. /\ acct.stage # "idle" /\ bills' = [bills EXCEPT ![ThisRun].usage = streamed]
        /\ counter' = counter /\ acct'.stage = "idle"
    BY <1>7 DEF ChatDone, RunFails, NoRun
  <2>2. Total(streamed) = IF acct.stage = "done" THEN Total(acct.usage) ELSE 0
    BY <1>0, <2>1 DEF BooksInv, RunHeld
  <2>3. ThisRun' = ThisRun /\ Totals(bills', ThisRun) = Totals(bills, ThisRun) + Total(streamed)
    BY <1>0, <2>1, BillGets
  <2>4. Totals(bills', ThisRun') <= counter'
    BY <2>1, <2>2, <2>3 DEF CounterHeld
  <2>5. Totals(bills', ThisRun') \in Nat
    BY <1>0, <1>2, <2>3
  <2> QED
    BY <2>1, <2>4, <2>5 DEF CounterHeld
<1>8. CASE AcctProcessEnds
  <2>1. UNCHANGED <<bills, counter>> /\ acct'.stage = "idle" /\ ThisRun' = ThisRun
    BY <1>8 DEF AcctProcessEnds, NoRun, ThisRun
  <2>2. Totals(bills, ThisRun) <= counter
    BY <1>0, <1>2 DEF CounterHeld
  <2> QED
    BY <1>2, <2>1, <2>2 DEF CounterHeld
<1> QED
  BY <1>3, <1>4, <1>5, <1>6, <1>7, <1>8 DEF RunSteps, Working

-----------------------------------------------------------------------------
(* The amounts. *)

(* A row is written for the run: it is in the sum of the run and no other.   *)
LEMMA RowWritten ==
  ASSUME BooksTyped, NEW u, u # NoUsage, NEW c, RecordAttribution(u, c)
  PROVE  \E m : /\ m \notin DOMAIN rows
                /\ rows'[m].price = PriceFor(c) /\ rows'[m].consumer = c
                /\ \A k \in DOMAIN rows : rows'[k] = rows[k]
                /\ \A r : RunRows(r)' = RunRows(r) \cup (IF r = ThisRun THEN {m} ELSE {})
                /\ \A r : RunAmount(r)' = RunAmount(r) + (IF r = ThisRun THEN ComputeCost(u, Mode, PriceFor(c)) ELSE 0)
<1> DEFINE row == Row(u, c)
           n == Len(rows)
           m == n + 1
<1>1. rows' = Append(rows, row)
  BY DEF RecordAttribution
<1>2. row.run = ThisRun /\ row.consumer = c /\ row.price = PriceFor(c) /\ row.amount = ComputeCost(u, Mode, PriceFor(c))
  BY DEF Row
<1> HIDE DEF row
<1>3. /\ n \in Nat /\ DOMAIN rows = 1..n
      /\ Len(rows') = m /\ DOMAIN rows' = DOMAIN rows \cup {m} /\ m \notin DOMAIN rows
      /\ \A k \in DOMAIN rows : rows'[k] = rows[k]
      /\ rows'[m] = row
  <2>1. rows \in Seq(Range(rows))
    BY DEF BooksTyped
  <2>2. LET t == Append(rows, row) IN
        /\ Len(rows) \in Nat /\ DOMAIN rows = 1..Len(rows)
        /\ Len(t) = Len(rows) + 1
        /\ DOMAIN t = DOMAIN rows \cup {Len(rows) + 1} /\ Len(rows) + 1 \notin DOMAIN rows
        /\ \A k \in DOMAIN rows : t[k] = rows[k]
        /\ t[Len(rows) + 1] = row
    BY <2>1, Longer
  <2> QED
    BY <1>1, <2>2
<1>4. ASSUME NEW r PROVE RunRows(r)' = RunRows(r) \cup (IF r = ThisRun THEN {m} ELSE {})
  <2>1. RunRows(r)' = {k \in DOMAIN rows' : rows'[k].run = r}
    BY DEF RunRows
  <2> HIDE DEF m
  <2> QED
    BY <1>2, <1>3, <2>1 DEF RunRows
<1>5. ASSUME NEW r
      PROVE  RunAmount(r)' = RunAmount(r) + (IF r = ThisRun THEN ComputeCost(u, Mode, PriceFor(c)) ELSE 0)
  <2> DEFINE f == [k \in DOMAIN rows |-> IF rows[k].run = r THEN rows[k].amount ELSE 0]
             g == [k \in DOMAIN rows' |-> IF rows'[k].run = r THEN rows'[k].amount ELSE 0]
  <2>1. \A k \in 1..n : f[k] = g[k]
    BY <1>3
  <2>2. g[m] = IF r = ThisRun THEN ComputeCost(u, Mode, PriceFor(c)) ELSE 0
    <3> HIDE DEF m
    <3> QED
      BY <1>2, <1>3
  <2>3. RunAmount(r) = SumTo(f, n) /\ RunAmount(r)' = SumTo(g, m)
    BY <1>3 DEF RunAmount
  <2> HIDE DEF f, g
  <2>4. n \in Nat
    BY <1>3
  <2> HIDE DEF n
  <2>5. SumTo(g, n + 1) = SumTo(f, n) + g[n + 1]
    BY <2>1, <2>4, SumMore
  <2> QED
    BY <2>2, <2>3, <2>5
<1> HIDE DEF m
<1> QED
  BY <1>2, <1>3, <1>4, <1>5

LEMMA NoRowsNoAmount ==
  ASSUME BooksTyped, NEW r, RunRows(r) = {}
  PROVE  RunAmount(r) = 0
<1> DEFINE f == [k \in DOMAIN rows |-> IF rows[k].run = r THEN rows[k].amount ELSE 0]
<1>1. Len(rows) \in Nat /\ DOMAIN rows = 1..Len(rows)
  <2>1. rows \in Seq(Range(rows))
    BY DEF BooksTyped
  <2> QED
    BY <2>1
<1>2. \A k \in 1..Len(rows) : f[k] = 0
  BY <1>1 DEF RunRows
<1>3. RunAmount(r) = SumTo(f, Len(rows))
  BY DEF RunAmount
<1> HIDE DEF f
<1> QED
  BY <1>1, <1>2, <1>3, SumNothing

(* All rows of run r are of the main model at price p.                      *)
AtPrice(r, p) == \A k \in RunRows(r) : rows[k].price = p /\ rows[k].consumer = "main"

(* Answer r costs what its rows cost; and a run with tools does so on the    *)
(* way, whatever the one price of its rows is.                              *)
BillAdds(r) ==
  Flat(bills[r].price) /\ OnePrice(r) => bills[r].amount \in Int /\ bills[r].amount = RunAmount(r)
RunAdds ==
  acct.stage \notin {"idle", "done"} /\ acct.kind = "tools" =>
    \A p \in Tariff : Flat(p) /\ AtPrice(ThisRun, p) => RunAmount(ThisRun) = ComputeCost(acct.usage, Mode, p)
AmountsHeld ==
  /\ Whole(acct.usage) /\ RunAdds
  /\ acct.stage = "done" /\ acct.usage # NoUsage => BillAdds(ThisRun)
  /\ \A r \in DOMAIN bills : bills[r].usage # NoUsage => BillAdds(r)

LEMMA AmountsMean == AmountsHeld => AmountsAdd
  BY DEF AmountsHeld, AmountsAdd, BillAdds, Flat

(* A row of this run, or none, disturbs no other answer;                   *)
LEMMA OthersAdd ==
  ASSUME BooksTyped, NEW u, NEW c, RecordAttribution(u, c),
         NEW r, r # ThisRun, bills'[r] = bills[r], BillAdds(r)
  PROVE  BillAdds(r)'
<1>1. CASE u = NoUsage
  <2>1. rows' = rows
    BY <1>1 DEF RecordAttribution
  <2> QED
    BY <2>1 DEF BillAdds, OnePrice, RunRows, RunAmount
<1>2. CASE u # NoUsage
  <2>0. PICK m : /\ \A k \in DOMAIN rows : rows'[k] = rows[k]
                 /\ \A q : RunRows(q)' = RunRows(q) \cup (IF q = ThisRun THEN {m} ELSE {})
                 /\ \A q : RunAmount(q)' = RunAmount(q) + (IF q = ThisRun THEN ComputeCost(u, Mode, PriceFor(c)) ELSE 0)
    BY <1>2, RowWritten
  <2>1. /\ \A k \in DOMAIN rows : rows'[k] = rows[k]
        /\ RunRows(r)' = RunRows(r)
        /\ RunAmount(r)' = RunAmount(r) + 0
    BY <2>0
  <2>2. RunRows(r) \subseteq DOMAIN rows
    BY DEF RunRows
  <2>3. OnePrice(r)' => OnePrice(r)
    BY <2>1, <2>2 DEF OnePrice
  <2>4. SUFFICES ASSUME Flat(bills'[r].price), OnePrice(r)'
                 PROVE  bills'[r].amount \in Int /\ bills'[r].amount = RunAmount(r)'
    BY DEF BillAdds
  <2>5. bills[r].amount \in Int /\ bills[r].amount = RunAmount(r)
    BY <2>3, <2>4 DEF BillAdds
  <2> QED
    BY <2>1, <2>5
<1> QED
  BY <1>1, <1>2

(* and adds to its run what it adds to the usage.                          *)
LEMMA ToolsAdd ==
  ASSUME BooksTyped, Whole(acct.usage), RunAdds, acct.stage \notin {"idle", "done"}, acct.kind = "tools",
         NEW u \in Usages, NEW c, RecordAttribution(u, c), acct'.usage = MergeUsage(acct.usage, u), ThisRun' = ThisRun
  PROVE  Whole(acct.usage)' /\ RunAdds'
<1>1. acct.usage \in Usage /\ u \in Usage /\ Whole(u)
  BY UsagesAre, UsagesWhole DEF BooksTyped, Runs
<1>2. Whole(acct.usage)'
  <2>1. Whole(MergeUsage(acct.usage, u))
    BY <1>1, WholeMerged
  <2> QED
    BY <2>1
<1>3. ASSUME NEW p \in Tariff, Flat(p), \A k \in RunRows(ThisRun)' : rows'[k].price = p /\ rows'[k].consumer = "main"
      PROVE  RunAmount(ThisRun)' = ComputeCost(acct'.usage, Mode, p)
  <2>1. CASE u = NoUsage
    <3>1. rows' = rows /\ acct'.usage = acct.usage
      BY <1>1, <2>1, NothingMerged DEF RecordAttribution
    <3>2. AtPrice(ThisRun, p)
      BY <1>3, <3>1 DEF AtPrice, RunRows
    <3>3. RunAmount(ThisRun) = ComputeCost(acct.usage, Mode, p)
      BY <1>3, <3>2 DEF RunAdds
    <3>4. RunAmount(ThisRun)' = RunAmount(ThisRun)
      BY <3>1 DEF RunAmount
    <3> QED
      BY <3>1, <3>3, <3>4
  <2>2. CASE u # NoUsage
    <3>1. PICK m : /\ m \notin DOMAIN rows
                   /\ rows'[m].price = PriceFor(c) /\ rows'[m].consumer = c
                   /\ \A k \in DOMAIN rows : rows'[k] = rows[k]
                   /\ \A r : RunRows(r)' = RunRows(r) \cup (IF r = ThisRun THEN {m} ELSE {})
                   /\ \A r : RunAmount(r)' = RunAmount(r) + (IF r = ThisRun THEN ComputeCost(u, Mode, PriceFor(c)) ELSE 0)
      BY <2>2, RowWritten
    <3>2. RunRows(ThisRun)' = RunRows(ThisRun) \cup {m}
      BY <3>1
    <3>3. RunAmount(ThisRun)' = RunAmount(ThisRun) + ComputeCost(u, Mode, PriceFor(c))
      BY <3>1
    <3>4. PriceFor(c) = p
      BY <1>3, <3>1, <3>2
    <3>5. AtPrice(ThisRun, p)
      <4>1. RunRows(ThisRun) \subseteq DOMAIN rows
        BY DEF RunRows
      <4> QED
        BY <1>3, <3>1, <3>2, <4>1 DEF AtPrice
    <3>6. RunAmount(ThisRun) = ComputeCost(acct.usage, Mode, p)
      BY <1>3, <3>5 DEF RunAdds
    <3>7. ComputeCost(MergeUsage(acct.usage, u), Mode, p) = ComputeCost(acct.usage, Mode, p) + ComputeCost(u, Mode, p)
      BY <1>1, <1>3, CostAdds
    <3> QED
      BY <3>3, <3>4, <3>6, <3>7
  <2> QED
    BY <2>1, <2>2
<1>4. RunAdds'
  BY <1>3 DEF RunAdds, AtPrice
<1> QED
  BY <1>2, <1>4

(* Every step keeps the amounts. *)
LEMMA AmountsStay ==
  ASSUME AmountsHeld, UNCHANGED rows, UNCHANGED bills, ThisRun' = ThisRun, acct'.usage = acct.usage,
         acct'.kind = acct.kind, acct'.stage = acct.stage \/ (acct.stage # "idle" /\ acct'.stage # "done" /\ acct.stage # "done")
  PROVE  AmountsHeld'
<1>1. /\ \A r : OnePrice(r)' <=> OnePrice(r)
      /\ \A r : RunAmount(r)' = RunAmount(r)
      /\ \A r, p : AtPrice(r, p)' <=> AtPrice(r, p)
  BY DEF OnePrice, RunRows, RunAmount, AtPrice
<1>2. \A r : BillAdds(r)' <=> BillAdds(r)
  BY <1>1 DEF BillAdds
<1>3. RunAdds'
  BY <1>1 DEF AmountsHeld, RunAdds
<1> QED
  BY <1>2, <1>3 DEF AmountsHeld

LEMMA AmountsSteps ==
  BooksInv /\ PricesKept /\ AmountsHeld /\ (RunSteps \/ UNCHANGED acvars) => AmountsHeld'
<1> SUFFICES ASSUME BooksInv, PricesKept, AmountsHeld, RunSteps \/ UNCHANGED acvars PROVE AmountsHeld'
  OBVIOUS
<1>0. /\ BooksTyped /\ acct \in Runs /\ acct.usage \in Usage /\ streamed \in Usage
      /\ Whole(acct.usage) /\ Whole(NoUsage) /\ RunAdds
      /\ \A r \in DOMAIN bills : bills[r].usage # NoUsage => BillAdds(r)
  BY DEF BooksInv, BooksTyped, Runs, AmountsHeld, Whole, NoUsage
<1>1. /\ bills \in Seq(Range(bills)) /\ ThisRun \in Nat /\ DOMAIN bills = 1..ThisRun
  <2>1. bills \in Seq(Range(bills))
    BY <1>0 DEF BooksTyped
  <2> QED
    BY <2>1 DEF ThisRun
<1>2. CASE UNCHANGED acvars
  <2>1. UNCHANGED rows /\ UNCHANGED bills /\ UNCHANGED acct /\ ThisRun' = ThisRun
    BY <1>2 DEF acvars, ThisRun
  <2> QED
    BY <2>1, AmountsStay
(* A response of a run with tools. *)
<1>3. ASSUME NEW u \in Usages, NEW c, RecordAttribution(u, c), UNCHANGED bills,
             acct.stage \notin {"idle", "done"}, acct'.stage \notin {"idle", "done"},
             acct.kind = "tools", acct'.kind = "tools", acct'.usage = MergeUsage(acct.usage, u)
      PROVE  AmountsHeld'
  <2>1. ThisRun' = ThisRun
    BY <1>3 DEF ThisRun
  <2>2. Whole(acct.usage)' /\ RunAdds'
    BY <1>0, <1>3, <2>1, ToolsAdd
  <2>3. ASSUME NEW r \in DOMAIN bills, bills[r].usage # NoUsage PROVE BillAdds(r)'
    <3>1. r # ThisRun
      BY <1>3, <2>3, NotBilled
    <3> QED
      BY <1>0, <1>3, <2>3, <3>1, OthersAdd
  <2> QED
    BY <1>3, <2>2, <2>3 DEF AmountsHeld
<1>4. CASE StartRun
  <2> DEFINE bill == [usage |-> NoUsage, amount |-> -1, price |-> NoPrice]
             n == ThisRun + 1
  <2>1. /\ bills' = Append(bills, bill) /\ rows' = rows /\ acct.stage = "idle"
        /\ acct'.stage # "done" /\ acct'.usage = NoUsage
    BY <1>4 DEF StartRun, NoRun
  <2>2. bill.usage = NoUsage
    OBVIOUS
  <2> HIDE DEF bill
  <2>3. /\ DOMAIN bills' = DOMAIN bills \cup {n} /\ bills'[n] = bill /\ \A r \in DOMAIN bills : bills'[r] = bills[r]
        /\ ThisRun' = n
    <3>1. LET t == Append(bills, bill) IN
          /\ Len(t) = Len(bills) + 1 /\ DOMAIN t = DOMAIN bills \cup {Len(bills) + 1}
          /\ \A i \in DOMAIN bills : t[i] = bills[i]
          /\ t[Len(bills) + 1] = bill
      BY <1>1, Longer
    <3> QED
      BY <2>1, <3>1 DEF ThisRun
  <2>4. ASSUME NEW r \in DOMAIN bills', bills'[r].usage # NoUsage PROVE BillAdds(r)'
    <3>1. r \in DOMAIN bills /\ bills'[r] = bills[r]
      BY <2>2, <2>3, <2>4
    <3>2. BillAdds(r)
      BY <1>0, <2>4, <3>1
    <3> QED
      BY <2>1, <3>1, <3>2 DEF BillAdds, OnePrice, RunRows, RunAmount
  <2>5. RunAdds'
    <3>1. RunRows(n) = {}
      <4>1. \A k \in DOMAIN rows : \E i \in DOMAIN spent : rows[k].run = spent[i].run /\ spent[i].run \in 1..ThisRun
        BY DEF BooksInv, RowsHeld, BooksTyped
      <4>2. n \notin 1..ThisRun
        BY <1>1
      <4> HIDE DEF n
      <4> QED
        BY <4>1, <4>2 DEF RunRows
    <3>2. RunAmount(n) = 0
      BY <1>0, <3>1, NoRowsNoAmount
    <3>3. RunAmount(ThisRun)' = 0
      BY <2>1, <2>3, <3>2 DEF RunAmount
    <3> QED
      BY <2>1, <3>3, NothingCosts DEF RunAdds
  <2> QED
    BY <1>0, <2>1, <2>4, <2>5 DEF AmountsHeld
<1>5. CASE FirstLook
  <2>1. PICK u \in Usages :
          /\ RecordAttribution(u, "vision")
          /\ acct' = [acct EXCEPT !.stage = "request", !.usage = IF acct.kind = "tools" THEN u ELSE NoUsage]
    BY <1>5 DEF FirstLook
  <2>2. acct.stage = "look" /\ UNCHANGED bills /\ acct.usage = NoUsage /\ u \in Usage
    BY <1>0, <1>5, UsagesAre DEF FirstLook, BooksInv, RunHeld
  <2>3. /\ acct'.stage = "request" /\ acct'.kind = acct.kind
        /\ acct'.usage = IF acct.kind = "tools" THEN u ELSE NoUsage
    BY <1>0, <2>1 DEF Runs
  <2>4. CASE acct.kind = "tools"
    BY <1>3, <2>1, <2>2, <2>3, <2>4, NothingMerged
  <2>5. CASE acct.kind # "tools"
    <3>1. ASSUME NEW r \in DOMAIN bills, bills[r].usage # NoUsage PROVE BillAdds(r)'
      <4>1. r # ThisRun
        BY <2>2, <3>1, NotBilled
      <4> QED
        BY <1>0, <2>1, <2>2, <3>1, <4>1, OthersAdd
    <3> QED
      BY <1>0, <2>2, <2>3, <2>5, <3>1 DEF AmountsHeld, RunAdds
  <2> QED
    BY <2>4, <2>5
<1>6. CASE SingleRequest
  <2>1. PICK u \in Usages : acct' = [acct EXCEPT !.stage = "settle", !.usage = u]
    BY <1>6 DEF SingleRequest
  <2>2. acct.kind # "tools" /\ UNCHANGED rows /\ UNCHANGED bills
    BY <1>6 DEF SingleRequest
  <2>3. acct'.stage = "settle" /\ acct'.kind = acct.kind /\ acct'.usage = u
    BY <1>0, <2>1 DEF Runs
  <2>4. \A r : BillAdds(r)' <=> BillAdds(r)
    BY <2>2 DEF BillAdds, OnePrice, RunRows, RunAmount
  <2> QED
    BY <1>0, <2>2, <2>3, <2>4, UsagesWhole DEF AmountsHeld, RunAdds
<1>7. CASE Round \/ Compaction \/ AskVision \/ Subagent
  <2>1. \E u \in Usages, c \in Consumers :
          RecordAttribution(u, c) /\ acct'.usage = MergeUsage(acct.usage, u)
    <3>1. CASE Round
      <4>1. PICK u \in Usages : LET merged == MergeUsage(acct.usage, u) IN
              /\ RecordAttribution(u, "main")
              /\ \E next \in IF OverBudget(merged) THEN {"settle"} ELSE {"tool", "request", "settle"} :
                   acct' = [acct EXCEPT !.stage = next, !.usage = merged, !.rounds = @ + 1]
        BY <3>1 DEF Round
      <4>2. acct'.usage = MergeUsage(acct.usage, u)
        BY <1>0, <4>1 DEF Runs
      <4> QED
        BY <4>1, <4>2 DEF Consumers
    <3>2. CASE Compaction
      BY <1>0, <3>2 DEF Compaction, Runs, Consumers
    <3>3. CASE AskVision
      BY <1>0, <3>3 DEF AskVision, Runs, Consumers
    <3>4. CASE Subagent
      BY <1>0, <3>4 DEF Subagent, Runs, Consumers
    <3> QED
      BY <1>7, <3>1, <3>2, <3>3, <3>4
  <2>2. acct.kind = "tools"
    BY <1>7 DEF Round, Compaction, AskVision, Subagent, BooksInv, RunHeld
  <2>3. /\ UNCHANGED bills /\ acct.stage \notin {"idle", "settle", "done"}
        /\ acct'.stage \notin {"idle", "done"} /\ acct'.kind = acct.kind
    BY <1>0, <1>7, StillWorking DEF Working
  <2> QED
    BY <1>3, <2>1, <2>2, <2>3
<1>8. CASE CallsEnd \/ StopRun
  <2>1. UNCHANGED rows /\ UNCHANGED bills /\ acct'.usage = acct.usage /\ ThisRun' = ThisRun
    BY <1>0, <1>8 DEF CallsEnd, StopRun, Runs, ThisRun
  <2>2. acct.stage \notin {"idle", "settle", "done"} /\ acct'.stage \notin {"idle", "done"} /\ acct'.kind = acct.kind
    BY <1>0, <1>8, StillWorking DEF Working
  <2> QED
    BY <2>1, <2>2, AmountsStay
<1>9. CASE Settle
  <2> DEFINE u == acct.usage
             n == ThisRun
             price == PriceFor("main")
             amount == IF u = NoUsage THEN -1 ELSE ComputeCost(u, Mode, price)
  <2>1. /\ acct.stage = "settle" /\ acct'.stage = "done" /\ acct'.usage = u
        /\ bills' = [bills EXCEPT ![n].price = price, ![n].amount = amount]
        /\ acct.kind # "tools" => RecordAttribution(u, "main")
        /\ acct.kind = "tools" => rows' = rows
    BY <1>0, <1>9 DEF Settle, Runs, AttributedHere
  <2>2. /\ n \in DOMAIN bills /\ bills[n].usage = NoUsage
        /\ \A r \in DOMAIN bills : DOMAIN bills[r] = {"usage", "amount", "price"}
    BY <2>1, NotBilled
  <2> HIDE DEF price, amount
  <2>3. /\ DOMAIN bills' = DOMAIN bills /\ \A r \in DOMAIN bills : r # n => bills'[r] = bills[r]
        /\ bills'[n].usage = NoUsage /\ bills'[n].price = price /\ bills'[n].amount = amount
    <3>1. bills'[n] = [bills[n] EXCEPT !.price = price, !.amount = amount]
      BY <2>1, <2>2
    <3>2. DOMAIN bills' = DOMAIN bills /\ \A r \in DOMAIN bills : r # n => bills'[r] = bills[r]
      BY <2>1
    <3> QED
      BY <2>2, <3>1, <3>2
  <2>4. ThisRun' = n
    <3>1. BooksTyped'
      BY <1>9, Settles DEF BooksInv
    <3>2. DOMAIN bills' = 1..Len(bills') /\ Len(bills') \in Nat
      <4>1. bills' \in Seq(Range(bills'))
        BY <3>1 DEF BooksTyped
      <4> QED
        BY <4>1
    <3> QED
      BY <1>1, <2>3, <3>2 DEF ThisRun
  <2>5. ASSUME NEW r \in DOMAIN bills', bills'[r].usage # NoUsage PROVE BillAdds(r)'
    <3>1. r \in DOMAIN bills /\ r # ThisRun /\ bills'[r] = bills[r]
      BY <2>3, <2>5
    <3>2. BillAdds(r)
      BY <1>0, <2>5, <3>1
    <3>3. CASE acct.kind = "tools"
      BY <2>1, <3>1, <3>2, <3>3 DEF BillAdds, OnePrice, RunRows, RunAmount
    <3>4. CASE acct.kind # "tools"
      BY <1>0, <2>1, <3>1, <3>2, <3>4, OthersAdd
    <3> QED
      BY <3>3, <3>4
  <2>6. price \in Tariff
    BY <1>0, PriceIsKnown DEF price
  <2>7. ASSUME u # NoUsage, Flat(price),
               \A k \in RunRows(n)' : rows'[k].price = price /\ rows'[k].consumer = "main"
        PROVE  amount \in Int /\ amount = RunAmount(n)'
    <3>1. amount = ComputeCost(u, Mode, price)
      BY <2>7 DEF amount
    <3>2. amount \in Int
      BY <1>0, <2>6, <2>7, <3>1, CostAdds
    <3>3. CASE acct.kind = "tools"
      <4>1. RunAmount(n)' = RunAmount(n) /\ RunRows(n)' = RunRows(n)
        BY <2>1, <2>4, <3>3 DEF RunAmount, RunRows
      <4>2. AtPrice(n, price)
        BY <2>1, <2>7, <3>3, <4>1 DEF AtPrice
      <4> QED
        BY <1>0, <2>1, <2>6, <2>7, <3>1, <3>2, <3>3, <4>1, <4>2 DEF RunAdds
    <3>4. CASE acct.kind # "tools"
      <4>0. RecordAttribution(u, "main")
        BY <2>1, <3>4
      <4> HIDE DEF u
      <4>1. PICK m : /\ m \notin DOMAIN rows
                     /\ rows'[m].price = PriceFor("main") /\ rows'[m].consumer = "main"
                     /\ \A k \in DOMAIN rows : rows'[k] = rows[k]
                     /\ \A r : RunRows(r)' = RunRows(r) \cup (IF r = ThisRun THEN {m} ELSE {})
                     /\ \A r : RunAmount(r)' = RunAmount(r) + (IF r = ThisRun THEN ComputeCost(u, Mode, PriceFor("main")) ELSE 0)
        BY <1>0, <2>7, <4>0, RowWritten
      <4>2. /\ RunRows(n)' = RunRows(n) \cup {m}
            /\ RunAmount(n)' = RunAmount(n) + amount
        BY <2>4, <3>1, <4>1 DEF price
      (* Rows before were of the first look, and not at this price. *)
      <4>3. RunRows(n) = {}
        <5> SUFFICES ASSUME NEW k \in RunRows(n) PROVE FALSE
          OBVIOUS
        <5>1. k \in DOMAIN rows /\ rows[k].run = n
          BY DEF RunRows
        <5>2. rows[k].consumer = "main"
          BY <2>7, <4>1, <4>2, <5>1
        <5>3. PICK i \in DOMAIN spent :
                rows[k].of = <<i>> /\ rows[k].run = spent[i].run /\ rows[k].consumer = spent[i].consumer
          BY <5>1 DEF BooksInv, RowsHeld
        <5>4. i \in Charged(ThisRun) /\ HasRow(i)
          BY <5>1, <5>2, <5>3 DEF Charged, HasRow
        <5>5. \A j \in Charged(ThisRun) : ~HasRow(j)
          BY <2>1, <3>4 DEF BooksInv, RunHeld
        <5> QED
          BY <5>4, <5>5
      <4>4. RunAmount(n) = 0
        BY <1>0, <4>3, NoRowsNoAmount
      <4> QED
        BY <3>2, <4>2, <4>4
    <3> QED
      BY <3>2, <3>3, <3>4
  <2>8. acct'.usage # NoUsage => BillAdds(ThisRun)'
    <3> SUFFICES ASSUME u # NoUsage, Flat(bills'[n].price), OnePrice(n)'
                 PROVE  bills'[n].amount \in Int /\ bills'[n].amount = RunAmount(n)'
      BY <2>1, <2>4 DEF BillAdds
    <3>1. \A k \in RunRows(n)' : rows'[k].price = price /\ rows'[k].consumer = "main"
      BY <2>3, <2>4 DEF OnePrice
    <3> QED
      BY <2>3, <2>7, <3>1
  <2> QED
    BY <1>0, <2>1, <2>5, <2>8 DEF AmountsHeld, RunAdds
<1>10. CASE ChatDone \/ RunFails
  <2>1. /\ acct.stage # "idle" /\ bills' = [bills EXCEPT ![ThisRun].usage = streamed]
        /\ rows' = rows /\ acct' = NoRun
    BY <1>10 DEF ChatDone, RunFails
  <2>2. streamed = IF acct.stage = "done" THEN acct.usage ELSE NoUsage
    BY <2>1 DEF BooksInv, RunHeld
  <2>3. /\ DOMAIN bills' = DOMAIN bills
        /\ \A r \in DOMAIN bills : r # ThisRun => bills'[r] = bills[r]
        /\ bills'[ThisRun].usage = streamed /\ bills'[ThisRun].amount = bills[ThisRun].amount
        /\ bills'[ThisRun].price = bills[ThisRun].price
    BY <1>0, <2>1, BillGets
  <2>4. ASSUME NEW r \in DOMAIN bills', bills'[r].usage # NoUsage PROVE BillAdds(r)'
    <3>1. BillAdds(r) /\ bills'[r].amount = bills[r].amount /\ bills'[r].price = bills[r].price
      BY <1>0, <2>2, <2>3, <2>4 DEF AmountsHeld
    <3> QED
      BY <2>1, <3>1 DEF BillAdds, OnePrice, RunRows, RunAmount
  <2>5. acct'.stage = "idle" /\ acct'.usage = NoUsage
    BY <2>1 DEF NoRun
  <2> QED
    BY <1>0, <2>4, <2>5 DEF AmountsHeld, RunAdds
<1>11. CASE AcctProcessEnds
  <2>1. rows' = rows /\ bills' = bills /\ acct'.stage = "idle" /\ acct'.usage = NoUsage
    BY <1>11 DEF AcctProcessEnds, NoRun
  <2>2. \A r : BillAdds(r)' <=> BillAdds(r)
    BY <2>1 DEF BillAdds, OnePrice, RunRows, RunAmount
  <2> QED
    BY <1>0, <2>1, <2>2 DEF AmountsHeld, RunAdds
<1> QED
  BY <1>2, <1>4, <1>5, <1>6, <1>7, <1>8, <1>9, <1>10, <1>11 DEF RunSteps

-----------------------------------------------------------------------------
LEMMA SumsBegin == AcctInit => CounterHeld /\ AmountsHeld
<1> SUFFICES ASSUME AcctInit PROVE CounterHeld /\ AmountsHeld
  OBVIOUS
<1>1. /\ acct.stage = "idle" /\ acct.usage = NoUsage /\ bills = <<>> /\ counter = 0
  BY DEF AcctInit, NoRun
<1>2. ThisRun = 0 /\ DOMAIN bills = {}
  BY <1>1 DEF ThisRun
<1>3. Totals(bills, 0) = 0
  BY SumStep DEF Totals
<1>4. Whole(acct.usage)
  BY <1>1 DEF Whole, NoUsage
<1>5. CounterHeld
  BY <1>1, <1>2, <1>3 DEF CounterHeld
<1> QED
  BY <1>1, <1>2, <1>4, <1>5 DEF AmountsHeld, RunAdds

LEMMA TiersMean == PricesKept => TiersFit
<1> SUFFICES ASSUME PricesKept, NEW k \in DOMAIN overrides, NEW t \in Range(overrides[k].tiers)
             PROVE  SelectRates(overrides[k], t.max).max = t.max
  BY DEF TiersFit
<1>1. overrides[k] \in Tariff /\ Ascending(overrides[k].tiers)
  BY DEF PricesKept, Offered
<1> QED
  BY <1>1, FirstFits

(* The sums: the counter of the month has at least what the answers have;    *)
(* an answer costs what the rows of its run cost, if they had one price     *)
(* without tiers; and of the tiers of a captured price a request is charged *)
(* the smallest that holds it (commands.rs and App.tsx settle an answer,    *)
(* agent_loop.rs and commands.rs price the rows, token-accounting lib.rs    *)
(* compute_cost_summary_priced and select_rates, pricing_capture.rs         *)
(* parse_extraction).                                                      *)
THEOREM BooksAddUp == AccountsSpec => [](CounterCovers /\ AmountsAdd /\ TiersFit)
<1> DEFINE Inv == PricesKept /\ BooksInv /\ CounterHeld /\ AmountsHeld
<1>1. PricingInit /\ AcctInit => Inv
  BY PricesBegin, BooksBegin, SumsBegin
<1>2. Inv /\ [AccountsNext]_<<prvars, acvars>> => Inv'
  <2> SUFFICES ASSUME PricesKept, BooksInv, CounterHeld, AmountsHeld, [AccountsNext]_<<prvars, acvars>>
               PROVE  PricesKept' /\ BooksInv' /\ CounterHeld' /\ AmountsHeld'
    OBVIOUS
  <2>1. CASE RunSteps /\ UNCHANGED prvars
    BY <2>1, PricesMove, RunsOn, CounterSteps, AmountsSteps
  <2>2. CASE PricingNext /\ UNCHANGED acvars
    BY <2>2, PricesMove, BooksStay, CounterSteps, AmountsSteps
  <2>3. CASE UNCHANGED <<prvars, acvars>>
    <3>1. UNCHANGED prvars /\ UNCHANGED acvars
      BY <2>3
    <3> QED
      BY <3>1, PricesMove, BooksStay, CounterSteps, AmountsSteps
  <2> QED
    BY <2>1, <2>2, <2>3 DEF AccountsNext
<1>3. Inv => CounterCovers /\ AmountsAdd /\ TiersFit
  BY CounterMeans, AmountsMean, TiersMean DEF BooksInv
<1> HIDE DEF Inv
<1> QED
  BY <1>1, <1>2, <1>3, PTL DEF AccountsSpec

-----------------------------------------------------------------------------
(* The price that is applied is the price that is charged. *)

(* The spellings there are, of models registered and read off a page; and   *)
(* that the aliases of the code are those of the platform: two spellings    *)
(* have one key exactly when the platform bills one model for both.         *)
Spellings == Registered \cup UNION {{a[i].model : i \in DOMAIN a} : a \in Answers}
AliasesAreThePlatforms ==
  \A s, t \in Spellings : CanonicalId(s) = CanonicalId(t) <=> Logical[s.name] = Logical[t.name]

(* Table t says of key a what table u says of key b. *)
SaySame(t, a, u, b) ==
  /\ a \in DOMAIN t <=> b \in DOMAIN u
  /\ a \in DOMAIN t => t[a] = u[b]

ReadOff == \A i \in DOMAIN capture.diffs : capture.diffs[i].model \in Spellings
AppliedInv ==
  /\ ReadOff
  /\ \A s \in Registered : SaySame(overrides, CanonicalId(s), applied, Logical[s.name])

(* Rows written to both tables, under keys that agree on them.              *)
LEMMA WrittenSame ==
  ASSUME NEW a, NEW b, NEW written, SaySame(overrides, a, applied, b),
         \A i \in written : CanonicalId(capture.diffs[i].model) = a <=> Logical[capture.diffs[i].model.name] = b
  PROVE  SaySame(Upserts(written), a, AppliedNow(written), b)
<1> DEFINE of   == {i \in written : CanonicalId(capture.diffs[i].model) = a}
           off  == {i \in written : Logical[capture.diffs[i].model.name] = b}
           latest == CHOOSE i \in of : \A j \in of : j <= i
           k == Upserts(written)
           l == AppliedNow(written)
<1>1. off = of
  OBVIOUS
<1>2. /\ DOMAIN k = DOMAIN overrides \cup {CanonicalId(capture.diffs[i].model) : i \in written}
      /\ a \in DOMAIN k => k[a] = IF of = {} THEN overrides[a] ELSE capture.diffs[latest].price
  BY DEF Upserts, Upserted
<1>3. /\ DOMAIN l = DOMAIN applied \cup {Logical[capture.diffs[i].model.name] : i \in written}
      /\ b \in DOMAIN l => l[b] = IF off = {} THEN applied[b]
                                  ELSE capture.diffs[CHOOSE i \in off : \A j \in off : j <= i].price
  BY DEF AppliedNow, Upserted
<1>4. /\ a \in DOMAIN k <=> a \in DOMAIN overrides \/ of # {}
      /\ b \in DOMAIN l <=> b \in DOMAIN applied \/ off # {}
  BY <1>2, <1>3
<1>5. b \in DOMAIN l => l[b] = IF of = {} THEN applied[b] ELSE capture.diffs[latest].price
  <2> HIDE DEF of, off, l
  <2> QED
    BY <1>1, <1>3
<1> HIDE DEF k, l, latest, of, off
<1>6. CASE of = {}
  BY <1>1, <1>2, <1>4, <1>5, <1>6 DEF SaySame, k, l
<1>7. CASE of # {}
  BY <1>1, <1>2, <1>4, <1>5, <1>7 DEF SaySame, k, l
<1> QED
  BY <1>6, <1>7

LEMMA AppliedStep ==
  ASSUME AliasesAreThePlatforms
  PROVE  AppliedInv /\ [PricingNext]_prvars => AppliedInv'
<1> SUFFICES ASSUME AppliedInv, [PricingNext]_prvars PROVE AppliedInv'
  OBVIOUS
<1>0. DOMAIN Shut.diffs = {}
  BY DEF Shut
<1>1. CASE CaptureStarts
  <2>1. UNCHANGED <<overrides, applied>> /\ DOMAIN capture'.diffs = {}
    BY <1>0, <1>1 DEF CaptureStarts
  <2> QED
    BY <2>1 DEF AppliedInv, ReadOff
<1>2. CASE CaptureFails \/ ClosePanel
  <2>1. UNCHANGED <<overrides, applied>> /\ DOMAIN capture'.diffs = {}
    BY <1>0, <1>2 DEF CaptureFails, ClosePanel
  <2> QED
    BY <2>1 DEF AppliedInv, ReadOff
<1>3. CASE CaptureAnswers
  <2>1. PICK answer \in Answers :
          LET entries == ParseExtraction(answer) IN
          capture' = [stage |-> "shown", diffs |-> [i \in DOMAIN entries |-> DiffPricing(entries[i])]]
    BY <1>3 DEF CaptureAnswers
  <2> DEFINE entries == ParseExtraction(answer)
  <2>2. answer \in Seq(Entry)
    BY PricingAssumption
  <2>3. /\ DOMAIN entries = DOMAIN answer /\ DOMAIN answer \subseteq Nat
        /\ \A i \in DOMAIN answer : entries[i].model = answer[i].model
    <3>1. DOMAIN answer \subseteq Nat /\ \A i \in DOMAIN answer : answer[i] \in Entry
      BY <2>2
    <3> QED
      BY <3>1 DEF ParseExtraction, Entry
  <2> HIDE DEF entries
  <2>4. \A i \in DOMAIN capture'.diffs : i \in DOMAIN answer /\ capture'.diffs[i].model = answer[i].model
    BY <2>1, <2>3 DEF entries, DiffPricing
  <2>5. \A i \in DOMAIN answer : answer[i].model \in Spellings
    BY <2>3 DEF Spellings
  <2>6. ReadOff'
    BY <2>4, <2>5 DEF ReadOff
  <2>7. UNCHANGED <<overrides, applied>>
    BY <1>3 DEF CaptureAnswers
  <2> QED
    BY <2>6, <2>7 DEF AppliedInv
<1>4. CASE ApplyPrices
  <2>1. PICK chosen \in SUBSET {i \in DOMAIN capture.diffs : capture.diffs[i].change # "unchanged"},
             n \in 0..Len(capture.diffs) :
               LET written == {i \in chosen : i <= n}
               IN  /\ overrides' = Upserts(written) /\ applied' = AppliedNow(written)
                   /\ capture' = IF written = chosen THEN Shut ELSE capture
    BY <1>4 DEF ApplyPrices
  <2> DEFINE written == {i \in chosen : i <= n}
  <2>2. written \subseteq DOMAIN capture.diffs
    OBVIOUS
  <2>3. overrides' = Upserts(written) /\ applied' = AppliedNow(written)
    BY <2>1
  <2>4. capture' = Shut \/ capture' = capture
    BY <2>1
  <2> HIDE DEF written
  <2>5. ASSUME NEW s \in Registered
        PROVE  SaySame(overrides', CanonicalId(s), applied', Logical[s.name])
    <3>1. \A i \in written : CanonicalId(capture.diffs[i].model) = CanonicalId(s) <=> Logical[capture.diffs[i].model.name] = Logical[s.name]
      BY <2>2 DEF AppliedInv, ReadOff, AliasesAreThePlatforms, Spellings
    <3>2. SaySame(overrides, CanonicalId(s), applied, Logical[s.name])
      BY DEF AppliedInv
    <3>3. SaySame(Upserts(written), CanonicalId(s), AppliedNow(written), Logical[s.name])
      BY <3>1, <3>2, WrittenSame
    <3> QED
      BY <2>3, <3>3
  <2>6. ReadOff'
    BY <1>0, <2>4 DEF AppliedInv, ReadOff
  <2> QED
    BY <2>5, <2>6 DEF AppliedInv
<1>5. CASE ResetPrices
  <2>1. capture' = Shut /\ ((overrides' = <<>> /\ applied' = <<>>) \/ UNCHANGED <<overrides, applied>>)
    BY <1>5 DEF ResetPrices
  <2>2. \A a, b : SaySame(<<>>, a, <<>>, b)
    BY DEF SaySame
  <2> QED
    BY <1>0, <2>1, <2>2 DEF AppliedInv, ReadOff
<1>6. CASE TypePrice \/ UNCHANGED prvars
  BY <1>6 DEF TypePrice, prvars, AppliedInv, ReadOff
<1> QED
  BY <1>1, <1>2, <1>3, <1>4, <1>5, <1>6 DEF PricingNext

(* 写键 == 读键 (presets.rs canonical_model_id, storage                      *)
(* upsert_pricing_override): whatever spelling a model is registered in and *)
(* whatever spelling the page had, it is charged the price applied last     *)
(* since a reset, else the compiled one; if the aliases of the code are     *)
(* those of the platform.                                                   *)
THEOREM AppliedPriceIsCharged ==
  ASSUME AliasesAreThePlatforms
  PROVE  AccountsSpec => []AppliedIsCharged
<1>1. PricingInit => AppliedInv
  <2> SUFFICES ASSUME PricingInit PROVE AppliedInv
    OBVIOUS
  <2>1. overrides = <<>> /\ applied = <<>> /\ DOMAIN capture.diffs = {}
    BY DEF PricingInit, Shut
  <2> QED
    BY <2>1 DEF AppliedInv, ReadOff, SaySame
<1>2. AppliedInv /\ [AccountsNext]_<<prvars, acvars>> => AppliedInv'
  BY AppliedStep DEF AccountsNext
<1>3. AppliedInv => AppliedIsCharged
  BY DEF AppliedInv, SaySame, AppliedIsCharged, CurrentPrice
<1> QED
  BY <1>1, <1>2, <1>3, PTL DEF AccountsSpec

-----------------------------------------------------------------------------
(***************************************************************************)
(* The parts side by side (MCStores): they share no state, so a behaviour  *)
(* of the stores is a behaviour of each part.                              *)
(***************************************************************************)
LEMMA StoresRunParts == StoresSpec => RegSpec /\ RwSpec /\ OkfSpec /\ AccountsSpec
<1> DEFINE storesvars == <<part, regvars, rwvars, wkvars, okfvars, prvars, acvars>>
<1>1. StoresInit => RegInit /\ RwInit /\ WikiInit /\ OkfInit /\ PricingInit /\ AcctInit
  BY DEF StoresInit, RewindInit, WikiStarts, RegistryInit, RegistryRests
<1>2. [StoresNext]_storesvars =>
        /\ [RegNext]_regvars /\ [RwNext]_rwvars
        /\ [OkfNext]_<<wkvars, okfvars>> /\ [AccountsNext]_<<prvars, acvars>>
  <2> SUFFICES ASSUME [StoresNext]_storesvars
               PROVE  /\ [RegNext]_regvars /\ [RwNext]_rwvars
                      /\ [OkfNext]_<<wkvars, okfvars>> /\ [AccountsNext]_<<prvars, acvars>>
    OBVIOUS
  <2>1. CASE UNCHANGED storesvars
    BY <2>1
  <2>2. CASE StoresNext
    BY <2>2 DEF StoresNext, OkfNext, AccountsNext
  <2> QED
    BY <2>1, <2>2
<1> QED
  BY <1>1, <1>2, PTL DEF StoresSpec, RegSpec, RwSpec, OkfSpec, AccountsSpec

(* The stores side by side, for every value of the constants: in every state *)
(* the tables of each hold rows of their kind, a connection and a name have  *)
(* one model, no turn that was cut is in the snapshot that is replayed, and  *)
(* imports stay as long as they are registered (see MCStores).               *)
THEOREM StoresInOrder == StoresSpec => []StoresOK
<1>1. /\ RegTypeOK /\ ModelsUnique /\ RwTypeOK /\ WireWithinTranscript
      /\ WikiTypeOK /\ OkfTypeOK /\ ImportsReadable /\ PricingTypeOK /\ AcctTypeOK
      => StoresOK
  BY DEF StoresOK
<1> QED
  BY <1>1, StoresRunParts, RegTypeCorrect, ModelsAreUnique, TranscriptCorrect, WikiCorrect,
     BundlesCorrect, BooksOfReports, PTL

(* The wiki beside the other stores: pages and fingerprint follow the index  *)
(* through builds cut short, as far as PagesFollowIndex says, summaries are  *)
(* of their section and kept, and the bundle reads back (see WikiCorrect).   *)
THEOREM WikiIsFaithful == StoresSpec => []WikiFaithful
<1>1. PagesFollowIndex /\ SummariesKept /\ BundleRoundTrip => WikiFaithful
  BY DEF WikiFaithful
<1> QED
  BY <1>1, StoresRunParts, WikiCorrect, PTL

(* What the stores promise: a role that is ready has its model, connection   *)
(* and key, the snapshot the agent reads is the database's, neither of the   *)
(* two migrations, nor a process that ends between them, changes an answer,  *)
(* an undo of changes each of which was stored and could be taken back       *)
(* leaves the files as the first of them found them, a rewind cuts what is   *)
(* shown and nothing else, and each report of a model is in the books of its *)
(* consumer once, in the vision ledger if it is a look, and on the bill of   *)
(* its run.                                                                  *)
THEOREM StoresKeepPromises ==
  StoresSpec => /\ [](ChainsComplete /\ SnapshotFresh /\ AttributedOnce /\ LedgerIsVision /\ BillIsItsRows)
                /\ MigrationKeepsAnswers /\ UndoRestores /\ RewindCutsWhatIsShown
BY StoresRunParts, ChainsAreComplete, SnapshotIsFresh, BooksOfReports, MigrationIsFaithful,
   UndoFindsFiles, RewindCutsAlike, PTL

(* The books beside the other stores, whatever is captured, typed and spent: *)
(* they agree with each other and with the prices in force (see              *)
(* BooksOfReports, BooksAddUp and AppliedPriceIsCharged); if the aliases of  *)
(* the code are those of the platform.                                      *)
THEOREM BooksAgreeInStores ==
  ASSUME AliasesAreThePlatforms
  PROVE  StoresSpec => []BooksAgree
<1>1. /\ AttributedOnce /\ LedgerIsVision /\ BillIsItsRows
      /\ CounterCovers /\ AmountsAdd /\ TiersFit /\ AppliedIsCharged
      => BooksAgree
  BY DEF BooksAgree, AccountsAgree
<1> QED
  BY <1>1, StoresRunParts, BooksOfReports, BooksAddUp, AppliedPriceIsCharged, PTL

=============================================================================
