------------------------------ MODULE MCStores ------------------------------
(***************************************************************************)
(* One run for the parts that keep data: the registry of models, the       *)
(* transcript with its file changes, the wiki and the bundles made of it,  *)
(* the prices of the models and the books of what they charge.             *)
(* They share no state, so their state spaces are explored side by side:   *)
(* part says which one moves, the others rest in one state of their own.   *)
(***************************************************************************)
EXTENDS ModelRegistry, Rewind, Okf, Accounts, TLC

CONSTANTS e1, e2, k1, k2, n1, n2

VARIABLE part

(* Older databases: main alone, main and a role that shares its model or    *)
(* has another, with and without a context window; one of 0.0.59, new or    *)
(* upgraded from those (its providers are still there and say something     *)
(* else); and an upgraded one with connections whose roles were taken off.  *)
Order == [main |-> 3, action |-> 1, embed |-> 2]

Older(n, w) == [endpoint |-> e1, key |-> k1, name |-> n, window |-> w, enabled |-> TRUE]
OldProviders ==
  {<<>>} \cup {"main" :> Older(n1, w) : w \in Windows}
    \cup {("main" :> Older(n1, w)) @@ ("action" :> Older(n, 1 - w)) : w \in Windows, n \in Names}

OldConnections == 1 :> [endpoint |-> e1, key |-> k1, billing |-> "api"]
OldAssignments ==
  {("main"  :> [conn |-> 1, name |-> n1, window |-> 1, enabled |-> TRUE]) @@
   ("embed" :> [conn |-> 1, name |-> n1, window |-> 0, enabled |-> on]) : on \in BOOLEAN}

Upgraded == {<<>>, "main" :> [Older(n2, 0) EXCEPT !.key = k2], "main" :> Older(n2, 1)}

RegistryInit ==
  /\ \/ legacy \in OldProviders /\ assignments = <<>> /\ connections = <<>>
     \/ legacy \in Upgraded /\ assignments \in OldAssignments \cup {<<>>} /\ connections = OldConnections
  /\ uuids = Cardinality(DOMAIN connections)
  /\ RegInit

RegistryRests ==
  /\ legacy = <<>> /\ assignments = <<>> /\ connections = <<>> /\ uuids = 0 /\ embedding_on = FALSE
  /\ RegInit

(* A file in the root and one that is not there yet in a directory.        *)
PathsHere == {"a", "x"}
DirOfHere == [p \in PathsHere |-> IF p = "a" THEN Root ELSE "d"]
TriedHere ==
  { [tool |-> "create_file", path |-> "x", text |-> "one"],
    [tool |-> "write_file", path |-> "a", text |-> "two"],
    [tool |-> "apply_multi_patch", edits |-> ("a" :> <<"one", "two">>) @@ ("x" :> <<"one", "two">>)],
    [tool |-> "delete_file", path |-> "a"],
    [tool |-> "move_path", from |-> "a", to |-> "x"],
    [tool |-> "make_dir", dir |-> "d"],
    [tool |-> "delete_dir", dir |-> "d", recursive |-> TRUE] }

RewindInit ==
  /\ fs = [file |-> [p \in Paths |-> IF p = "a" THEN "one" ELSE Absent], dirs |-> {}]
  /\ RwInit

(* Directories whose names the bundle keeps for itself, or shares with the  *)
(* repository root; "root" has sources.                                    *)
DirsHere  == <<".", "index", "root">>
ParentHere == [d \in {".", "index", "root"} |-> IF d = "." THEN "none" ELSE "."]
NotesHere == {<<"notes", "">>}
WikiStarts == WikiInit /\ tree = [d \in TreeDirs |-> IF d = "root" THEN 1 ELSE 0] /\ OkfInit

(* Two builds at once with one change of the code, or three one after the   *)
(* other; only a lone one is forced; the code and the settings change      *)
(* while no files are written.                                             *)
Busy == {b \in Builders : builds[b].at # "idle"}
WikiBounded ==
  /\ part = "wiki" => tree["index"] = 0 /\ tree["."] <= 1 /\ edits + started <= 4
  /\ Cardinality(Busy) > 1 \/ torn = "overlap" => part = "wiki" /\ edits + started <= 3 /\ wiki_ends = 0
  /\ Cardinality(Busy) > 1 => \A b \in Busy : ~builds[b].force
  /\ part = "bundle" => \A d \in TreeDirs : tree[d] <= 1
  /\ part = "bundle" => started <= 2 /\ wiki_ends = 0 /\ torn = "no"
  /\ part = "bundle" => \A b \in Busy : b = "b1" /\ ~builds[b].force /\ ~builds[b].enrich
WritesUndisturbed ==
  (tree' # tree \/ commands' # commands) => Writers = {}

(* Two models of one platform: one has two names, the other a prefix and    *)
(* tiers.  The page is read in full and in any order, with another spelling *)
(* and the same price, without the anchor, and with a price of nothing.     *)
Spelled(n, p)     == [name |-> n, pro |-> p]
Price(i, c, o, t) == [input |-> i, cached |-> c, output |-> o, tiers |-> t]
UpTo(m, i)        == [max |-> m, input |-> i, cached |-> -1, output |-> i]
CompiledHere ==
  <<[model |-> Spelled("flash", FALSE), price |-> Price(2, 1, 3, <<>>)],
    [model |-> Spelled("pro", TRUE), price |-> Price(4, -1, 5, <<UpTo(2, 3), UpTo(4, 4)>>)]>>
RegisteredHere == {Spelled("chat", FALSE), Spelled("pro", FALSE)}
LogicalHere == [n \in {"flash", "chat", "pro"} |-> IF n = "chat" THEN "flash" ELSE n]
RolesHere == [main |-> Spelled("chat", FALSE), vision |-> Spelled("pro", FALSE), subagent |-> Spelled("chat", FALSE)]
Read(n, p, price) == [model |-> Spelled(n, p), price |-> price]
AnswersHere ==
  { <<Read("flash", FALSE, Price(2, 1, 3, <<UpTo(9, 2), UpTo(2, 1)>>)), Read("pro", TRUE, Price(4, -1, 6, <<UpTo(4, 5), UpTo(2, 3)>>))>>,
    <<Read("pro", FALSE, Price(4, 2, 6, <<>>)), Read("chat", FALSE, Price(3, 1, 4, <<>>))>>,
    <<Read("pro", TRUE, Price(4, -1, 6, <<>>)), Read("flash", FALSE, Price(2, 1, 3, <<>>))>>,
    <<Read("flash", FALSE, Price(9, 1, 9, <<>>))>>,
    <<Read("pro", FALSE, Price(0, 1, 1, <<>>))>> }
TypedHere   == {Price(1, 1, 1, <<>>)}
ReportsHere == {[prompt |-> 2, hit |-> 1, miss |-> 1, out |-> 1]}
BooksBounded == price_ops <= 1 /\ (price_ops = 1 => Len(spent) <= 2 /\ Len(bills) <= 1)

(* The second endpoint and the second price list are tried with one key     *)
(* and one model; a third id is not drawn after the migration of a lone     *)
(* role, nor with embeddings on that no endpoint serves.                    *)
(* Three changes in one turn, two in two turns, and when both have ended    *)
(* only if a second has passed and nothing disturbed them; a bubble or an   *)
(* end of the process, not both.  The clock ticks between turns.            *)
Bubbles == {i \in DOMAIN shown : shown[i].id = 0}
Bounded ==
  /\ \A c \in DOMAIN connections :
       /\ connections[c].endpoint # e1 => connections[c].key = k1 /\ Cardinality(DOMAIN connections) = 1
       /\ connections[c].billing # "api" => connections[c].key = k1 /\ Cardinality(DOMAIN models) <= 1
  /\ Cardinality(DOMAIN legacy) = 1 /\ uuids = 3 => Cardinality(DOMAIN connections) = 2 /\ legacy \in Upgraded
  /\ uuids = 3 => ~embedding_on \/ embedding # Nothing
  /\ Cardinality(Bubbles) + ends <= 1
  /\ calls <= IF ids <= 1 /\ now = 0 THEN 3 ELSE 2
  /\ ids = 4 => calls <= 1 \/ (now = 1 /\ spoilt = 0 /\ ends = 0 /\ run = "idle")
  /\ Bubbles # {} => calls <= 1
  /\ ends = 1 => ids <= 1 /\ calls <= 2
  /\ part \in {"wiki", "bundle"} => WikiBounded
  /\ part = "books" => BooksBounded
TicksBetweenTurns == now' # now => run = "idle" /\ undo = NoUndo

StoresInit ==
  /\ RewindInit /\ WikiStarts /\ PricingInit /\ AcctInit
  /\ \/ part = "registry" /\ RegistryInit
     \/ part \in {"rewind", "wiki", "bundle", "external", "prices", "books"} /\ RegistryRests

StoresNext ==
  /\ part' = part
  /\ \/ part = "registry" /\ RegNext /\ UNCHANGED <<rwvars, wkvars, okfvars, prvars, acvars>>
     \/ part = "rewind" /\ RwNext /\ UNCHANGED <<regvars, wkvars, okfvars, prvars, acvars>>
     \/ part = "wiki" /\ WikiNext /\ UNCHANGED <<regvars, rwvars, okfvars, prvars, acvars>>
     \/ /\ part = "bundle" /\ (OwnNext \/ (WikiNext /\ UNCHANGED okfvars))
        /\ UNCHANGED <<regvars, rwvars, prvars, acvars>>
     \/ part = "external" /\ ExternalNext /\ UNCHANGED <<regvars, rwvars, prvars, acvars>>
     \/ part = "prices" /\ PricingNext /\ UNCHANGED <<regvars, rwvars, wkvars, okfvars, acvars>>
     \/ part = "books" /\ AccountsNext /\ UNCHANGED <<regvars, rwvars, wkvars, okfvars>>

StoresSpec == StoresInit /\ [][StoresNext]_<<part, regvars, rwvars, wkvars, okfvars, prvars, acvars>>

(* Every part keeps its tables in order: rows of their kind, one model for  *)
(* each connection and name, no cut turn in the snapshot that is replayed, *)
(* imports kept as long as they are registered.                            *)
StoresOK ==
  /\ part = "registry" => RegTypeOK /\ ModelsUnique
  /\ part = "rewind" => RwTypeOK /\ WireWithinTranscript
  /\ part \in {"wiki", "bundle", "external"} => WikiTypeOK /\ OkfTypeOK /\ ImportsReadable
  /\ part \in {"prices", "books"} => PricingTypeOK /\ AcctTypeOK

(* The wiki on disk and what is made of it: pages and fingerprint follow    *)
(* the index through builds cut short, paid summaries are kept and are of   *)
(* what they are shown with, and every section has a file of its own in the *)
(* bundle (PagesFollowIndex, SummariesKept, BundleRoundTrip).               *)
WikiFaithful ==
  /\ part \in {"wiki", "bundle"} => PagesFollowIndex /\ SummariesKept
  /\ part = "bundle" => BundleRoundTrip

(* The four books of what the models charge agree with each other and with  *)
(* the prices in force: see AttributedOnce, LedgerIsVision, BillIsItsRows,  *)
(* CounterCovers, AmountsAdd, AppliedIsCharged and TiersFit.                *)
BooksAgree == part \in {"prices", "books"} => AccountsAgree
=============================================================================
