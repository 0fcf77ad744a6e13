--------------------------------- MODULE Okf ---------------------------------
(***************************************************************************)
(* The wiki as a bundle of concepts in the Open Knowledge Format           *)
(* (crates/wiki/src/okf.rs): one file per section, the user's own text     *)
(* over the generated one, publishing to a folder, export as a zip, and    *)
(* the bundles of others that are registered for the model to read         *)
(* (apps/desktop/src-tauri/src/commands.rs, tools.rs).                     *)
(*                                                                         *)
(* A file name is a stem and a suffix: <<"root", "">> is root.md,          *)
(* <<"root", "concept">> is root.concept.md.  No directory has a name that *)
(* ends in .concept, so a second suffix is never needed.  The commands are *)
(* synchronous and come one at a time; builds go on beside them.           *)
(***************************************************************************)
EXTENDS Wiki

CONSTANTS
  ParentDir,          \* [directory -> the one it lies in, or "none"]
  Bodies,             \* what the user writes over a concept
  OwnNotes,           \* Markdown files of the user's that a folder may hold
  ImportNames, Theirs,  \* numbers of import directories, folders of the user's with a bundle
  MaxCommands         \* bound

ASSUME OkfAssumption ==
  /\ ParentDir \in [TreeDirs -> TreeDirs \cup {"none"}]
  /\ ImportNames \subseteq Nat /\ MaxCommands \in Nat
  /\ \A n \in OwnNotes : n[2] = ""

VARIABLES
  overlay,     \* .mdga/okf-overlay.json: [file name -> body], empty when it cannot be read
  visibility,  \* "private" or "shared"
  folder,      \* Markdown files of the shared folder: [file name -> content]
  bundles,     \* setting okf_external_bundles
  registered,  \* the copy of it in the process
  imports,     \* directories there under okf-imports
  theirs,      \* folders of the user's that are there
  commands     \* history, for the bound

okfvars  == <<overlay, visibility, folder, bundles, registered, imports, theirs, commands>>

Reserved == {<<"index", "">>, <<"log", "">>}
Stem(d)  == IF d = "." THEN "root" ELSE d
Before(d, e) == \E i, j \in DOMAIN WikiDirs : i < j /\ WikiDirs[i] = d /\ WikiDirs[j] = e

(* Slip: the names the bundle keeps for itself are not set aside. *)
SlipRelPath(d, S) ==
  IF <<Stem(d), "">> \in {<<Stem(e), "">> : e \in {e \in S : Before(e, d)}}
  THEN <<Stem(d), "concept">> ELSE <<Stem(d), "">>

(* The file of a section among the sections S, named in the order of their  *)
(* paths.                                                                  *)
RelPath(d, S) ==
  LET taken == Reserved \cup {<<Stem(e), "">> : e \in {e \in S : Before(e, d)}}
  IN  IF <<Stem(d), "">> \in taken THEN <<Stem(d), "concept">> ELSE <<Stem(d), "">>

(* Links to the files of the parent and the children that have sections.    *)
Related(d, S)   == {RelPath(e, S) : e \in {e \in S : ParentDir[d] = e \/ ParentDir[e] = d}}
Generated(d, S) == [of |-> d, section |-> disk.index[d], links |-> Related(d, S)]
AutoBundle   ==
  LET S    == DOMAIN disk.index
      path == [d \in S |-> RelPath(d, S)]
  IN  [f \in {path[d] : d \in S} |-> Generated(CHOOSE d \in S : path[d] = f, S)]
OwnBundle    ==
  LET auto == AutoBundle
  IN  [f \in DOMAIN auto |-> IF f \in DOMAIN overlay THEN overlay[f] ELSE auto[f]]

RootIndex(bundle) == DOMAIN bundle

(* A concept never takes a reserved name; the index of the bundle is added. *)
BundleFiles(bundle) ==
  [f \in (DOMAIN bundle \ Reserved) \cup {<<"index", "">>} |->
     IF f = <<"index", "">> THEN RootIndex(bundle) ELSE bundle[f]]

(* The two reserved names at the top are not concepts.                     *)
ReadBundle(files) == [f \in DOMAIN files \ Reserved |-> files[f]]

(* Written file by file, up to an error.                                   *)
WriteBundle(files) == {[f \in D |-> files[f]] : D \in SUBSET DOMAIN files}

FileNames == ({Stem(d) : d \in TreeDirs} \X {"", "concept"}) \cup {<<"index", "">>} \cup OwnNotes
Managed   == {<<"import", n>> : n \in ImportNames}
External  == Managed \cup {<<"folder", p>> : p \in Theirs}

OkfInit ==
  /\ overlay = NoFile /\ visibility = "private"
  /\ folder = [f \in OwnNotes |-> "note"]
  /\ bundles = {} /\ registered = {} /\ imports = {} /\ theirs = Theirs
  /\ commands = 0

Command == commands < MaxCommands /\ commands' = commands + 1
OwnUnchanged      == UNCHANGED <<overlay, visibility, folder>>
ExternalUnchanged == UNCHANGED <<bundles, registered, imports, theirs>>

-----------------------------------------------------------------------------
(* The own wiki.                                                           *)

SetOverlay ==
  /\ Command
  /\ \E f \in DOMAIN AutoBundle, body \in Bodies :
       overlay' = [g \in DOMAIN overlay \cup {f} |-> IF g = f THEN body ELSE overlay[g]]
  /\ UNCHANGED <<visibility, folder>> /\ ExternalUnchanged

ClearOverlay ==
  /\ Command
  /\ \E f \in DOMAIN overlay : overlay' = [g \in DOMAIN overlay \ {f} |-> overlay[g]]
  /\ UNCHANGED <<visibility, folder>> /\ ExternalUnchanged

(* The process ends while the overlay is written in place: what is left is  *)
(* no JSON and is read as nothing.                                         *)
OverlayCut ==
  /\ Command /\ disk.index # NoFile /\ overlay' = NoFile
  /\ registered' = bundles
  /\ UNCHANGED <<visibility, folder, bundles, imports, theirs>>

SetOkfSettings(v) ==
  /\ Command /\ visibility' = v
  /\ UNCHANGED <<overlay, folder>> /\ ExternalUnchanged

(* Every Markdown file of the folder is deleted first, the user's own too.  *)
Publish ==
  /\ Command /\ visibility = "shared" /\ disk.index # NoFile
  /\ folder' \in WriteBundle(BundleFiles(OwnBundle))
  /\ UNCHANGED <<overlay, visibility>> /\ ExternalUnchanged

-----------------------------------------------------------------------------
(* Bundles of others.                                                      *)

Register(list) == bundles' = list /\ registered' = list

(* A zip goes to a directory of its own, under a number not yet taken.      *)
FreeImports == {n \in ImportNames : n \notin imports /\ \A m \in ImportNames : m < n => m \in imports}

AddZip ==
  /\ Command
  /\ \E n \in FreeImports :
       imports' = imports \cup {n} /\ Register(bundles \cup {<<"import", n>>})
  /\ UNCHANGED theirs /\ OwnUnchanged

(* A zip that breaks off while it is read, or the end of the process before *)
(* the list is saved: what was unpacked stays, unregistered.  A zip that is *)
(* too large or empty is taken away again.                                 *)
AddZipBreaks ==
  /\ Command
  /\ \E n \in FreeImports, left \in BOOLEAN : imports' = IF left THEN imports \cup {n} ELSE imports
  /\ UNCHANGED <<bundles, registered, theirs>> /\ OwnUnchanged

Here(p) == IF p[1] = "import" THEN p[2] \in imports ELSE p[2] \in theirs

AddDirectory(p) ==
  /\ Command /\ Here(p) /\ Register(bundles \cup {p})
  /\ UNCHANGED <<imports, theirs>> /\ OwnUnchanged

(* The list, then the copy, then the directory, and that only when it is an *)
(* import; the process may end before the last.                            *)
RemoveExternal(p) ==
  /\ Command /\ Register(bundles \ {p})
  /\ \E cleaned \in BOOLEAN :
       imports' = IF cleaned /\ p[1] = "import" THEN imports \ {p[2]} ELSE imports
  /\ UNCHANGED theirs /\ OwnUnchanged

UserDeletesFolder(p) ==
  /\ Command /\ p \in theirs /\ theirs' = theirs \ {p}
  /\ UNCHANGED <<bundles, registered, imports>> /\ OwnUnchanged

(* At start the copy is read from the list.                                *)
OkfStart ==
  /\ Command /\ registered' = bundles
  /\ UNCHANGED <<bundles, imports, theirs>> /\ OwnUnchanged

OwnNext ==
  /\ UNCHANGED wkvars
  /\ \/ SetOverlay \/ ClearOverlay \/ OverlayCut \/ Publish
     \/ \E v \in {"private", "shared"} : SetOkfSettings(v)

ExternalNext ==
  /\ UNCHANGED wkvars
  /\ \/ AddZip \/ AddZipBreaks \/ OkfStart
     \/ \E p \in External : AddDirectory(p) \/ RemoveExternal(p)
     \/ \E p \in Theirs : UserDeletesFolder(p)

OkfNext ==
  \/ OwnNext \/ ExternalNext
  \/ WikiNext /\ UNCHANGED okfvars

OkfSpec == WikiInit /\ OkfInit /\ [][OkfNext]_<<wkvars, okfvars>>

-----------------------------------------------------------------------------
(* What the model may read of others goes by the copy, what the user may    *)
(* browse by the list.                                                     *)
Readable  == {p \in registered : Here(p)}
Browsable == {p \in bundles : Here(p)}

OkfTypeOK ==
  /\ DOMAIN overlay \subseteq FileNames /\ \A f \in DOMAIN overlay : overlay[f] \in Bodies
  /\ visibility \in {"private", "shared"} /\ DOMAIN folder \subseteq FileNames
  /\ bundles \subseteq External /\ imports \subseteq ImportNames /\ theirs \subseteq Theirs

(* A published or exported bundle that is read again has the concepts of    *)
(* the wiki, one for each section, whatever the directories are called: a   *)
(* directory "index" is not taken for the index of the bundle, "root" not   *)
(* for the repository root.                                                *)
BundleRoundTrip ==
  LET own == OwnBundle
  IN  /\ Cardinality(DOMAIN own) = Cardinality(DOMAIN disk.index)
      /\ ReadBundle(BundleFiles(own)) = own
      /\ \A f \in DOMAIN own : f \notin DOMAIN overlay => own[f].links \subseteq DOMAIN own

(* An import is not deleted under its entry, and the model may read what    *)
(* the user may browse, as soon and as long as it is registered.           *)
ImportsReadable == Readable = Browsable /\ bundles \cap Managed \subseteq Readable

(* What a user expects of an edit, and the code does not do: the text is    *)
(* kept by file name, and root.md is another directory's once "." has       *)
(* sources of its own.                                                     *)
EditsStayPut ==
  \A b \in Builders : builds[b].at = "index.tmp" =>
    LET old == DOMAIN disk.index
        new == DOMAIN builds[b].sections
    IN \A d \in old, e \in new : RelPath(d, old) = RelPath(e, new) /\ RelPath(d, old) \in DOMAIN overlay => d = e
=============================================================================
