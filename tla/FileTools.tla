------------------------------ MODULE FileTools ------------------------------
(***************************************************************************)
(* What the file tools do to the workspace (crates/tool-runtime/src/lib.rs)*)
(* and how one call is taken back (apps/desktop/src-tauri/src/             *)
(* checkpoint.rs), as operators on a file system.                          *)
(*                                                                         *)
(* A file system is [file : path -> content or Absent, dirs : directories  *)
(* there]; a path lies in a directory or in the root, which is always      *)
(* there.  The text of a file is a value, and an edit names the text it    *)
(* fits: everywhere else its pattern is missing or not unique.  Paths that *)
(* leave the workspace, links and moves of directories are left out.       *)
(***************************************************************************)
EXTENDS Naturals, Sequences, FiniteSets

CONSTANTS
  Paths, Dirs,
  DirOf,        \* [Paths -> Dirs \cup {Root}]
  Texts,        \* contents
  Big           \* contents past the limits: no snapshot, no edit

Root   == "root"
Absent == "absent"

ASSUME FileToolsAssumption ==
  /\ Root \notin Dirs /\ Absent \notin Texts /\ Big \subseteq Texts
  /\ DirOf \in [Paths -> Dirs \cup {Root}]

Files       == [Paths -> Texts \cup {Absent}]
FileSystems == [file : Files, dirs : SUBSET Dirs]

Exists(fs, p)  == fs.file[p] # Absent
Parent(p)      == IF DirOf[p] = Root THEN {} ELSE {DirOf[p]}
Inside(d)      == {p \in Paths : DirOf[p] = d}
EmptyDir(fs, d) == \A p \in Inside(d) : ~Exists(fs, p)

(* A file is on disk only in a directory that is. *)
Sound(fs) == \A p \in Paths : Exists(fs, p) => Parent(p) \subseteq fs.dirs

WithFile(fs, p, text) == [fs EXCEPT !.file[p] = text]
WithParent(fs, p)     == [fs EXCEPT !.dirs = @ \cup Parent(p)]

-----------------------------------------------------------------------------
(* Calls.  Edits of a multi patch: a partial function from paths to the    *)
(* text that fits and the text that replaces it.                           *)

Edits == UNION {[D -> Texts \X Texts] : D \in SUBSET Paths \ {{}}}

Calls ==
       [tool : {"create_file", "write_file"}, path : Paths, text : Texts]
  \cup [tool : {"edit_file"}, edits : {e \in Edits : Cardinality(DOMAIN e) = 1}]
  \cup [tool : {"apply_multi_patch"}, edits : Edits]
  \cup [tool : {"delete_file"}, path : Paths]
  \cup [tool : {"move_path"}, from : Paths, to : Paths]
  \cup [tool : {"make_dir"}, dir : Dirs]
  \cup [tool : {"delete_dir"}, dir : Dirs, recursive : BOOLEAN]

(* An edit is checked against the text before anything is written. *)
EditFits(fs, p, e) == fs.file[p] = e[1] /\ e[1] \notin Big

CanApply(fs, call) ==
  CASE call.tool = "create_file" -> ~Exists(fs, call.path)
    [] call.tool = "write_file"  -> TRUE
    [] call.tool \in {"edit_file", "apply_multi_patch"} ->
         \A p \in DOMAIN call.edits : EditFits(fs, p, call.edits[p])
    [] call.tool = "delete_file" -> Exists(fs, call.path)
    [] call.tool = "move_path"   -> Exists(fs, call.from) /\ ~Exists(fs, call.to)
    [] call.tool = "make_dir"    -> TRUE
    [] call.tool = "delete_dir"  -> /\ call.dir \in fs.dirs
                                    /\ EmptyDir(fs, call.dir) \/ call.recursive

WriteAll(fs, edits, D) ==
  [fs EXCEPT !.file = [p \in Paths |-> IF p \in D THEN edits[p][2] ELSE @[p]]]

(* Creating, writing and moving make the parent directory.  A call that     *)
(* cannot apply has written nothing.                                       *)
Apply(fs, call) ==
  CASE call.tool \in {"create_file", "write_file"} ->
         WithFile(WithParent(fs, call.path), call.path, call.text)
    [] call.tool \in {"edit_file", "apply_multi_patch"} ->
         WriteAll(fs, call.edits, DOMAIN call.edits)
    [] call.tool = "delete_file" -> WithFile(fs, call.path, Absent)
    [] call.tool = "move_path"   ->
         WithFile(WithFile(WithParent(fs, call.to), call.to, fs.file[call.from]), call.from, Absent)
    [] call.tool = "make_dir"    -> [fs EXCEPT !.dirs = @ \cup {call.dir}]
    [] call.tool = "delete_dir"  ->
         [file |-> [p \in Paths |-> IF DirOf[p] = call.dir THEN Absent ELSE fs.file[p]],
          dirs |-> fs.dirs \ {call.dir}]

(* The writes of a multi patch are one after the other: an I/O error leaves *)
(* some of them.                                                            *)
TornPatches(fs, call) ==
  IF call.tool # "apply_multi_patch" \/ ~CanApply(fs, call) THEN {}
  ELSE {WriteAll(fs, call.edits, D) : D \in SUBSET DOMAIN call.edits \ {DOMAIN call.edits}}

-----------------------------------------------------------------------------
(* The snapshot taken before a call, and what takes the call back.          *)

Snappable(fs, p) == fs.file[p] \notin Big

(* What capture_checkpoint_before keeps: the contents of the files touched, *)
(* the moved paths, and whether the call can be taken back.                 *)
Capture(fs, call) ==
  CASE call.tool = "create_file" ->
         [prev |-> [p \in {call.path} |-> Absent], revertible |-> TRUE]
    [] call.tool = "write_file" ->
         [prev |-> [p \in {call.path} |-> fs.file[p]], revertible |-> Snappable(fs, call.path)]
    [] call.tool \in {"edit_file", "apply_multi_patch"} ->
         [prev |-> [p \in DOMAIN call.edits |-> fs.file[p]],
          revertible |-> \A p \in DOMAIN call.edits : Snappable(fs, p)]
    [] call.tool = "delete_file" ->
         [prev |-> [p \in {call.path} |-> fs.file[p]],
          revertible |-> Exists(fs, call.path) /\ Snappable(fs, call.path)]
    [] call.tool \in {"move_path", "make_dir"} ->
         [prev |-> [p \in {} |-> Absent], revertible |-> TRUE]
    [] call.tool = "delete_dir" ->
         [prev |-> [p \in {} |-> Absent], revertible |-> FALSE]

Restore(fs, prev) ==
  [fs EXCEPT !.file = [p \in Paths |-> IF p \in DOMAIN prev THEN prev[p] ELSE @[p]]]

WithParents(fs, prev) ==
  [fs EXCEPT !.dirs = @ \cup UNION {Parent(p) : p \in {q \in DOMAIN prev : prev[q] # Absent}}]

(* Only a multi patch and a delete make the parent directory again.         *)
CanRevert(fs, call, prev) ==
  CASE call.tool \in {"write_file", "edit_file"} ->
         \A p \in DOMAIN prev : prev[p] # Absent => Parent(p) \subseteq fs.dirs
    [] call.tool = "move_path" -> Exists(fs, call.to) /\ Parent(call.from) \subseteq fs.dirs
    [] OTHER -> TRUE

Revert(fs, call, prev) ==
  CASE call.tool \in {"create_file", "write_file", "edit_file"} -> Restore(fs, prev)
    [] call.tool \in {"apply_multi_patch", "delete_file"} ->
         Restore(WithParents(fs, prev), prev)
    [] call.tool = "move_path" ->
         WithFile(WithFile(fs, call.from, fs.file[call.to]), call.to, Absent)
    [] call.tool = "make_dir" ->
         [fs EXCEPT !.dirs = IF EmptyDir(fs, call.dir) THEN @ \ {call.dir} ELSE @]
=============================================================================
