-------------------------------- MODULE Wiki ---------------------------------
(***************************************************************************)
(* The wiki of a workspace (crates/wiki): an index of its source           *)
(* directories kept under .mdga/wiki, rebuilt when the code changed.  The  *)
(* index, one page per section and the fingerprint that says the index is  *)
(* up to date are files written one after the other, while the code        *)
(* changes, a summary of a section is awaited for up to a minute, another  *)
(* conversation builds the same wiki, or the process ends.                 *)
(*                                                                         *)
(* What the analysis says of a directory is a version of it, 0 where it    *)
(* has no source files.  A section is that version and a summary, the      *)
(* version it was made from or 0.  No file and an empty one are the same:  *)
(* nothing is written for a workspace without sources.                     *)
(***************************************************************************)
EXTENDS Naturals, Sequences, FiniteSets

CONSTANTS
  WikiDirs,       \* directories, in the order of their paths
  Builders,       \* conversations that build
  SummaryBudget,  \* requests one build may pay for
  MaxVersion,     \* bounds: versions of a directory,
  MaxTreeEdits, MaxBuilds, MaxWikiEnds   \* changes of the code, builds, ends of the process

ASSUME WikiAssumption ==
  /\ WikiDirs \in Seq(STRING)
  /\ \A i, j \in DOMAIN WikiDirs : WikiDirs[i] = WikiDirs[j] => i = j
  /\ SummaryBudget \in Nat /\ MaxVersion \in Nat \ {0}
  /\ MaxTreeEdits \in Nat /\ MaxBuilds \in Nat /\ MaxWikiEnds \in Nat

VARIABLES
  tree,      \* the code: [directory -> version]
  disk,      \* the files of the wiki, and the temporary ones
  builds,    \* [Builders -> the build under way]
  last,      \* history: the fingerprint of the last build that wrote all its files
  torn,      \* history: "no", "cut": since then one stopped half way, "overlap": or two wrote at once
  edits, started, wiki_ends   \* history, for the bounds

wkvars == <<tree, disk, builds, last, torn, edits, started, wiki_ends>>

TreeDirs == {WikiDirs[i] : i \in DOMAIN WikiDirs}
Versions == 1..MaxVersion
NoFile   == <<>>
First(S) == WikiDirs[CHOOSE i \in DOMAIN WikiDirs :
                       WikiDirs[i] \in S /\ \A j \in 1..(i - 1) : WikiDirs[j] \notin S]

Section   == [version : Versions, summary : 0..MaxVersion]
IsSections(f) == DOMAIN f \subseteq TreeDirs /\ \A d \in DOMAIN f : f[d] \in Section
IsPrint(f)    == DOMAIN f \subseteq TreeDirs /\ \A d \in DOMAIN f : f[d] \in Versions

(* Summaries are stripped before a section is hashed.                      *)
Fingerprint(sections) == [d \in DOMAIN sections |-> sections[d].version]

Idle     == [at |-> "idle"]
Writing  == {"clear", "index.tmp", "index.old", "index", "pages", "print.tmp", "print.old", "print"}
Writers  == {b \in Builders : builds[b].at \in Writing}
Settled  == Writers = {} /\ torn = "no"

WikiInit ==
  /\ tree \in [TreeDirs -> 0..1]
  /\ disk = [index |-> NoFile, print |-> NoFile, pages |-> NoFile, index_tmp |-> NoFile, print_tmp |-> NoFile]
  /\ builds = [b \in Builders |-> Idle]
  /\ last = NoFile /\ torn = "no"
  /\ edits = 0 /\ started = 0 /\ wiki_ends = 0

(* The user or the model changes the code. *)
EditTree ==
  /\ edits < MaxTreeEdits /\ edits' = edits + 1
  /\ \E d \in TreeDirs, v \in 0..MaxVersion : v # tree[d] /\ tree' = [tree EXCEPT ![d] = v]
  /\ UNCHANGED <<disk, builds, last, torn, started, wiki_ends>>

-----------------------------------------------------------------------------
(* A build.                                                                *)

GroupIntoSections ==
  [d \in {d \in TreeDirs : tree[d] # 0} |-> [version |-> tree[d], summary |-> 0]]

(* A summary is found again by what the section was when it was made.       *)
Cached(d, version) ==
  IF d \in DOMAIN disk.index /\ disk.index[d].version = version THEN disk.index[d].summary ELSE 0

(* Without a key, an enriched build is a plain one.                        *)
Kinds == [force : BOOLEAN, enrich : BOOLEAN]

(* The analysis, the comparison with the fingerprint and the old summaries  *)
(* are read before anything is awaited.  Without sources, nothing is built. *)
StartBuild(b) ==
  /\ builds[b].at = "idle" /\ started < MaxBuilds /\ started' = started + 1
  /\ \E kind \in Kinds :
       LET found    == GroupIntoSections
           enrich   == kind.enrich
           sections == [d \in DOMAIN found |->
                          [found[d] EXCEPT !.summary = IF enrich THEN Cached(d, found[d].version) ELSE 0]]
       IN  builds' = [builds EXCEPT ![b] =
             IF found = NoFile THEN Idle
             ELSE [at |-> "summaries", force |-> kind.force, enrich |-> enrich, sections |-> sections,
                   todo |-> IF enrich THEN {d \in DOMAIN found : sections[d].summary = 0} ELSE {},
                   unchanged |-> disk.print = Fingerprint(found),
                   budget |-> SummaryBudget, added |-> FALSE,
                   alone |-> Writers \ {b} = {}]]
  /\ UNCHANGED <<tree, disk, last, torn, edits, wiki_ends>>

(* One paid request; a failure, a timeout or an empty answer leaves the     *)
(* section without a summary, and so does a spent budget.                  *)
Summarize(b) ==
  LET d == First(builds[b].todo)
  IN  /\ builds[b].at = "summaries" /\ builds[b].todo # {}
      /\ \E prose \in {FALSE} \cup (IF builds[b].budget = 0 THEN {} ELSE {TRUE}) :
           builds' = [builds EXCEPT ![b].todo = @ \ {d},
                                    ![b].budget = IF @ = 0 THEN 0 ELSE @ - 1,
                                    ![b].added = @ \/ prose,
                                    ![b].sections[d].summary = IF prose THEN builds[b].sections[d].version ELSE 0]
      /\ UNCHANGED <<tree, disk, last, torn, edits, started, wiki_ends>>

ShouldSkip(b) ==
  ~builds[b].force /\ builds[b].unchanged /\ (~builds[b].enrich \/ ~builds[b].added)

Decided(b) == builds[b].at = "summaries" /\ builds[b].todo = {}

SkipUnchanged(b) ==
  /\ Decided(b) /\ ShouldSkip(b)
  /\ builds' = [builds EXCEPT ![b] = Idle]
  /\ UNCHANGED <<tree, disk, last, torn, edits, started, wiki_ends>>

(* The pages there now are the ones to delete.                             *)
BeginWrite(b) ==
  /\ Decided(b) /\ ~ShouldSkip(b)
  /\ builds' = [c \in Builders |->
       IF c = b THEN [builds[b] EXCEPT !.at = "clear", !.todo = DOMAIN disk.pages, !.alone = Writers = {}]
       ELSE IF builds[c].at = "idle" THEN Idle ELSE [builds[c] EXCEPT !.alone = FALSE]]
  /\ UNCHANGED <<tree, disk, last, torn, edits, started, wiki_ends>>

WithoutPage(d)    == [disk EXCEPT !.pages = [e \in DOMAIN @ \ {d} |-> @[e]]]
WithPage(d, sect) == [disk EXCEPT !.pages = [e \in DOMAIN @ \cup {d} |-> IF e = d THEN sect ELSE @[e]]]

(* One step of a build that writes; next is where it goes from here.        *)
Step(b, at, next, files) ==
  /\ builds[b].at = at /\ disk' = files
  /\ builds' = [builds EXCEPT ![b].at = next]
  /\ UNCHANGED <<tree, last, torn, edits, started, wiki_ends>>

ClearPage(b) ==
  /\ builds[b].at = "clear" /\ builds[b].todo # {}
  /\ builds' = [builds EXCEPT ![b].todo = @ \ {First(@)}]
  /\ disk' = WithoutPage(First(builds[b].todo))
  /\ UNCHANGED <<tree, last, torn, edits, started, wiki_ends>>

PagesCleared(b) == Step(b, "clear", "index.tmp", disk) /\ builds[b].todo = {}

(* write_atomic: a temporary file of one name for all, the old file         *)
(* removed, the temporary one renamed.                                     *)
IndexTmp(b) == Step(b, "index.tmp", "index.old", [disk EXCEPT !.index_tmp = builds[b].sections])
IndexOld(b) == Step(b, "index.old", "index", [disk EXCEPT !.index = NoFile])
IndexRename(b) ==
  /\ disk.index_tmp # NoFile /\ builds[b].at = "index"
  /\ disk' = [disk EXCEPT !.index = disk.index_tmp, !.index_tmp = NoFile]
  /\ builds' = [builds EXCEPT ![b].at = "pages", ![b].todo = DOMAIN builds[b].sections]
  /\ UNCHANGED <<tree, last, torn, edits, started, wiki_ends>>

WritePage(b) ==
  LET d == First(builds[b].todo)
  IN  /\ builds[b].at = "pages" /\ builds[b].todo # {}
      /\ builds' = [builds EXCEPT ![b].todo = @ \ {d}]
      /\ disk' = WithPage(d, builds[b].sections[d])
      /\ UNCHANGED <<tree, last, torn, edits, started, wiki_ends>>

PagesWritten(b) == Step(b, "pages", "print.tmp", disk) /\ builds[b].todo = {}

PrintTmp(b) == Step(b, "print.tmp", "print.old", [disk EXCEPT !.print_tmp = Fingerprint(builds[b].sections)])
PrintOld(b) == Step(b, "print.old", "print", [disk EXCEPT !.print = NoFile])
PrintRename(b) ==
  /\ disk.print_tmp # NoFile /\ builds[b].at = "print"
  /\ disk' = [disk EXCEPT !.print = disk.print_tmp, !.print_tmp = NoFile]
  /\ builds' = [builds EXCEPT ![b] = Idle]
  /\ torn' = IF builds[b].alone THEN "no" ELSE "overlap"
  /\ last' = Fingerprint(builds[b].sections)
  /\ UNCHANGED <<tree, edits, started, wiki_ends>>

(* What a build that stops while it writes leaves.                         *)
Cut(b) == IF builds[b].at \notin Writing THEN torn ELSE IF builds[b].alone /\ torn # "overlap" THEN "cut" ELSE "overlap"

(* The other build took the temporary file: the rename finds none.  Any     *)
(* step may fail on a full disk; the build gives up where it is.           *)
WriteFails(b) ==
  /\ builds[b].at \in Writing
  /\ builds' = [builds EXCEPT ![b] = Idle] /\ torn' = Cut(b)
  /\ UNCHANGED <<tree, disk, last, edits, started, wiki_ends>>

WikiProcessEnds ==
  /\ wiki_ends < MaxWikiEnds /\ wiki_ends' = wiki_ends + 1
  /\ builds' = [b \in Builders |-> Idle]
  /\ torn' = IF Writers = {} THEN torn
             ELSE IF \A b \in Writers : builds[b].alone /\ torn # "overlap" THEN "cut" ELSE "overlap"
  /\ UNCHANGED <<tree, disk, last, edits, started>>

WikiNext ==
  \/ EditTree \/ WikiProcessEnds
  \/ \E b \in Builders :
       \/ StartBuild(b) \/ Summarize(b) \/ SkipUnchanged(b) \/ BeginWrite(b)
       \/ ClearPage(b) \/ PagesCleared(b) \/ IndexTmp(b) \/ IndexOld(b) \/ IndexRename(b)
       \/ WritePage(b) \/ PagesWritten(b) \/ PrintTmp(b) \/ PrintOld(b) \/ PrintRename(b)
       \/ WriteFails(b)

-----------------------------------------------------------------------------
(* Queries.                                                                *)

(* The stored sections or, without any, those of an analysis made now.      *)
QuerySections == IF disk.index # NoFile THEN disk.index ELSE GroupIntoSections

WikiTypeOK ==
  /\ tree \in [TreeDirs -> 0..MaxVersion]
  /\ IsSections(disk.index) /\ IsSections(disk.index_tmp) /\ IsSections(disk.pages)
  /\ IsPrint(disk.print) /\ IsPrint(disk.print_tmp) /\ IsPrint(last)
  /\ torn \in {"no", "cut", "overlap"}
  /\ \A b \in Builders : builds[b].at \in Writing \cup {"idle", "summaries"}
  /\ \A b \in Builders : builds[b].at # "idle" =>
       IsSections(builds[b].sections) /\ builds[b].todo \subseteq TreeDirs /\ builds[b].budget \in 0..SummaryBudget

(* What the pages of files d say is what its index says of the section;     *)
(* a page may be missing.                                                  *)
PagesMatch(d) == DOMAIN d.pages \subseteq DOMAIN d.index /\ \A e \in DOMAIN d.pages : d.pages[e] = d.index[e]

(* Unless two builds wrote at once, no page says other than the index, even  *)
(* after any number of builds that stopped half way, and the fingerprint    *)
(* is that of the last build that wrote all its files: other sources than   *)
(* those are never "unchanged".  After a whole build, even over what those  *)
(* that stopped left, all pages and the fingerprint are those of the index. *)
(* It does not say that "unchanged" finds all pages: see PrintVouches.      *)
PagesFollowIndex ==
  Writers = {} /\ torn # "overlap" =>
    /\ PagesMatch(disk)
    /\ disk.print \in {NoFile, last}
    /\ torn = "no" => disk.print = Fingerprint(disk.index) /\ disk.pages = disk.index

(* What the comments of store.rs:79 and 111 promise: the old fingerprint    *)
(* goes first and the new one is written last, so that one on disk marks a  *)
(* whole wiki.  It does not hold: only the pages are removed.  A build of    *)
(* the same sources, forced or for new summaries, that stops half way       *)
(* leaves pages or the index missing under the old fingerprint, and the     *)
(* next build answers "unchanged".                                         *)
PrintVouches ==
  Writers = {} /\ torn # "overlap" /\ disk.print # NoFile =>
    disk.print = Fingerprint(disk.index) /\ disk.pages = disk.index

(* A summary is of the section it is shown with, and an enriched build      *)
(* writes no section without the summary that is stored for it, unless      *)
(* another build writes meanwhile.                                         *)
SummariesKept ==
  /\ \A d \in DOMAIN QuerySections : QuerySections[d].summary \in {0, QuerySections[d].version}
  /\ \A b \in Builders : builds[b].at = "summaries" /\ builds[b].enrich /\ builds[b].alone =>
       \A d \in DOMAIN disk.index \cap DOMAIN builds[b].sections :
         disk.index[d].version = builds[b].sections[d].version /\ disk.index[d].summary # 0 =>
           builds[b].sections[d].summary # 0
=============================================================================
