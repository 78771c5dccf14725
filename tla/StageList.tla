------------------------------ MODULE StageList ------------------------------
(***************************************************************************)
(* The list of what goes into a stage: getStageFileList.                   *)
(*                                                                         *)
(* The files of the packages that are staged are listed; then symlinks     *)
(* that lead to one of them; the package database; static device nodes;    *)
(* and files that no package owns.  Then what belongs to packages that are *)
(* not staged is taken out, standard directories and those above all that  *)
(* is listed are put in, and the user's own lists add to it and take from  *)
(* it.  Directories are read, and maps gone over, in any order.            *)
(*                                                                         *)
(* A path is the sequence of its elements.  Modes, owners and times are    *)
(* left out; so are paths that lead through a symlink to a directory, and  *)
(* a build root that is the host's own root.                               *)
(***************************************************************************)
EXTENDS Filtering, SequencesExt

CONSTANTS
    NameOrder,           \* all names in the order in which they are sorted
    Outside,             \* nodes outside of the build root, by path
    DevDirSetup, DevDirExtend, StageMagic, StandardStageDirs,
    NogoPaths, NogoNames,
    MaxSymlinkChain,
    VdbDir,              \* where the package database has each package
    Matches(_, _),       \* filepath.Match: whether a pattern stands for a name
    None,                \* an option that is not given
    Start                \* what may be in the root and in the user's lists

Elements(s) == {s[k] : k \in DOMAIN s}
Name == Elements(NameOrder)

\* A name comes before those that begin with it.
ASSUME OrderAssumption ==
    /\ NameOrder \in Seq(Seq(STRING))
    /\ \A j, k \in DOMAIN NameOrder :
          /\ NameOrder[j] = NameOrder[k] => j = k
          /\ IsStrictPrefix(NameOrder[j], NameOrder[k]) => j < k
    /\ \A n \in Name : \A k \in 0 .. Len(n) : SubSeq(n, 1, k) \in Name
ASSUME ChainAssumption == MaxSymlinkChain \in Nat \ {0}

NodeKind == {"file", "dir", "symlink", "node", "fifo", "socket"}
NoInode == 0

ASSUME OutsideAssumption ==
    /\ DOMAIN Outside \subseteq Seq(STRING) \ Name
    /\ \A p \in DOMAIN Outside : Outside[p].kind \in NodeKind

\* The program's own lists omit nothing and name no other source.  What the
\* device nodes are like is taken from the list of them; they, and the package
\* database, are in directories in which no links are looked for.
OwnLists == Elements(DevDirSetup) \cup Elements(StageMagic) \cup Elements(StandardStageDirs)
ASSUME OwnListsAssumption ==
    /\ DevDirSetup \in Seq(OwnLists) /\ StageMagic \in Seq(OwnLists)
    /\ StandardStageDirs \in Seq(OwnLists)
    /\ \A line \in OwnLists :
          /\ line.type # "omit" /\ line.name \in Name
          /\ \A k \in DOMAIN line.options : line.options[k].option # "src"
    /\ \A line \in Elements(StandardStageDirs) : ~line.wild
ASSUME DevAssumption ==
    /\ \A line \in Elements(DevDirSetup) :
          /\ ~line.wild
          /\ \A k \in DOMAIN line.options : line.options[k].option # "absent"
          /\ \E p \in NogoPaths : IsStrictPrefix(p, line.name)
    /\ \A x \in DevDirExtend :
          /\ \E line \in Elements(DevDirSetup) : line.name = x.of
          /\ \A line \in Elements(DevDirSetup) : line.name = x.of => line.type = "node"
          /\ x.names \subseteq Name
          /\ \A n \in x.names : \E p \in NogoPaths : IsStrictPrefix(p, n)
ASSUME PathAssumption ==
    /\ NogoPaths \subseteq Seq(STRING) \ {<<>>}
    /\ \A p \in DOMAIN VdbDir :
          /\ VdbDir[p] \in Seq(STRING)
          /\ \E q \in NogoPaths : IsStrictPrefix(q, VdbDir[p])

\* What every build root is like (a file with two names has two links at least),
\* and that Name has all names that the packages and the user's lists make.
ASSUME StartAssumption ==
    \A s \in Start :
        /\ DOMAIN s.root \subseteq Name
        /\ \A p \in DOMAIN s.root : /\ s.root[p].kind \in NodeKind
                                    /\ s.root[p].inode # NoInode
        /\ \A p, q \in DOMAIN s.root :
              /\ s.root[p].kind = "file" /\ s.root[q].kind = "file"
              /\ s.root[p].inode = s.root[q].inode /\ p # q
              => s.root[p].nlink > 1
        /\ s.staged \subseteq DOMAIN s.owns \cap DOMAIN VdbDir
        /\ \A p \in DOMAIN s.owns : s.owns[p] \subseteq Name
        /\ s.userLists \in Seq(Seq(UNION {Elements(list) : list \in Elements(s.userLists)}))
        /\ \A list \in Elements(s.userLists) : \A line \in Elements(list) :
              /\ line.name \in Name /\ line.options \in Seq(Elements(line.options))
              /\ \A k \in DOMAIN line.options : LET o == line.options[k] IN
                    o.option = "src" /\ o.wild =>
                        /\ o.value \in Seq(STRING)
                        /\ \A p \in DOMAIN s.root \cup DOMAIN Outside :
                              IsStrictPrefix(o.value, p)
                                => line.name \o SubSeq(p, Len(o.value) + 1, Len(p)) \in Name

VARIABLES
    root,       \* the build root: a node for each path there is
    owns,       \* the names in each installed package's CONTENTS
    staged,     \* the packages that are staged
    options,    \* what is wanted: some of "vdb" and "dev"
    userLists,  \* the user's lists
    phase,      \* what getStageFileList is at
    entries,    \* entryMap
    excluded,   \* filesExcludedFromStage
    todo,       \* what a loop over a directory or a map has still to go over
    lines,      \* the lines of the present list that are still to be read
    failed,     \* whether a line of the list had an error
    files       \* Files, once the list is final

input == <<root, owns, staged, options>>
vars == <<input, userLists, phase, entries, excluded, todo, lines, failed, files>>

Init == \E s \in Start :
    /\ root = s.root /\ owns = s.owns /\ staged = s.staged
    /\ options = s.options /\ userLists = s.userLists
    /\ phase = "packages"
    /\ entries = <<>> /\ excluded = {} /\ todo = {} /\ lines = <<>>
    /\ failed = FALSE /\ files = <<>>

-----------------------------------------------------------------------------
(* parseLine.  A line has a type, a name and options, each with its value  *)
(* and whether that can be read.  A name or a source that is wild has its  *)
(* wildcards in the last element: it is a directory and a pattern, glob.   *)

Forbidden == [mod |-> {"symlink", "omit"}, uid |-> {"symlink", "omit"},
              src |-> {"symlink", "omit"}, dev |-> {"file", "dir", "symlink", "omit"},
              targ |-> {"file", "dir", "node", "omit"}, absent |-> {"omit"}]

\* processModOption and the others.
Allowed(line, o) ==
    /\ o.option \in DOMAIN Forbidden /\ o.valid
    /\ line.type \notin Forbidden[o.option]
    /\ o.option = "src" => ~line.wild
    /\ o.option = "targ" => ~o.wild

Item(type, name, wild, skip) ==
    [type |-> type, name |-> name, wild |-> wild, glob |-> "*", source |-> None, target |-> None,
     dev |-> FALSE, skip |-> skip, ok |-> TRUE]

\* One mode and one source at most; of several targets the last counts.
ParseLine(line) ==
    LET given(o) == {k \in DOMAIN line.options : line.options[k].option = o}
        last(o) == CHOOSE k \in given(o) : \A j \in given(o) : j <= k
        value(o) == IF given(o) = {} THEN None ELSE line.options[last(o)].value
        once(ks) == \A j, k \in ks : j = k
    IN  [type |-> line.type, name |-> line.name,
         wild |-> line.wild \/ \E k \in given("src") : line.options[k].wild,
         glob |-> IF given("src") = {} THEN line.glob ELSE line.options[last("src")].glob,
         source |-> value("src"), target |-> value("targ"),
         dev |-> given("dev") # {}, skip |-> given("absent") # {},
         ok |-> /\ line.type \in {"file", "dir", "node", "symlink", "tbd", "omit"}
                /\ line.name # <<>>
                /\ \A k \in DOMAIN line.options : Allowed(line, line.options[k])
                /\ once(given("mod")) /\ once(given("src") \cup given("dev"))]

-----------------------------------------------------------------------------
(* addSingleFile.                                                          *)

Node(path) == IF path \in DOMAIN root THEN root[path] ELSE Outside[path]
Exists(path) == path \in DOMAIN root \cup DOMAIN Outside
Kind(path) == IF Exists(path) THEN Node(path).kind ELSE "absent"

Source(e) == IF e.source = None THEN e.name ELSE e.source
TypeGiven(e) == e.type   \* Mutation: the type of the node is not taken over
TypeOf(e) == IF e.type = "tbd" THEN Kind(Source(e)) ELSE e.type

\* Whether the node must be of the type that is asked for.
NeedTypeCheck(e) ==
    CASE e.type = "dir"     -> FALSE
      [] e.type = "symlink" -> e.target = None
      [] e.type = "node"    -> e.source # None \/ ~e.dev
      [] OTHER              -> e.source = None

Skipped(e) == e.skip /\ ~Exists(Source(e))

\* Lstat of a path that goes on below something that is no directory has another
\* error than that the path is missing.
NotADirectory(path) ==
    \E k \in 1 .. Len(path) - 1 : Kind(SubSeq(path, 1, k)) \notin {"absent", "dir", "symlink"}

\* A node that cannot be in a tar file is an error only where types matter.
Unfit(e) ==
    LET kind == Kind(Source(e))
    IN  \/ NotADirectory(Source(e))
        \/ /\ ~Skipped(e)
           /\ \/ e.type = "tbd" /\ kind \in {"absent", "fifo", "socket"}
              \/ e.type # "tbd" /\ NeedTypeCheck(e) /\ kind \notin {"absent", e.type}
              \/ TypeOf(e) = "file" /\ kind = "absent"
              \/ TypeOf(e) = "symlink" /\ e.target = None /\ kind # "symlink"
              \/ TypeOf(e) = "node" /\ ~e.dev /\ kind = "absent"

\* A file that is listed under its own name, and has others.
Inode(e) == IF TypeOf(e) = "file" /\ e.source = None /\ Node(e.name).nlink > 1
            THEN Node(e.name).inode ELSE NoInode

Entry(e) ==
    [type |-> TypeOf(e), source |-> Source(e), inode |-> Inode(e), dev |-> e.dev,
     own |-> e.source = None,   \* nameIsSource
     target |-> IF TypeOf(e) # "symlink" THEN None
                ELSE IF e.target # None THEN e.target ELSE Node(Source(e)).link]

\* The entries with those of the set es added.
With(es) ==
    LET new == {e \in es : ~Skipped(e)}
    IN  [n \in DOMAIN entries \cup {e.name : e \in new} |->
            IF \E e \in new : e.name = n
            THEN Entry(CHOOSE e \in new : e.name = n) ELSE entries[n]]

-----------------------------------------------------------------------------
(* addFiles and removeFiles.                                               *)

Below(dir, paths) == {p \in paths : IsStrictPrefix(dir, p)}

\* globFiles of what the pattern stands for in a directory, and what is below that
\* if recursive; outside of the build root only if a source is given.
GlobFiles(e) ==
    {p \in Below(Source(e), DOMAIN root \cup IF e.source = None THEN {} ELSE DOMAIN Outside) :
        /\ Matches(e.glob, p[Len(Source(e)) + 1])
        /\ e.type = "dir" \/ Len(p) = Len(Source(e)) + 1}

\* addFromWildcard: what it adds, one by one.
Expanded(e) ==
    IF ~e.wild THEN {e}
    ELSE LET dir == Source(e)
             rest(p) == SubSeq(p, Len(dir) + 1, Len(p))
         IN  {[e EXCEPT !.type = "tbd", !.wild = FALSE, !.name = e.name \o rest(p),
                        !.source = IF e.source = None THEN None ELSE p] :
                p \in GlobFiles(e)}

AddFails(es) == es = {} \/ \E e \in es : Unfit(e)

\* removeFiles.  The names found with a wildcard have the path of the build
\* root before them, as those in entryMap do not: nothing is removed.
Without(e) == IF e.wild THEN entries
              ELSE Restrict(entries, DOMAIN entries \ {e.name})

-----------------------------------------------------------------------------
(* The steps of getStageFileList.                                          *)

Goto(next) == phase' = next

\* An error ends it at once.
Stop == /\ Goto("error")
        /\ UNCHANGED <<input, userLists, entries, excluded, todo, lines, failed, files>>

FilesOf(packages) == UNION {owns[p] : p \in packages}
PackageFiles == {Item("tbd", n, FALSE, TRUE) : n \in FilesOf(staged)}

\* addMissingLinks gets to what is not in a directory that is passed over.
Reached(path) ==
    \A k \in 1 .. Len(path) - 1 : /\ SubSeq(path, 1, k) \notin NogoPaths
                                  /\ path[k] \notin NogoNames
Links == {p \in DOMAIN root : root[p].kind = "symlink" /\ Reached(p)}

\* GetInstalledFileInfo, GenerateFileList and UnstagedFileMap.
GenerateFileList ==
    /\ phase = "packages"
    /\ ~\E e \in PackageFiles : Unfit(e)
    /\ entries' = With(PackageFiles)
    /\ excluded' = FilesOf(DOMAIN owns) \ DOMAIN entries'
    /\ todo' = Links
    /\ Goto("links")
    /\ UNCHANGED <<input, userLists, lines, failed, files>>

PackageFileUnfit == /\ phase = "packages"
                    /\ \E e \in PackageFiles : Unfit(e)
                    /\ Stop

\* Where a link leads: path.Join of its directory and what it says.
Joined(dir, target) ==
    FoldLeft(LAMBDA p, x : IF x # ".." THEN Append(p, x)
                           ELSE IF p = <<>> THEN p ELSE Front(p), dir, target)
Target(path) == LET link == root[path].link
                IN  IF link.absolute THEN link.path ELSE Joined(Front(path), link.path)

IsSymlink(path) == path \in DOMAIN root /\ root[path].kind = "symlink"
UltimateTarget(path) ==
    LET at[n \in 0 .. MaxSymlinkChain] ==
          IF n = 0 THEN path ELSE IF IsSymlink(at[n - 1]) THEN Target(at[n - 1]) ELSE at[n - 1]
    IN  at[MaxSymlinkChain]

LeadsSomewhere(l) == Exists(UltimateTarget(l))   \* Mutation: it need not be listed
LeadsToListed(l) == UltimateTarget(l) \in DOMAIN entries

\* addMissingLinks, of one link.  The code goes through a directory in the order
\* in which readdir gives its names; here the links come in any order.
RecoverLink(l) ==
    /\ phase = "links" /\ l \in todo
    /\ l \notin DOMAIN entries => ~IsSymlink(UltimateTarget(l))
    /\ entries' = IF l \notin DOMAIN entries /\ LeadsToListed(l)
                  THEN With({Item("symlink", l, FALSE, FALSE)}) ELSE entries
    /\ todo' = todo \ {l}
    /\ UNCHANGED <<input, userLists, phase, excluded, lines, failed, files>>

ChainTooLong(l) == /\ phase = "links" /\ l \in todo
                   /\ l \notin DOMAIN entries /\ IsSymlink(UltimateTarget(l))
                   /\ Stop

\* AddDirectoriesByName and, of InsertStaticDev, the beginning.
VdbFiles(p) == Expanded(Item("dir", VdbDir[p], TRUE, FALSE))
Vdb == IF "vdb" \in options THEN staged ELSE {}

EndOfLinks ==
    LET more == UNION {VdbFiles(p) : p \in Vdb}
    IN  /\ phase = "links" /\ todo = {}
        /\ \A p \in Vdb : ~AddFails(VdbFiles(p))
        /\ entries' = With(more)
        /\ lines' = IF "dev" \in options THEN DevDirSetup ELSE StageMagic
        /\ Goto(IF "dev" \in options THEN "dev" ELSE "magic")
        /\ UNCHANGED <<input, userLists, excluded, todo, failed, files>>

VdbMissing == /\ phase = "links" /\ todo = {}
              /\ \E p \in Vdb : AddFails(VdbFiles(p))
              /\ Stop

-----------------------------------------------------------------------------
(* ReadUserFileList.  A line with an error is not the end: the others are  *)
(* read as well.                                                           *)

InList == phase \in {"dev", "magic", "standard", "user"} /\ lines # <<>>
Line == ParseLine(Head(lines))

Read(good, es) == /\ InList
                  /\ lines' = Tail(lines)
                  /\ failed' = (failed \/ ~good)
                  /\ entries' = es
                  /\ UNCHANGED <<input, userLists, phase, excluded, todo, files>>

\* A line that is in error is logged and the reading goes on.  A line of which
\* only some names fail adds the others in the code; the list is never used then
\* (ListFailed, EndOfDev and the others), so they are left out.
BadLine == /\ InList
           /\ \/ ~Line.ok
              \/ Line.type = "omit" /\ ~Line.wild /\ Line.name \notin DOMAIN entries
              \/ Line.type # "omit" /\ AddFails(Expanded(Line))
           /\ Read(FALSE, entries)

AddLine == /\ InList
           /\ Line.ok /\ Line.type # "omit" /\ ~AddFails(Expanded(Line))
           /\ Read(TRUE, With(Expanded(Line)))

OmitLine == /\ InList
            /\ Line.ok /\ Line.type = "omit"
            /\ Line.wild \/ Line.name \in DOMAIN entries
            /\ Read(TRUE, Without(Line))

\* Lstat, or the reading of a link or a directory, has an error for a reason of its
\* own: the disk is broken, or what was just found is gone.
LineUnreadable == /\ InList
                  /\ Line.ok /\ Line.type # "omit"
                  /\ Read(FALSE, entries)

EndOfList(list) == phase = list /\ lines = <<>> /\ ~failed

ListFailed == /\ phase \in {"dev", "magic", "standard", "user"}
              /\ lines = <<>> /\ failed
              /\ Stop

\* Such an error elsewhere.
Unreadable == /\ \/ phase \in {"packages", "links"}
                 \/ EndOfList("dev")
                 \/ phase = "parents" /\ todo # {}
              /\ Stop

-----------------------------------------------------------------------------
(* What comes after each list.                                             *)

\* InsertStaticDev: further nodes like one that is listed.  Both lists are the
\* program's own, so that there is always such a one.
DevsLike(x) == {[Item(entries[x.of].type, n, FALSE, FALSE) EXCEPT !.dev = entries[x.of].dev] :
                   n \in x.names}
EndOfDev ==
    /\ EndOfList("dev")
    /\ entries' = With(UNION {DevsLike(x) : x \in DevDirExtend})
    /\ lines' = StageMagic
    /\ Goto("magic")
    /\ UNCHANGED <<input, userLists, excluded, todo, failed, files>>

\* Mutation: the files are taken out while the list is still to be read.
EndOfMagicKept == /\ EndOfList("magic")
                  /\ lines' = StandardStageDirs
                  /\ Goto("standard")
                  /\ UNCHANGED <<input, userLists, entries, excluded, todo, failed, files>>

\* ExcludeFiles.
EndOfMagic ==
    /\ EndOfList("magic")
    /\ entries' = Restrict(entries, DOMAIN entries \ excluded)
    /\ lines' = StandardStageDirs
    /\ Goto("standard")
    /\ UNCHANGED <<input, userLists, excluded, todo, failed, files>>

Dir(path) == IF path = <<>> THEN <<>> ELSE Front(path)

EndOfStandard == /\ EndOfList("standard")
                 /\ todo' = {Dir(n) : n \in DOMAIN entries}
                 /\ Goto("parents")
                 /\ UNCHANGED <<input, userLists, entries, excluded, lines, failed, files>>

\* Mutation: the directory itself, and not those above it.
UpwardsOne(dir) == {dir}

\* A directory and those above it.  The root is gone up to from no other.
Upwards(dir) == IF dir = <<>> THEN {dir} ELSE {SubSeq(dir, 1, k) : k \in 1 .. Len(dir)}

\* AddMissingStageDirs, of one directory.
AddParents(dir) ==
    LET missing == Upwards(dir) \ DOMAIN entries
    IN  /\ phase = "parents" /\ dir \in todo
        /\ entries' = With({Item("dir", d, FALSE, FALSE) : d \in missing})
        /\ todo' = todo \ {dir}
        /\ UNCHANGED <<input, userLists, phase, excluded, lines, failed, files>>

NextUserList ==
    /\ \/ phase = "parents" /\ todo = {}
       \/ EndOfList("user")
    /\ userLists # <<>>
    /\ lines' = Head(userLists)
    /\ userLists' = Tail(userLists)
    /\ Goto("user")
    /\ UNCHANGED <<input, entries, excluded, todo, failed, files>>

\* Mutation: the map is gone over as it is, here from the last name.
FirstOfLast(names) == CHOOSE k \in names : \A j \in names : j <= k

FirstOf(places) == CHOOSE k \in places : \A j \in places : k <= j

\* fixHardlinks: of the files with an inode the first remains a file.
FixHardlinks(sorted) ==
    LET same(k) == {j \in DOMAIN sorted : entries[sorted[j]].inode = entries[sorted[k]].inode}
        listed(k) == [name |-> sorted[k], entry |-> entries[sorted[k]]]
    IN  [k \in DOMAIN sorted |->
            IF entries[sorted[k]].inode = NoInode \/ k = FirstOf(same(k)) THEN listed(k)
            ELSE [listed(k) EXCEPT !.entry.type = "hardlink",
                                   !.entry.target = sorted[FirstOf(same(k))]]]

\* Finalize.
Finalize ==
    /\ \/ phase = "parents" /\ todo = {}
       \/ EndOfList("user")
    /\ userLists = <<>>
    /\ files' = FixHardlinks(Only(NameOrder, DOMAIN entries))
    /\ Goto("done")
    /\ UNCHANGED <<input, userLists, entries, excluded, todo, lines, failed>>

Next == \/ GenerateFileList \/ PackageFileUnfit
        \/ \E l \in todo : RecoverLink(l) \/ ChainTooLong(l) \/ AddParents(l)
        \/ EndOfLinks \/ VdbMissing
        \/ BadLine \/ LineUnreadable \/ AddLine \/ OmitLine \/ ListFailed \/ Unreadable
        \/ EndOfDev \/ EndOfMagic \/ EndOfStandard
        \/ NextUserList \/ Finalize

Spec == Init /\ [][Next]_vars

-----------------------------------------------------------------------------
\* Type correctness.
EntryType == {"file", "dir", "symlink", "node"}
TypeOK ==
    /\ phase \in {"packages", "links", "dev", "magic", "standard", "parents", "user",
                  "done", "error"}
    /\ DOMAIN entries \subseteq Name
    /\ \A n \in DOMAIN entries : entries[n].type \in EntryType
    /\ excluded \subseteq Name /\ todo \subseteq Name
    /\ failed => lines # <<>> \/ phase \in {"dev", "magic", "standard", "user", "error"}

\* Whether the list is the program's own, before the user's lists.
Complete == phase = "parents" /\ todo = {}

\* A name that only packages have that are not staged is in the list as a
\* standard directory or as a directory above what is listed.
UnstagedStayOut ==
    Complete => \A n \in DOMAIN entries \cap excluded :
        \/ \E k \in DOMAIN StandardStageDirs : StandardStageDirs[k].name = n
        \/ entries[n].type = "dir" /\ Below(n, DOMAIN entries) # {}

\* Whatever way and in whatever order names come in and go out again, what is
\* above a listed name is listed, the root perhaps aside.
ParentsListed ==
    Complete => \A n \in DOMAIN entries : \A k \in 1 .. Len(n) :
        SubSeq(n, 1, k) \in DOMAIN entries

\* Whether a list of the program's own names it.
ListsName(n) ==
    \E line \in Elements(StageMagic) \cup Elements(StandardStageDirs) :
        line.name = n \/ (line.wild /\ IsStrictPrefix(line.name, n))

\* The file to which a symlink leads that was not asked for, but found, is in
\* the list, also when what other packages have has been taken out.
FoundLinksLead ==
    Complete => \A l \in (DOMAIN entries \cap Links) \ FilesOf(staged) :
        entries[l].type = "symlink" =>
            ListsName(l) \/ UltimateTarget(l) \in DOMAIN entries

\* Whatever the user's lists leave of the names of a file, the archive has the
\* file once, and every hard link after the name it is a link to.  (A name that
\* is given a source is a file of its own.)
HardlinksFollowFiles ==
    /\ \A k \in DOMAIN files : files[k].entry.type = "hardlink" =>
          \E j \in 1 .. k - 1 :
              /\ files[j].name = files[k].entry.target
              /\ files[j].entry.type = "file"
              /\ Node(files[j].entry.source).inode = Node(files[k].entry.source).inode
    /\ \A j, k \in DOMAIN files :
          /\ files[j].entry.type = "file" /\ files[k].entry.type = "file"
          /\ files[j].entry.own /\ files[k].entry.own
          /\ Node(files[j].name).inode = Node(files[k].name).inode
          => j = k
=============================================================================
