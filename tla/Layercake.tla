----------------------------- MODULE Layercake -----------------------------
(***************************************************************************)
(* The layer manager of layercake (src/manage), one command at a time.     *)
(*                                                                         *)
(* A command is a process of its own.  It reads every layerconfig file     *)
(* (FindLayers), the processes that use files of the layers                *)
(* (FindLayerUsers) and the mount table and directories                    *)
(* (ProbeAllLayerstate), then checks what it is asked to do against this   *)
(* snapshot and does it.  Here one step is one command from its snapshot   *)
(* to its exit: nothing else happens meanwhile, but its own operations may *)
(* fail half way, which leaves the first of them done.                     *)
(*                                                                         *)
(* The state is what outlives a command: the layers directory, the kernel's*)
(* mount table, and the processes at work in the layers.  A path is the    *)
(* name of the layer it lies in: the overlay mounted on a layer's build    *)
(* root has another layer's build root as its lower directory.             *)
(***************************************************************************)
EXTENDS LayerMap

CONSTANTS Import,      \* the mounts that a layerconfig may ask for
          BaseImport,  \* those whose source is $$base/packages; the others
                       \* have a directory of the host as their source
          Configs,     \* the imports of the layer-configuration files that a
                       \* new layer may be given
          Installs,    \* what may be installed in a layer in one go
          MaxUsers,    \* bound on the places in use at a time
          MaxFilled,   \* bound on the directories with something installed
          Faults       \* "write": opening a layerconfig to write it may fail
                       \* "crash": a command may be killed half way
                       \* "loss": a layer may lose a directory

ASSUME ConfigAssumption == /\ BaseImport \subseteq Import
                           /\ Configs \subseteq SUBSET Import
                           /\ \A cfg \in Configs : IsFiniteSet(cfg)
                           /\ Installs \subseteq SUBSET ({"fhs"} \cup Import)
                           /\ Faults \subseteq {"write", "crash", "loss"}

\* The layers are the layer directories that hold a layerconfig file; base is
\* what each file names as its base.
VARIABLES
    imports,  \* the imports each layerconfig file lists
    dirs,     \* the build root and the two overlayfs directories each has
    content,  \* what is installed in a layer's build root and in its upper
              \* directory: the minimal build directories ("fhs") and
              \* mountpoints of imports
    packages, \* the layers whose directory has a packages directory
    links,    \* the layer names under which export/packages has a symlink
    overlay,  \* the lower layer of the overlay on a layer's build root
    binds,    \* the imports mounted in a layer's build root, each with the
              \* layer whose packages directory is its source (or NoBase)
    users,    \* the places in layers that processes use
    host      \* the imports whose host directory exists

treeVars == <<layers, base, imports>>
diskVars == <<dirs, content, packages, links>>
mountVars == <<overlay, binds>>
envVars == <<users, host>>
vars == <<treeVars, diskVars, mountVars, envVars>>

HostImport == Import \ BaseImport
Content == {"fhs"} \cup Import
Installed == {"build", "upper"} \X Content
LayerDir == {"build", "work", "upper"}

\* The directories that have something installed in them.
Filled == {d \in Layer \X {"build", "upper"} : \E c \in content[d[1]] : c[1] = d[2]}

\* Where in a layer a process has a file open, its root or its directory: in
\* one of the three directories of LayerDir, or elsewhere in the layer.
Place == {"mount", "other"}

TypeOK ==
    /\ layers \subseteq Layer
    /\ base \in [Layer -> Layer \cup {NoBase}]
    /\ imports \in [Layer -> SUBSET Import]
    /\ dirs \in [Layer -> SUBSET LayerDir]
    /\ content \in [Layer -> SUBSET Installed]
    /\ packages \subseteq Layer
    /\ links \subseteq Layer
    /\ overlay \in [Layer -> Layer \cup {NoBase}]
    /\ binds \in [Layer -> SUBSET (Import \X (Layer \cup {NoBase}))]
    /\ users \subseteq Layer \X Place
    /\ host \subseteq HostImport

\* layercake init: the base directory is there, without a layer in it.
Init ==
    /\ layers = {}
    /\ base = [l \in Layer |-> NoBase]
    /\ imports = [l \in Layer |-> {}]
    /\ dirs = [l \in Layer |-> {}]
    /\ content = [l \in Layer |-> {}]
    /\ packages = {}
    /\ links = {}
    /\ overlay = [l \in Layer |-> NoBase]
    /\ binds = [l \in Layer |-> {}]
    /\ users = {}
    /\ host = HostImport

-----------------------------------------------------------------------------
(* The snapshot: FindLayers, FindLayerUsers, ProbeAllLayerstate.           *)

\* FindLayers returns no error.  Every command begins with it, and ends there
\* when it does.
Loadable == Inheritable(layers, base)

Chain(l) == AncestorsAndSelf(layers, base, l)
Root(l) == RootOf(layers, base, l)

\* ProbeAllLayerstate goes on to the users and mounts of a layer only if its
\* build root is there and, in a derived layer, work or upper directory is.
Probed(l) == /\ "build" \in dirs[l]
             /\ base[l] = NoBase \/ dirs[l] \cap {"work", "upper"} # {}

\* The mount table's view of a layer: layer.Mounts is not empty, and some
\* overlay has the layer's build root as its lower directory.
MountedOnRoot(l) == Probed(l) /\ overlay[l] # NoBase  \* Mutation: GetMount alone
HasMounts(l) == Probed(l) /\ (overlay[l] # NoBase \/ binds[l] # {})
Overlain(l) == \E c \in Layer : overlay[c] = l

\* The users of a layer: those in the mounted directories, those anywhere.
MountBusy(l) == Probed(l) /\ <<l, "mount">> \in users
HasUsers(l) == Probed(l) /\ \E p \in Place : <<l, p>> \in users

Bound(l) == {bind[1] : bind \in binds[l]}

\* expandConfigMounts: where an import of layer l comes from.
BindSource(l, i) == IF i \in BaseImport THEN Root(l) ELSE NoBase

\* A missing directory under the layers directory is made at mount time.
HaveSource(i) == i \in BaseImport \/ i \in host

\* What is to be seen in the build root of a base layer, or of a derived
\* layer while it is mounted: overlays show the lower layers' content.  What a
\* rebase to or from no base has left in the other directory is not shown.
ContentDir(l) == IF base[l] = NoBase THEN "build" ELSE "upper"
Visible(l) == {c \in Content : \E a \in Chain(l) : <<ContentDir(a), c>> \in content[a]}

\* The imports of which both ends are there.
Usable(l) == {i \in Import : HaveSource(i) /\ i \in Visible(l)}

\* The layer states, in the order of the code's constants.
Error == 1
Incomplete == 2
Complete == 3
Inhabited == 4
Mountable == 5
PartialMount == 6
Mounted == 7
MountedBusy == 8

\* Some mounted import comes from elsewhere than the layerconfig says.
WrongSource(l) ==
    \E i \in imports[l] \cap Usable(l) :
        i \in Bound(l) /\ <<i, BindSource(l, i)>> \notin binds[l]

\* numMounted of findLayerstate: the overlay of a derived layer counts too.
NumMounted(l) == Cardinality(imports[l] \cap Bound(l))
                   + (IF base[l] = NoBase THEN 0 ELSE 1)

\* The second half of findLayerstate: the imports of a layer whose minimal
\* build directories are there.
ImportState(l) ==
    IF WrongSource(l) THEN Error
    ELSE IF ~(imports[l] \subseteq Usable(l)) THEN Inhabited
    ELSE IF NumMounted(l) = 0 THEN Mountable
    ELSE IF NumMounted(l) < Cardinality(imports[l]) THEN PartialMount
    ELSE IF MountBusy(l) \/ Overlain(l) THEN MountedBusy
    ELSE Mounted

\* The state of a layer whose base, if it has one, is at least mountable.
OwnState(l) ==
    IF ~Probed(l) THEN Incomplete
    ELSE IF base[l] # NoBase /\ overlay[l] = NoBase THEN Mountable
    ELSE IF base[l] # NoBase /\ overlay[l] # base[l] THEN Error
    ELSE IF "fhs" \notin Visible(l) THEN Complete
    ELSE ImportState(l)

\* ProbeAllLayerstate and the first half of findLayerstate: bases first, and
\* no more than complete on a base that is not at least mountable.
LayerState(l) ==
    IF ~Probed(l) THEN Incomplete
    ELSE IF \E a \in Chain(l) \ {l} : OwnState(a) < Mountable THEN Complete
    ELSE OwnState(l)

\* Mutation: the check made before a layer is unmounted.
InUseAsForUnmount(l) == MountBusy(l) \/ Overlain(l)

\* errorIfBusy, before a command that alters the layer directory.
InUse(l) == HasMounts(l) \/ HasUsers(l) \/ Overlain(l)

-----------------------------------------------------------------------------
(* The commands that change the tree of layers.                            *)

\* Mutation: the packages directory is made with the others.
NeededDirsAndPackages(b) == IF b = NoBase THEN {"build", "packages"} ELSE LayerDir

NeededDirs(b) == IF b = NoBase THEN {"build"} ELSE LayerDir

\* AddLayer: the import list is the base's, or comes from a file.
AddLayer(l, b, cfg) ==
    /\ l \notin layers /\ Loadable
    /\ b \in layers \cup {NoBase}
    /\ cfg \in Configs \cup {imports[k] : k \in layers \cap {b}}
    /\ layers' = layers \cup {l}
    /\ base' = [base EXCEPT ![l] = b]
    /\ imports' = [imports EXCEPT ![l] = cfg]
    /\ dirs' = [dirs EXCEPT ![l] = @ \cup NeededDirs(b)]
    /\ UNCHANGED <<content, packages, links, mountVars, envVars>>

\* Mutation: the export link stays.
LinkKept(l) == links

\* removeLayerExportLinks.
WithoutLink(l) == links \ {l}

\* The layer directory goes, with all that is in it.
Discard(l) ==
    /\ layers' = layers \ {l}
    /\ base' = [base EXCEPT ![l] = NoBase]
    /\ imports' = [imports EXCEPT ![l] = {}]
    /\ dirs' = [dirs EXCEPT ![l] = {}]
    /\ content' = [content EXCEPT ![l] = {}]
    /\ packages' = packages \ {l}
    /\ users' = {u \in users : u[1] # l}

\* Mutation: the children are not looked for.
RemovableWithChildren(l) == /\ l \in layers /\ Loadable
                            /\ ~InUse(l)
                            /\ LayerState(l) # Error

\* The checks of RemoveLayer.
Removable(l) == /\ l \in layers /\ Loadable
                /\ Children(layers, base, l) = {}
                /\ ~InUse(l)
                /\ LayerState(l) # Error

\* Whether RemoveLayer deletes the directory; otherwise it moves it aside.
RemovesWholly(l, files) == files \/ LayerState(l) = Complete

\* RemoveLayer, with or without -files.  The export link goes first; then the
\* directory, unless it is to be moved aside and an earlier layer's still lies
\* there (which is left open).  An error of the rename is not returned.
RemoveLayer(l, files) ==
    /\ Removable(l)
    /\ links' = WithoutLink(l)
    /\ \/ Discard(l)
       \/ /\ ~RemovesWholly(l, files)
          /\ UNCHANGED <<treeVars, dirs, content, packages, users>>
    /\ UNCHANGED <<mountVars, host>>

\* A layer's value of f goes with its directory from old to new.
Moved(f, old, new, none) == [f EXCEPT ![new] = f[old], ![old] = none]
MovedSet(S, old, new) ==
    IF old \in S THEN (S \ {old}) \cup {new} ELSE S

\* The checks of RenameLayer and, but for the new name, of RebaseLayer: the
\* layer and its children must not be in use.
Alterable(l) == /\ l \in layers /\ Loadable
                /\ \A c \in Children(layers, base, l) \cup {l} : ~InUse(c)
                /\ LayerState(l) # Error

\* Mutation: the children's layerconfig files are written as they were read.
UnpatchedBase(old, new, patched) ==
    [l \in Layer |-> IF l = new THEN base[old]
                     ELSE IF l = old THEN NoBase ELSE base[l]]

\* The bases when the layerconfig files of patched name the new base.
PatchedBase(old, new, patched) ==
    [l \in Layer |-> IF l = old THEN NoBase
                     ELSE IF l = new THEN base[old]
                     ELSE IF l \in patched THEN new ELSE base[l]]

\* WriteLayerfile writes line by line, the base first.  What a kill leaves of a
\* file is a base and imports: nothing at first, then the base, then some of
\* the imports.
PartsOfFile(b, cfg) == {[base |-> NoBase, imports |-> {}]}
                         \cup {[base |-> b, imports |-> K] : K \in SUBSET cfg}

\* The directory is renamed and the layerconfig files are written, that of torn
\* only in part.
Renamed(old, new, patched, torn, part) ==
    /\ layers' = MovedSet(layers, old, new)
    /\ base' = [l \in Layer |-> IF l \in torn THEN part.base
                                ELSE PatchedBase(old, new, patched)[l]]
    /\ imports' = [l \in Layer |-> IF l \in torn THEN part.imports
                                  ELSE Moved(imports, old, new, {})[l]]
    /\ dirs' = Moved(dirs, old, new, {})
    /\ content' = Moved(content, old, new, {})
    /\ packages' = MovedSet(packages, old, new)
    /\ links' = WithoutLink(old)
    /\ users' = {u \in users : u[1] # old}
                  \cup {<<new, p>> : p \in {q \in Place : <<old, q>> \in users}}
    /\ UNCHANGED <<mountVars, host>>

\* RenameLayer: the export link goes, the directory is renamed, the children's
\* layerconfig files are patched one after the other.  When one cannot be
\* opened the command ends there, and returns nil.
RenameLayer(old, new) ==
    /\ new \notin layers
    /\ dirs[new] = {}
    /\ Alterable(old)
    /\ \E patched \in SUBSET Children(layers, base, old) :
          /\ patched = Children(layers, base, old) \/ "write" \in Faults
          /\ Renamed(old, new, patched, {}, [base |-> NoBase, imports |-> {}])

\* RenameLayer ends when the directory cannot be renamed, because one that is
\* no layer bears the new name.  By then the export link is gone.
RenameFails(old) ==
    /\ Alterable(old)
    /\ links' = WithoutLink(old)
    /\ UNCHANGED <<treeVars, dirs, content, packages, mountVars, envVars>>

\* The checks of RebaseLayer.  checkInheritance is among them, but it runs on
\* the map as it was read, before the base is changed.
Rebasable(l, b) == b \in layers \cup {NoBase} /\ Alterable(l)

\* Mutation: the new order of the layers is not worked out before the write.
RebaseUnordered(l, b) ==
    /\ Rebasable(l, b)
    /\ base' = [base EXCEPT ![l] = b]
    /\ UNCHANGED <<layers, imports, diskVars, mountVars, envVars>>

\* RebaseLayer.  On a base that derives from the layer, or is the layer, the
\* loop of normalizeOrder has no end and the file is never written.
RebaseLayer(l, b) ==
    /\ Rebasable(l, b)
    /\ base' = [base EXCEPT ![l] = b]
    /\ Inheritable(layers, base')
    /\ UNCHANGED <<layers, imports, diskVars, mountVars, envVars>>

\* The process is killed in WriteLayerfile: the layer is a new one that got none
\* of its directories, or one being rebased.
CrashInWrite(l) ==
    /\ "crash" \in Faults
    /\ Loadable
    /\ \E b \in layers \cup {NoBase} :
          \E cfg \in IF l \in layers THEN {imports[l]}
                     ELSE Configs \cup {imports[k] : k \in layers \cap {b}} :
             /\ l \in layers =>
                   Rebasable(l, b) /\ Inheritable(layers, [base EXCEPT ![l] = b])
             /\ \E part \in PartsOfFile(b, cfg) :
                   /\ base' = [base EXCEPT ![l] = part.base]
                   /\ imports' = [imports EXCEPT ![l] = part.imports]
    /\ layers' = layers \cup {l}
    /\ UNCHANGED <<diskVars, mountVars, envVars>>

\* RenameLayer is killed after some of the children are patched, perhaps in
\* WriteLayerfile for the next one or, at last, for the layer itself.
CrashInRename(old, new) ==
    /\ "crash" \in Faults
    /\ new \notin layers
    /\ dirs[new] = {}
    /\ Alterable(old)
    /\ \E patched \in SUBSET Children(layers, base, old) :
          LET unpatched == Children(layers, base, old) \ patched
              next == IF unpatched = {} THEN {new} ELSE unpatched
              whole(c) == IF c = new THEN PartsOfFile(base[old], imports[old])
                          ELSE PartsOfFile(new, imports[c])
          IN  \E c \in next : \E part \in whole(c) :
                 \E torn \in {{}, {c}} : Renamed(old, new, patched, torn, part)

\* Directories are made in this order; a kill leaves the first ones.
MadeFirst == {{}, {"build"}, {"build", "work"}}

\* AddLayer is killed between two of the directories it makes.
CrashInAdd(l, b, cfg) ==
    /\ "crash" \in Faults
    /\ l \notin layers /\ Loadable
    /\ b \in layers \cup {NoBase}
    /\ cfg \in Configs \cup {imports[k] : k \in layers \cap {b}}
    /\ layers' = layers \cup {l}
    /\ base' = [base EXCEPT ![l] = b]
    /\ imports' = [imports EXCEPT ![l] = cfg]
    /\ \E made \in MadeFirst :
           /\ made \subseteq NeededDirs(b)
           /\ dirs' = [dirs EXCEPT ![l] = @ \cup made]
    /\ UNCHANGED <<content, packages, links, mountVars, envVars>>

\* Makedirs is killed between two of the directories it makes.
CrashInMakedirs(l) ==
    /\ "crash" \in Faults
    /\ l \in layers /\ Loadable
    /\ LayerState(l) < Complete
    /\ \E made \in MadeFirst :
           /\ made \subseteq NeededDirs(base[l])
           /\ dirs' = [dirs EXCEPT ![l] = @ \cup made]
    /\ UNCHANGED <<treeVars, content, packages, links, mountVars, envVars>>

\* RemoveLayer is killed while it deletes the directory, in an order that is
\* the directory's own: its layerconfig may be gone or not, and so may its
\* directories, the installed software in all or in part (here: in all).
CrashInRemove(l) ==
    /\ "crash" \in Faults
    /\ Removable(l)
    /\ \/ UNCHANGED treeVars
       \/ /\ layers' = layers \ {l}
          /\ base' = [base EXCEPT ![l] = NoBase]
          /\ imports' = [imports EXCEPT ![l] = {}]
    /\ links' = WithoutLink(l)
    /\ \E left \in SUBSET dirs[l] : dirs' = [dirs EXCEPT ![l] = left]
    /\ content' = [content EXCEPT ![l] = {}]
    /\ packages' \in {packages, packages \ {l}}
    /\ UNCHANGED <<mountVars, envVars>>

-----------------------------------------------------------------------------
(* The commands that mount and unmount.                                    *)

\* Makedirs on each layer of S: only a layer whose state is below complete
\* gets the directories it lacks.
MadeDirs(S) ==
    [a \in Layer |-> IF a \in S /\ LayerState(a) < Complete
                     THEN dirs[a] \cup NeededDirs(base[a])
                     ELSE dirs[a]]

Makedirs(l) ==
    /\ l \in layers /\ Loadable
    /\ LayerState(l) # Error
    /\ dirs' = MadeDirs({l})
    /\ UNCHANGED <<treeVars, content, packages, links, mountVars,
                   envVars>>

\* The checks of Mount and the Makedirs on the whole chain, which come before
\* the first mount.  Layers keep the state of the snapshot: directories made
\* now do not make a layer mountable before the next command.
MountBegins(l) ==
    /\ l \in layers /\ Loadable
    /\ \A a \in Chain(l) : LayerState(a) # Error
    /\ dirs' = MadeDirs(Chain(l))

\* mountOne can mount on layer f the overlay, if ovl, and then the imports K.
\* What is mounted already is not mounted again.
CanMount(f, ovl, K) ==
    /\ ovl => base[f] # NoBase /\ overlay[f] = NoBase
    /\ K \subseteq (imports[f] \cap Usable(f)) \ Bound(f)
    /\ ~(K # {} /\ base[f] # NoBase /\ overlay[f] = NoBase /\ ~ovl)
    /\ ~((ovl \/ K # {}) /\ LayerState(f) < Mountable)

\* What mountOne has to mount on a layer.
NeedsOverlay(a) == base[a] # NoBase /\ overlay[a] = NoBase
AllOrNoImports(a) == IF Bound(a) = {} THEN imports[a] ELSE {}  \* Mutation
NeedsImports(a) == imports[a] \ Bound(a)
MountsAll(a, ovl, K) == /\ LayerState(a) >= Mountable
                        /\ CanMount(a, ovl, K)
                        /\ ovl = NeedsOverlay(a)
                        /\ K = NeedsImports(a)

\* mountOne on the chain of f, ultimate base first: everything on the layers
\* below f, on f itself the overlay, if ovl, and the imports K.  The source of
\* the imports in tried is made as well, but to mount them fails.
MountUpTo(f, ovl, K, tried) ==
    LET below == Chain(f) \ {f}
        fresh(a) == IF a \in below THEN NeedsImports(a)
                    ELSE IF a = f THEN K ELSE {}
    IN  /\ \A a \in below : MountsAll(a, NeedsOverlay(a), NeedsImports(a))
        /\ overlay' = [a \in Layer |->
                         IF (a \in below /\ NeedsOverlay(a)) \/ (a = f /\ ovl)
                         THEN base[a] ELSE overlay[a]]
        /\ binds' = [a \in Layer |->
                         binds[a] \cup {<<i, BindSource(a, i)>> : i \in fresh(a)}]
        /\ packages' = packages \cup
               {r \in {Root(f)} : \/ \E a \in Chain(f) : fresh(a) \cap BaseImport # {}
                                  \/ tried \cap BaseImport # {}}

\* makeExportSymlinks for each layer of S, right after mountOne for it: when
\* the packages directory is made for a derived layer's import, its owner, the
\* ultimate base, has had its turn.
MakeLinks(S) ==
    links' = links \cup
        {a \in S : \/ a \in packages
                   \/ base[a] = NoBase /\ NeedsImports(a) \cap BaseImport # {}}

\* Mount returns no error.
Mount(l) ==
    /\ MountBegins(l)
    /\ MountsAll(l, NeedsOverlay(l), NeedsImports(l))
    /\ MountUpTo(l, NeedsOverlay(l), NeedsImports(l), {})
    /\ MakeLinks(Chain(l))
    /\ UNCHANGED <<treeVars, content, host>>

MountLayer(l) == Mount(l) /\ UNCHANGED users

\* Mount ends at a layer f of the chain: f is not mountable, a source or a
\* mountpoint is missing, a system call fails or the process is killed.
MountFails(l) ==
    /\ MountBegins(l)
    /\ \E f \in Chain(l), ovl \in BOOLEAN :
          \E K \in SUBSET imports[f] :
             \E tried \in {{}} \cup {{i} : i \in imports[f] \ K} :
                /\ CanMount(f, ovl, K \cup tried)
                /\ MountUpTo(f, ovl, K, tried)
                /\ MakeLinks(Chain(f) \ {f})
    /\ UNCHANGED <<treeVars, content, host, users>>

\* Chroot: an implicit mount unless the layer is mounted, then a process with
\* its root in the build root.
Chroot(l) ==
    /\ users' = users \cup {<<l, "mount">>}
    /\ l \in layers /\ Loadable
    /\ \/ /\ LayerState(l) >= Mounted
          /\ UNCHANGED <<treeVars, diskVars, mountVars, host>>
       \/ /\ LayerState(l) < Mounted
          /\ Mount(l)

\* unmountLayer refuses a layer with users in its mounts or layers over it.
RefusedIfUsed(l) == MountBusy(l)  \* Mutation: whatever lies over it
UnmountRefused(l) == MountBusy(l) \/ Overlain(l)

\* unmountLayer on each layer of S, in an order that has derived layers first.
Unmounting(S) ==
    /\ overlay' = [a \in Layer |-> IF a \in S THEN NoBase ELSE overlay[a]]
    /\ binds' = [a \in Layer |-> IF a \in S THEN {} ELSE binds[a]]

UnmountLayer(l) ==
    /\ l \in layers /\ Loadable
    /\ ~UnmountRefused(l)
    /\ HasMounts(l)
    /\ Unmounting({l})
    /\ UNCHANGED <<treeVars, diskVars, envVars>>

\* A system call fails, or the process is killed, after some of the imports
\* are unmounted; the overlay comes last.
UnmountFails(l, left) ==
    /\ l \in layers /\ Loadable
    /\ ~UnmountRefused(l)
    /\ left \subseteq binds[l]
    /\ HasMounts(l)
    /\ binds' = [binds EXCEPT ![l] = left]
    /\ UNCHANGED <<treeVars, diskVars, overlay, envVars>>

\* Mutation: the layers are visited from the base layers upwards.
BusyBasesFirst == {l \in layers : UnmountRefused(l)}

\* The layers that umount -all finds busy when it comes to them, from the
\* layers without children downwards, with the mount table read anew after
\* each: those in use and those under a layer that stays.
StillBusy ==
    {l \in layers : \A S \in SUBSET layers :
        (\A k \in layers :
            MountBusy(k) \/ (\E c \in Layer :
                                overlay[c] = k
                                  /\ (c \in layers /\ HasMounts(c) => c \in S))
            => k \in S)
        => l \in S}

\* Unmount without a layer name.  A missing -all makes an error message that
\* is not returned.
UnmountAll(all) ==
    /\ Loadable
    /\ all \in BOOLEAN
    /\ Unmounting({l \in layers : HasMounts(l)} \ StillBusy)
    /\ UNCHANGED <<treeVars, diskVars, envVars>>

-----------------------------------------------------------------------------
(* The world around the commands.                                          *)

\* A process takes a directory or file of a layer into use: a subshell, also
\* that of the shell command, a second chroot, an editor.
EnterLayer(l, p) ==
    /\ l \in layers
    /\ p = "mount" => "build" \in dirs[l]
    /\ users' = users \cup {<<l, p>>}
    /\ UNCHANGED <<treeVars, diskVars, mountVars, host>>

LeaveLayer(u) ==
    /\ u \in users
    /\ users' = users \ {u}
    /\ UNCHANGED <<treeVars, diskVars, mountVars, host>>

\* Software is installed, or a mountpoint made, in a base layer's build root
\* or, through the overlay, in a derived layer.
Install(l, C) ==
    /\ l \in layers
    /\ IF base[l] = NoBase THEN "build" \in dirs[l] ELSE overlay[l] # NoBase
    /\ content' = [content EXCEPT ![l] = @ \cup {ContentDir(l)} \X C]
    /\ UNCHANGED <<treeVars, dirs, packages, links, mountVars,
                   envVars>>

\* A directory of an unmounted, unused layer is lost.
LoseDir(l, d) ==
    /\ "loss" \in Faults
    /\ l \in layers
    /\ d \in dirs[l]
    /\ ~InUse(l)
    /\ dirs' = [dirs EXCEPT ![l] = @ \ {d}]
    /\ content' = [content EXCEPT ![l] = {c \in @ : c[1] # d}]
    /\ UNCHANGED <<treeVars, packages, links, mountVars, envVars>>

\* A directory of the host that is the source of an import goes or comes.
HostChanges(i) ==
    /\ i \in HostImport
    /\ host' = IF i \in host THEN host \ {i} ELSE host \cup {i}
    /\ UNCHANGED <<treeVars, diskVars, mountVars, users>>

\* The administrator unmounts an import by hand.
UnmountByHand(l, bind) ==
    /\ bind \in binds[l]
    /\ binds' = [binds EXCEPT ![l] = @ \ {bind}]
    /\ UNCHANGED <<treeVars, diskVars, overlay, envVars>>

\* The administrator unmounts an overlay by hand.  The kernel refuses that of
\* one in use or with mounts in it; one that has other layers' overlays over it
\* is left alone.
UnmountOverlayByHand(l) ==
    /\ overlay[l] # NoBase
    /\ binds[l] = {}
    /\ <<l, "mount">> \notin users
    /\ ~Overlain(l)
    /\ overlay' = [overlay EXCEPT ![l] = NoBase]
    /\ UNCHANGED <<treeVars, diskVars, binds, envVars>>

\* The host restarts: mounts and processes are gone, the disk remains.
Reboot ==
    /\ overlay' = [l \in Layer |-> NoBase]
    /\ binds' = [l \in Layer |-> {}]
    /\ users' = {}
    /\ UNCHANGED <<treeVars, diskVars, host>>

-----------------------------------------------------------------------------
TreeCommand ==
    \/ \E l \in Layer, b \in Layer \cup {NoBase} :
          \/ \E cfg \in SUBSET Import : AddLayer(l, b, cfg) \/ CrashInAdd(l, b, cfg)
          \/ RebaseLayer(l, b)
    \/ \E l \in Layer, files \in BOOLEAN : RemoveLayer(l, files)
    \/ \E old, new \in Layer : RenameLayer(old, new) \/ CrashInRename(old, new)
    \/ \E l \in Layer : RenameFails(l) \/ CrashInWrite(l) \/ CrashInRemove(l)

MountCommand ==
    \/ \E l \in Layer : Makedirs(l) \/ CrashInMakedirs(l)
    \/ \E l \in Layer : MountLayer(l) \/ MountFails(l) \/ UnmountLayer(l)
    \/ \E l \in Layer : \E left \in SUBSET binds[l] : UnmountFails(l, left)
    \/ \E all \in BOOLEAN : UnmountAll(all)
    \/ \E l \in Layer : Chroot(l) /\ Cardinality(users') <= MaxUsers

Environment ==
    \/ \E l \in Layer, p \in Place :
          EnterLayer(l, p) /\ Cardinality(users') <= MaxUsers
    \/ \E u \in users : LeaveLayer(u)
    \/ \E l \in Layer, C \in Installs :
          Install(l, C) /\ Cardinality(Filled') <= MaxFilled
    \/ \E l \in Layer, d \in LayerDir : LoseDir(l, d)
    \/ \E i \in Import : HostChanges(i)
    \/ \E l \in Layer : \E bind \in binds[l] : UnmountByHand(l, bind)
    \/ \E l \in Layer : UnmountOverlayByHand(l)
    \/ Reboot

Next == TreeCommand \/ MountCommand \/ Environment

Spec == Init /\ [][Next]_vars

-----------------------------------------------------------------------------
(* What the layer manager is to keep, whatever the commands and the world  *)
(* around them do in between.                                              *)

\* FindLayers never fails: add, remove, rename and rebase between them leave
\* no layer whose base is missing and none that is its own ancestor (probe.go,
\* checkInheritance, which makes every command end when it finds one).
TreeInheritable == Inheritable(layers, base)

\* An interrupted command may leave a base that is missing, but no cycle.
NoCycle == Acyclic(layers, base)

\* The overlay on a layer's build root has the build root of the layer's base
\* as its lower directory: no layer is renamed, rebased or removed under an
\* overlay that was mounted before (layers.go, errorIfBusy).
OverlayMatchesBase ==
    \A l \in Layer : overlay[l] # NoBase => l \in layers /\ overlay[l] = base[l]

\* Under a mounted derived layer every derived layer is mounted, or an overlay
\* would show an empty build root as its lower directory (Mount goes up the
\* chain, Unmount refuses what is overlain).
ChainMounted ==
    \A l \in layers : overlay[l] # NoBase =>
        \A a \in Chain(l) : base[a] # NoBase => overlay[a] # NoBase

\* What is mounted in a layer from the packages directory of its ultimate base
\* (expandConfigMounts, $$base) still comes from there: the chain below does
\* not change while the layer is mounted.
BindsFromRoot ==
    Loadable => \A l \in Layer : \A bind \in binds[l] :
                    l \in layers /\ bind[2] = BindSource(l, bind[1])

\* A layer with mounts in it has the directories ProbeAllLayerstate looks for:
\* it skips a layer that lacks them, which would hide the mounts from umount
\* and from the checks of rename, rebase and remove.
MountsAreSeen ==
    \A l \in Layer : overlay[l] # NoBase \/ binds[l] # {} => Probed(l)

\* No layer is ever found in the error state (findLayerstate: wrong parent
\* directory or wrong mount source): the way out of that state is no command's.
NeverError == Loadable => \A l \in layers : LayerState(l) # Error

\* No export symlink dangles: it goes before the layer directory does
\* (exports.go, removeLayerExportLinks).
ExportsFollowLayers == links \subseteq packages \cap layers

\* No command takes a mount away from a layer whose mounted directories are in
\* use, or from a layer below it: also not one that does what the administrator
\* could have done by hand.
UsedMountsKept ==
    [][\/ \A l \in layers : MountBusy(l) =>
            \A a \in Chain(l) : a = l \/ overlay[l] # NoBase =>
                /\ overlay[a] # NoBase => overlay'[a] = overlay[a]
                /\ binds[a] \subseteq binds'[a]
       \/ ~(TreeCommand \/ MountCommand)]_vars

\* umount -all leaves a layer mounted only if it, or a layer that derives from
\* it and is mounted, is in use: the order of the layers lets it unmount the
\* rest in one go.
UnmountAllIsThorough ==
    [][UnmountAll(TRUE) => \A l \in layers :
          HasMounts(l)' => \E d \in layers : l \in Chain(d) /\ MountBusy(d)
                                            /\ (d = l \/ overlay[d] # NoBase)]_vars

\* After a mount that returns no error the layer and all it derives from have
\* all their imports mounted, whatever was mounted before, and the state the
\* next command finds is mounted (except of a base layer without imports).
MountCompletes ==
    [][\A l \in layers : MountLayer(l) =>
          /\ \A a \in Chain(l) : imports[a] \subseteq Bound(a)'
          /\ LayerState(l)' >= Mounted \/ (base[l] = NoBase /\ imports[l] = {})]_vars

\* The commands implement the abstract tree of layers.
Tree == INSTANCE LayerTree WITH Layer <- Layer, NoBase <- NoBase,
                                layers <- layers, base <- base
ImplementsTree == Tree!Spec
=============================================================================
