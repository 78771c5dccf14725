# Layercake in TLA+

Layercake keeps build roots ("layers") for Gentoo installations. A layer is a
directory with a `layerconfig` file, a build root and, unless it is a base layer, the
two directories of an overlayfs whose lower directory is the build root of another
layer. The `layercake` command adds, removes, renames, rebases, mounts, unmounts and
enters layers; `stagemaker` makes tar files of what is installed in one.

This directory holds a model of the program, the runs of the TLC model checker on small
instances of it and proofs, checked by TLAPS, for all of them.

## 1. The system

### Components

| Component | Code | State it keeps | Operations |
|---|---|---|---|
| tree of layers | `manage/layers.go`, `probe.go`, `layerfile.go`, `normalizeOrder.go`, `layerinfo.go` | on disk: one directory and one `layerconfig` per layer (base, imports, exports); in memory: the map of layers and their order, read anew by every command | add, remove, rename, rebase; FindLayers, checkInheritance, normalizeOrder |
| states, mounts, users of layers | `manage/layers.go`, `probe.go`, `exports.go`, `describeUsers.go` | none of its own: layer states are worked out from directories, mount table and `/proc` | mkdirs, mount, umount, umount -all, chroot, shell, shake, status |
| mount table | `fs/mounts.go`, `fs/move.go` | snapshot of `/proc/self/mountinfo`; the table itself is the kernel's | ProbeMounts, GetMount, GetMountAndSubmounts, GetOverlayLowerdirs; mount, umount |
| users of layers | `fs/inuse.go` | none; reads `/proc/<pid>` | FindUses / FindLayerUsers |
| command line | `cmd/layercake/layercake.go` | options | one function per command |
| file primitives | `fs/*.go` | open cursors, the pretend switch | truncate-and-write, rename, remove, symlink |
| configuration | `config/*.go` | option values, first source wins | command line, environment, chained files |
| `stagemaker` command | `cmd/stagemaker/*.go` | tar process, goroutines, pipes | make or list a stage |
| file lists | `stage/*.go` | map of names, deferred hard links, pending omissions | read, expand, omit, supplement, write |
| atoms and versions | `portage/atom/*.go` | sets of atoms ordered by version | parse, compare, match, add |
| dependencies | `portage/depend/*.go`, `portage/vdb/*.go` | dependency trees; of each installed package whether it is added or blocked | parse, filter, resolve |
| text files, tables, defaults, build | `portage/parse`, `portage/profile`, `fns`, `defaults`, `makedist.go` | none at run time | - |

### How they interact

A command is a process. It reads all `layerconfig` files into a map (FindLayers, which
fails on a missing base or a cycle), orders the map so that a base comes before what
derives from it (normalizeOrder), scans `/proc` for users (FindLayerUsers), reads the
mount table and works out the state of every layer (ProbeAllLayerstate). The command
then checks its request against this snapshot and acts: it writes files and makes system
calls one after the other, and ends at the first error, undoing nothing. There is no
lock and no daemon. What one command leaves behind is all that the next one knows, and
what two do at the same time is up to their system calls.

`stagemaker` reads the installed packages (GetInstalledPackageList, into a set of atoms
for each name), resolves what the user asks for into a set of packages (ResolveUserDeps),
makes the list of their files (getStageFileList) and writes the archive (writeTarFile).

### What is hard

* **Long sequences of commands** - a tree of layers is altered while parts of it are
  mounted. Whether a command may go on is decided from mounts found on the layer, from
  overlays found over it, and from users; nothing ever compares the tree with what is
  mounted.
* **Partial failure and kills** - mount works through a chain of layers, rename through
  the children; each may stop half way. Files are truncated before they are written.
* **The environment** - users enter and leave, the administrator unmounts by hand,
  host directories come and go, the machine restarts, directories are lost.
* **Order** - findLayerstate and umount -all are right only if layers are visited in an
  order that is worked out from strings.
* **Goroutines and a child process** - stagemaker's archive passes through a pipe, two
  goroutines and a compressor, each of which may end first.
* **Concurrent commands** - each acts on its own snapshot of tree, users and mounts, which
  it read at three different times; mounts of two commands end up stacked on each other.
* **Recursion over cyclic data** - dependencies form cycles, and whether a package is
  added or blocked depends on what was come to before.
* **Maps and directories in any order** - names come into the file list from six sources
  and some of them go out again.
* **Versions as strings** - every comparison is one of strings that were padded to be
  compared.

### What makes each component correct

* tree of layers: every base exists and there is no cycle, so every command can start
  (`TreeInheritable`, `NoCycle`); the commands do to the tree what they say
  (`ImplementsTree`); the order of the layers is topological (`OrderIsTopological`).
* mounts: an overlay shows the base that the layer has (`OverlayMatchesBase`), the bases
  under it are mounted (`ChainMounted`), imports come from the base layer at the end of
  the chain (`BindsFromRoot`), no mount escapes the probe (`MountsAreSeen`), no layer
  gets into the error state, from which no command leads out (`NeverError`), a mount
  without an error is complete (`MountCompletes`), unmount spares what is in use
  (`UsedMountsKept`) and takes the rest (`UnmountAllIsThorough`).
* exports: no symlink dangles (`ExportsFollowLayers`).
* `stagemaker`: it ends, whichever end of the pipe goes first (`AlwaysEnds`); a good end
  means that the archive is whole (`OkIsComplete`); it fails only if something has failed
  (`FailsOnlyOnFailure`).
* concurrent commands: nothing keeps them from harming a layer that one alters while
  another relies on it, but the harm stays with that layer and what derives from it. All
  other layers make a tree that can be read (`TreeInheritable`), their overlays have the
  base of their layer below them (`OverlaysFollowTree`), no chain is interrupted
  (`ChainsMounted`), what has been mounted without an error is complete
  (`MountedIsComplete`) and no shell loses a mount (`ShellsKeepMounts`).
* atoms: a package is taken if its version has the relation that is asked for, as a
  version and not as a string (`MatchIsExact`); a set has one package for each key
  (`ImplementsKeyedSet`). That its packages are in order does not hold (section 4).
* resolution: it ends (`AlwaysEnds`), selects only what is asked for and is done only if
  all dependencies are met (`ImplementsSelection`), takes nothing that is blocked
  (`NeverBlockedAndAdded`) and fails without need only where there is something to choose
  (`FailsOnlyIfUnsolvable`).
* file list: nothing of packages that are not staged (`UnstagedStayOut`), everything with
  the directories above it (`ParentsListed`), no symlink without what it leads to
  (`FoundLinksLead`), every file once and before the hard links to it
  (`HardlinksFollowFiles`).

## 2. Modules

| Module | What it is |
|---|---|
| `Inheritance` | the map of layers and bases: what checkInheritance, getAncestorsAndSelf and findLayerBase are for, and those walks as written in the code |
| `LayerMap` | what the walks must do in every state of a system that has a layer map; the modules that have one extend it |
| `Strings` | strings as sequences of characters, Go's order of them, and strings with separators |
| `NormalizedOrder` | the sort key of normalizeOrder, a layer's place in the order, and what the order must be |
| `MCInheritance` | lets a user write and delete `layerconfig` files at will, and has the walks compared with their definitions and the order with the tree |
| `LayerTree` | abstract specification: add, remove, rename and rebase take trees to trees |
| `Layercake` | the layer manager, one command per step, with its environment and its faults; refines `LayerTree` |
| `MCLayercake` | values for TLC, and the claim of the documentation that does not hold |
| `StageTar` | how `stagemaker` makes an archive: the main goroutine, the pipe, the two goroutines behind it and the compressor |
| `LayercakeProcs` | several commands at work at once, one step for each reading and each system call; stacks of mounts |
| `MCProcs` | values for TLC |
| `KeyedSet` | abstract specification: a set with one member for each key |
| `Versions` | versions, the strings made of them, how those are compared, and the order of versions |
| `Atoms` | packages in a sequence, USE flags, which packages an atom stands for |
| `AtomSet`, `MCAtoms` | the set as packages come and go, which refines `KeyedSet`; versions for TLC |
| `PackageSelection` | abstract specification: packages are selected because something selected asks for them, until all dependencies are met |
| `Resolver`, `MCResolver` | the recursion of the code over dependencies as a stack; refines `PackageSelection`; `MCResolver` gives it packages and atoms of `Atoms` |
| `Filtering` | the members of a sequence that are in a set, without recursion that the provers cannot see through |
| `StageList`, `MCStageList` | how getStageFileList makes the list of a stage; a small file system for TLC |
| `Recursion_proofs` | functions defined from lesser numbers or on finite trees, the loops of `Filtering`, least numbers, and the order of strings made of parts, without induction over an operator |
| `Inheritance_proofs` | lemmas about chains, ultimate bases and what add, remove, rename and rebase do to a map; the theorems about the walks and the order |
| `AtomSet_proofs`, `Layercake_proofs`, `LayercakeProcs_proofs`, `Resolver_proofs`, `StageList_proofs`, `StageTar_proofs` | the theorems of section 5 |

`LayercakeProcs` and `Layercake` share `Inheritance`, and `Versions` and `NormalizedOrder`
share `Strings`. The first two differ in grain: `Layercake` has
whole commands, with imports from the base layer, users outside the build root, missing
directories and kills; `LayercakeProcs` has single system calls of several commands, on
layers that lack nothing. `MCResolver` composes `Resolver` with `Atoms`.

### State and code

`Layercake` has one variable per thing that outlives a command.

| Variable | In the system |
|---|---|
| `layers`, `base`, `imports` | the `layerconfig` files: which exist, the base each names, the imports each lists |
| `dirs` | which of `build`, `overlayfs/workdir`, `overlayfs/upperdir` a layer directory has |
| `content` | what has been installed in a layer's build root and in its upper directory: the minimal build directories (`"fhs"`) and mountpoints of imports |
| `packages`, `links` | packages directories, and symlinks in the export directory |
| `overlay`, `binds` | the mount table: the lower layer of the overlay on a build root; imports with the layer their source lies in |
| `users` | the places in layers that processes use (in the directories that mounts go to, or elsewhere in the layer) |
| `host` | the host directories that are sources of imports |

A path is the name of the layer it lies in. The layer states of findLayerstate are
operators over these variables (`LayerState` and below), with the constants, the order
and the arithmetic of the code, including its quirks: a layer without its directories is
skipped before users and mounts are read (`Probed`), the overlay is counted among the
imports (`NumMounted`), a layer on an unmountable base is no more than `Complete`. What is
seen in a build root comes from the build root of the base layer and the upper directories
of the others (`ContentDir`, `Visible`): rebase alters the `layerconfig` and nothing else, so
that a base layer which becomes a derived one, or the other way round, no longer shows what
was installed in it.

Each command is an action with the checks of its handler as guard and everything it
does as effect: `AddLayer`, `RemoveLayer`, `RenameLayer`, `RebaseLayer`, `Makedirs`,
`MountLayer`, `UnmountLayer`, `UnmountAll`, `Chroot`. Where a handler can stop half way
there is a second action for it: `RenameFails`, `MountFails`, `UnmountFails` (a system
call returns an error) and the `Crash...` actions (the process is killed between two
writes). A `layerconfig` is written line by line, so a kill leaves any part of it
(`PartsOfFile`); a mount call that fails leaves the packages directory that was made for it.
The environment: `EnterLayer`, `LeaveLayer`, `Install`, `LoseDir`, `HostChanges`,
`UnmountByHand` (an import), `UnmountOverlayByHand` (an overlay that has no imports in it,
no users and no overlay over it), `Reboot`.

In `StageTar` each goroutine and the compressor's process has a variable that says where
it is: `main` (writeTarFile, with MakeTar in it), `runner` (the goroutine of
makeTarWriter), `copier` (the one that the exec package starts for the compressor's
standard input) and `comp`. `pipe` is the io.Pipe between them, which hands a unit over
only when both ends are there (`Offer`, `Take`); `stdin` is the pipe to the process.
`written` and `out` count the units at the two ends. `SourceFails` and `CompressorFails`,
and the second halves of `WriteDirect` and `Start`, are the failures.

In `LayercakeProcs` every process has a `pc` and what getLayers has read for it: `tree`
(the `layerconfig` files, at `Begin`), `users` (FindLayerUsers reads the list of processes,
`List`, and looks at one after the other, `Look`, while shells come and go; one that goes
away meanwhile may end the command, `Refused`), and the mount table, which is used in the
step in which it is read (`ProbeForMount`, `ProbeForChroot`, `ProbeForUnmount`,
`ProbeForWrite`). These work out the system calls to come (`calls`), for the rest of a
chain later (`todo`, `Refresh`: mountOne reads the table again after each layer). Each call
is a step (`MountOverlay`, `MountImport`, `UnmountImport`, `UnmountOverlay`, `CallFails`),
and so is each write of a file (`WriteLayer`, `RemoveLayer`). `roots` has for each layer the
stack of build roots: the directory and the overlays on it. A path leads to the uppermost
one, while GetMount goes by the last line of the table for a mountpoint, whichever root
that is in (`BoundOn`). A shell (`Enter`, `Leave`) keeps the root it was started in.
Three variables are histories, by which no step goes but for bounds on them: `torn`, the layers on which a call has
failed or an umount has left something; `needs`, the layers that a command relies on (the
chain that it mounts, or takes as a base); `disturbed`, the layers that one command at work
alters while another relies on them (`Raced`) and those that derive from one of these.

In `Versions` a number is the sequence of its digits in base `Radix`, padded to `Width`
(10 and 5 in the code), a string is a sequence of places in the character set. `CompVer` is
the string that RawParseAtomAtCursor makes, `MakeNextVer` the end of a range, `Compare`
makeVersionComparer. `Precedes` and `InRange` are what the strings are for.

In `Resolver` the Go call stack is `stack`: a frame for each installedResolverData with
what Resolve has still to go through. `added` and `blocked` are the marks on the packages.
`Settle` in a `todo` is the loop of ResolveEach after its call of Resolve. Each kind of
dependency has its actions (`TakeAtom`, `TakeBlocker`, `EnterAll`, `EnterCondition`,
`EnterChoice`, `Choose`) and each error one (`AtomMissing`, `BlockerFails`, `FoundBlocked`,
`NothingToChoose`, `RequestFails`, and `DependenciesFail` for a package whose dependencies
cannot be read or decoded).

In `StageList` `entries` is the map of the FileList, `excluded` the map of UnstagedFileMap,
`phase` the place in getStageFileList, `lines` what is left of the list that is being read,
`todo` what a loop over a directory or a map has still to go over, in any order. `files` is
the finished list. A wildcard in the last element of a name is the field `glob` of a line;
what it stands for is the constant `Matches`, filepath.Match, of which nothing is assumed.
`LineUnreadable` and `Unreadable` are the errors of Lstat, of reading a link and of reading a
directory; that a path goes on below a file is such an error too (`NotADirectory`).

### What the abstraction leaves out

* In `Layercake` one command per step; overlapping commands are in `LayercakeProcs`.
* Exports that a `layerconfig` asks for; only the automatic export of the packages
  directory is modelled. Syntax errors are left out; hand edits of `layerconfig` files are left to
  `MCInheritance`.
* umount -all that fails in the middle is `UnmountLayer` for the layers it has done,
  followed by `UnmountFails`.
* Mounts below a layer that are not listed in its `layerconfig`.
* `LayercakeProcs` has neither rename (which is a remove and an add of another name for
  every command that does not know of it, with the children in between) nor umount -all,
  nor kills, and no import from the base layer.
* Subslots, versions that are dates, and the splitting of atoms, dependencies and list
  lines into words. The dependencies of an installed package decode to a tree, or its
  resolution fails (`DependenciesFail`).
* Versions with more than one release suffix, such as 1.0_alpha1_p2, which the parser
  (`(_\w+)`, `portage/atom/parse.go:345`) and Portage take, and words after an underscore
  that are no release suffix. Their order is not always that of Portage (section 4).
* `StageList` has no modes, owners and times, no paths through symlinked directories and
  no build root that is the root of the host. A line of which some names fail and others
  do not adds nothing (the list is not used in either case).
* In `Resolver` packages do not change while it runs; a USE flag is set or not for good.
* `LoseDir` takes directories from unused, unmounted layers only.
* `StageTar` has neither an output file that cannot be created nor a reader of standard
  output that goes away (the process is then killed by the kernel). Its unit is what one
  call of Write hands over.
* A rename onto a directory that is no layer but not empty fails (`RenameFails`).

## 3. Runs

| Run | Instance | Shows |
|---|---|---|
| `inheritance` | every map over four names, with a spelling that makes hyphen and separator matter | the walks agree with their definitions, the order is topological |
| `commands` | three layer names, one import from the ultimate base, one place in use at a time, no faults but failing system calls | all invariants, the two action properties about unmounting, and that the commands implement `LayerTree` |
| `mounting` | two layers, one import from the base and one from a host directory; mountpoints are made later than the rest | `MountCompletes` |
| `faults` | three layer names, no imports, nobody in the layers, all faults | no cycle, no overlay without its base, no chain interrupted, after kills (a rename among its children, too), failed writes and lost directories |
| `procs` | two processes, three names and no layers at first, every command, no imports, up to two disturbed layers | whatever races there are, tree, overlays and chains of the undisturbed layers stay in step |
| `procs_mounts` | two processes, a base layer and one that derives from it, two imports each; mount, umount, chroot, remove; up to one disturbed layer | what mounts of two commands leave is complete; no shell loses its mounts |
| `atoms` | nineteen versions with one and two digits and leading zeros, of which up to three at a time are in the set | string comparison is that of versions, for every relop; the set implements `KeyedSet` |
| `resolver` | four packages, one name in two slots; 3024 combinations of dependencies and requests, with groups in groups, choices, conditions, blockers and cycles | the resolution ends, implements `PackageSelection`, selects nothing blocked |
| `stage_list` | four build roots, 17 ways in which two packages own names, user lists of up to two lines of seventeen | what is and is not in the list |
| `stage_tar` | three members, a standard input that holds two units, with and without compressor, all failures | `stagemaker` ends in every order of its goroutines; what a good end of the compressor tells; nothing fails on its own |
| `tar_status`, `rebase_checks` | as `stage_tar`; two layers | counterexamples, section 4 |

**Bounds.** Three names are a chain of two derived layers, which is the least in which a
layer is both overlain and derived, in which a mount can stop in the middle and in which
a rename (of a base with one child, to a third name) patches a child. A fork of two
children needs three names too. One import suffices for the sources of `$$base`; the
second, from the host, is there to be missing while the first is there. One place in use
is enough for every check, because the checks ask whether there is one at all. `MaxUsers`
bounds the places in use, and `MaxFilled` the build roots and upper directories in which
something is installed: two where imports are mounted, of which one is the ultimate base's
and the other a layer's own, or is left behind by a rebase; all six in `faults`.

Two processes are what every race here is made of: one command's snapshot is out of date
because of one other. `Len(roots[l])` has no bound of its own: two commands that are at
work at a time stack at most one overlay each on what both have found bare. With two
imports a mount can be interrupted between them and a stack can have one import in each
root.

`Radix` 2 and `Width` 2 leave numbers of one and two digits, so that padding, leading
zeros and carrying in the end of a range occur. `MaxSize` bounds the packages of a name in
`AtomSet`; an insertion has then been at the start, in the middle and at the end. `atoms` tells
packages apart by version, of which there are more; both sets of the program do so by slot
(`vdb/get_list.go:16`, `vdb/solution.go:23`), and the proofs are about either.
`MaxSymlinkChain` is 3 (5 in the code), with chains of one to four links. The build roots
have a file with three names, a file that cannot be in an archive, links in a directory
that is passed over, and a package database with and without the package.

Layer names are interchangeable and the properties do not name one, so symmetry is sound
in those runs, none of which checks liveness; in `procs_mounts` only the processes are.
In `StageTar` three members and two units of standard input let the compressor fall behind
far enough for each of pipe, copying goroutine and standard input to be full.

**Races.** Without a lock, two commands of which one alters a layer that the other relies on
do harm: two rebases write a cycle, a remove deletes a layer that a mount has just read, an
umount takes the mounts of a shell that is just being started. All these are steps of the
model, and without the exception for disturbed layers TLC finds each of the five properties
about them violated within two dozen steps. What the runs ask is how far the harm goes.
`Begin` looks for the commands at work and adds to `disturbed` what one of them is about to
alter (add, remove, rebase, umount) in the chain that another mounts or takes as a base, and
all that derives from it; `WriteLayer` adds a layer that is put on a disturbed one. A layer
is not disturbed by overlapping mounts, by unmounts and removals of it next to each other,
nor by what does not concern its chain; shells are not at work and disturb nothing. That no
other layer comes to harm is not plain: mounts do stack, snapshots are out of date, a rebase
looks only at the mounts of the layer and its children, and an umount may miss a shell.
Layers stay disturbed for good; `MaxDisturbed` bounds how many may be, so that others are
left to speak of: two of three in `procs`, one of two in `procs_mounts`, where `MaxHarmed`
also lets no command begin while the other layer is torn. The theorems hold for any bounds. The
runs do not tell states apart by what a command has read and will not look at again
(`VIEW`), and `procs` not by `torn`, which it has no use for.

**How properties are limited.** `UsedMountsKept` excuses only steps that no command takes.
`UnmountAllIsThorough` takes the order in which umount -all visits the layers for granted
(`StillBusy`); that this order is right is `OrderIsTopological`. `MatchIsExact` leaves out
numbers that are too long or all nines, which the code gets wrong, and `ImplementsKeyedSet`
the order in a set, which is lost (section 4). In the runs without faults TLC does not see
what kills do to `MountsAreSeen`, `NeverError` and `ExportsFollowLayers`: those are theorems,
for every fault.

**Deadlock** is not checked where the program comes to its end: `stage_tar`, `tar_status`,
`resolver` and `stage_list`. `AlwaysEnds` says in the first and third that the end is a
proper one. Nor is it in `procs` and `procs_mounts`, where a race can leave a tree that no
command can read, so that none begins any more.

**Fairness.** `Layercake` and `LayercakeProcs` assume none: a command is run when somebody
runs it. `StageTar` assumes weak fairness of the main goroutine, of the one that runs the
compressor, of the one that copies and of the compressor: the schedulers of Go and of the
kernel let each go on that can, and gzip, bzip2 and xz read their input to its end. Failures
are never assumed to happen. `Resolver` assumes weak fairness of its `Next`: it is one
sequential recursion, which goes on as long as it has not returned; every choice of a step
is determined by the stack.

**Mutants.** A mutated definition stands before the definition it changes and is marked
`Mutation`; no run uses one.

## 4. Where the code and its documentation disagree

Shown by runs:

* `RebaseChecksSuffice` - RebaseLayer calls checkInheritance on the map as it was read,
  before it changes the base (`manage/layers.go:403`). Rebasing a layer onto itself or
  onto a descendant passes the checks, and the loop of normalizeOrder has no end.
  `RebaseLayer` in the model is a step only if the loop ends. The file has not been
  written by then, which is why `NoCycle` holds all the same.
* `StatusTellsSuccess` - writeTarFile returns nil where MakeTar has returned an error
  (`cmd/stagemaker/paths.go:279`): a missing file, a file of another length, a dead
  compressor and a full disk leave an archive that breaks off, and status 0.

In the models, which follow the code, and seen without a run:

* findLayerstate counts a derived layer's overlay as one of its imports
  (`manage/probe.go:252`): with one import missing the layer is "mounted", and chroot skips
  the implicit mount. mount itself is not deceived (`MountCompletes`, `MountedIsComplete`).
* remove without `-files` deletes the directory of a layer in state complete, though its
  build root may have files in it (`manage/layers.go:308`).
* umount without arguments makes an error and drops it (`manage/layers.go:588`);
  everything idle is unmounted.
* RenameLayer returns nil when a child's file cannot be opened; RemoveLayer drops the error
  of the rename that moves a directory aside; a layer without its overlayfs directories has
  its users overlooked; rename and rebase look for users of the children only, where the
  manual has all that "ultimately" depends on the layer.
* Add looks for the place of a package and keeps the last one that has a
  smaller key, where the first is meant (`portage/atom/atom.go:56`): slots 7.2, 7.3 and 7.4,
  added in this order, end up as 7.3, 7.4, 7.2. The test of Add expects the greatest first
  (`portage/atom/atomSet_test.go:71`) and adds 7.3 last, when only one smaller key is there.
  SortedAtoms goes over the packages backwards and takes them for sorted, so listings are
  out of order. What is in a set, and what an atom matches, does not depend on it
  (`SetsAreKeyed`, `MatchesAreExact`).
* omit with a wildcard removes nothing (`stage/addRemove.go:64`, `Without`), and the type
  of what a `dir` line names is not checked (`NeedTypeCheck`).
* A chain of more than `MaxSymlinkChain` links anywhere in the build root ends stagemaker
  (`ChainTooLong`), although the link is only looked at because it might be wanted.
* A range whose last number is all nines makes MakeNextVer loop (`NextVerEnds`); numbers of
  more digits than the width are not compared as numbers (`Fits`).

Outside of the models: the root and profile of a recipe override the command line and
errors in a recipe are collected but never asked for (`cmd/stagemaker/stagemaker.go:151`);
unescape loses the character after an octal escape (`fs/mounts.go:222`); a USE condition
with nothing after it is dereferenced as nil (`portage/depend/depend.go:123`); profiles that
are each other's parents are read for ever (`portage/profile/read_system_set.go:87`); a
block device is listed as a character device (`stage/expand.go:159`). Release suffixes after the
first are compared as strings: 1.0_alpha1_pre2, which is `_a00001_c00002`, comes after
1.0_alpha1, and 1.0_alpha_p2, which is `_a_p00002`, after 1.0_alpha1 as well, because an
underscore is after all digits (`portage/atom/parse.go:201`).

## 5. Proofs

All theorems hold for any set of names, imports, configurations and things to install, for
any number of processes, packages and dependencies, for any build root and lists. The
constants' assumptions are types and these:

* the empty name is no layer (`NoBaseAssumption`), and a tree that there is at first is finite
  and inheritable (`StartAssumption` of `LayercakeProcs`);
* in `NormalizedOrder`, names have no slash, and no two layers have one name
  (`SpellingAssumption`): they are names of directories;
* in `Versions` and `AtomSet`, there are at least two digits and a width of at least one
  (`RadixAssumption`, `WidthAssumption`), versions have the parts that the parser finds, in
  any number and of any length (`EntryAssumption`, `VersionAssumption`), and a set tells
  packages apart by version or by slot (`GroupingAssumption`);
* in `Layercake`, a layer-configuration file lists finitely many imports
  (`ConfigAssumption`);
* in `Resolver`, dependencies are trees: `Depth` has a natural number for each that is less
  for its parts, and atoms and blockers have no parts (`DepAssumption`). decodeDependency
  makes them so, from nested parentheses. Dependencies of *packages* may be cyclic all the
  same;
* in `StageList`, names are sorted so that one comes before those that begin with it, as
  Go's string order has it (`OrderAssumption`); the program's own three lists omit nothing,
  name no source, and what the device nodes are like is in the first of them, which has nodes
  where it is referred to (`OwnListsAssumption`, `DevAssumption`: data of `defaults/stagemaker.go`
  and `stage/staticDev.go`);
  `/dev` and the package database are below the paths that addMissingLinks does not look
  into (`PathAssumption`); a file with two names in a build root has a link count above one
  (`StartAssumption`).

With imports, all faults of `Layercake` together are covered by the proofs only.

* The walks, on every finite map: `CheckIsRight` (checkInheritance accepts exactly the
  inheritable maps), `WalkIsRight` (getAncestorsAndSelf, findLayerBase) and `OrderIsRight`
  (the order of normalizeOrder is total and has every base before what derives from it,
  whatever the names). `WalksAreRight` says the same of every reachable state of `Layercake`.
* Versions and atoms: `OrderOfVersions` (the order of the strings is that of the versions),
  `RangeIsExact` (what lies between the string of a range and the next), `CompareIsExact`
  (every relop), and with them `MatchesAreExact` in every reachable state of `AtomSet`.
  `SetsAreKeyed`: `AtomSet` refines `KeyedSet`, on the condition that the numbers of its
  packages fit the width (`AllFit`). Without it two spellings of one version with a leading
  zero in a long number are two keys. In `MatchIsExact` the condition is part of the property.
* `Layercake`, for every fault the model has: `TypeCorrect`, `OverlaysMatch`,
  `ChainsMounted`, `SourcesMatch`, `MountsSeen`, `NoLayerInError`, `NoDanglingLink`,
  `UsedMountsAreKept`, `UnmountAllUnmounts`, `MountsAreComplete`,
  `NeverACycle`. Without failing writes and kills
  (`Faults` has neither): `TreeIsImplemented` (the refinement of `LayerTree`) and
  `TreeStaysInheritable`, which rests on `TreePromise`, the theorem of the abstract
  specification.
* `LayercakeProcs`, for any number of processes and every race: `TypeCorrect`; of the layers
  that are not disturbed `TreeStaysInheritable`, `OverlaysFollow`, `ChainsStayMounted`,
  `ShellsKeep` and `MountsComplete`. None of them assumes anything of the users.
* `Resolver`: `NoPackageTwice` (the stack has at most one frame for each package, so that
  cyclic dependencies do not make it grow for ever), `BlockedStayOut`, `Solved` (the
  refinement of `PackageSelection`) and `NoneMissed` (without choices an error means that
  nothing solves the request).
* `StageList`: `StageListType`, `UnstagedOut`, `ParentsAreListed`, `FoundLinks` and
  `HardlinksAfterFiles`, which are all of its invariants.
* `StageTar`, for archives of any size, any size of standard input and every failure:
  `TarTypeCorrect`, `CompressedIsComplete`, `NoFalseAlarm`.

**The walks** are recursive functions. The library's induction theorems cannot be used
here, so `Recursion_proofs` shows by hand that a function defined from lesser numbers has
the values its definition says, and that a set of numbers has a least member; the walks are
then treated by the least step at which something would go wrong.

**Strings.** All orders here are orders of strings made of parts. `Recursion_proofs` has a
concatenation that the provers do not look into (`Cat`, `Lead`) and lemmas that say how two
strings compare whose first parts do: parts of one length compare first, and a part that ends
where the other goes on is decided by what follows. The keys of normalizeOrder are parts
after separators, and the hyphen, which is before the slash, does no harm because the keys of
a base and of what derives from it begin alike up to a separator (`KeysAreOrdered`): the
key of the base is the beginning of the other. For versions, digits padded to one length are in
the order of their values, by induction over a set of lengths; a sequence of numbers that
goes on has a dot where the other has a space or ends, and a space is before a dot
(`BeforeDot`), so that whatever follows the numbers counts only if they are the same. A letter,
the suffix and the revision are compared in the same way, one after the other
(`OrderOfVersions`). MakeNextVer changes only the end of a string, and a number at the end
has its full width: what lies between a string and the next is what begins with it
(`RangeIsExact`).

**`AtomSet`**: `SetsRight` says that a name's packages are of this name and that no two have one
key. It is inductive without any order of the packages, since Add and Remove look at all of
them. That the packages are sorted would not be: Add does not keep them so (section 4), and
neither what is in the set nor what an atom matches depends on it.

**`Layercake`: the inductive invariant** is `Sound`. `OverlayMatchesBase` is not inductive:
a rebase of a layer in the middle of a chain is refused only because something lies over that
layer, which follows from `ChainMounted`, and only because the probe finds it, which is
`MountsAreSeen`. `ChainMounted` speaks of whole chains, which are no longer what they
were after a step that alters the tree; `MountsFollowTree` says the same of one layer
and its base, and `ChainIsMounted` recovers the chain from it. Names that are not layers
must have no base (`Tidy`).

**The argument.** `ChainIsOverlain`: in the chain of a mounted layer everything but the
layer is overlain. Hence `UntouchedIfIdle`: what errorIfBusy lets pass is in no mounted
layer's chain. Every step is of one of four kinds, and there is one lemma for each:
`TreeStep` (the tree changes on a set of idle layers), `MountStep` (mounts are added
from the ultimate base upwards), `UnmountStep` (mounts go, and what loses its overlay
has nothing over it) and `IdleStep`. The lemmas `SoundAdd` to `SoundEnvironment` show
which action is of which kind. umount -all is a least fixed point (`StillBusy`: what is
in use, and what lies under a layer that stays); `BusyChainStays` and
`StillBusyIsLeast` bound it from below and above.

`MountCompletes` says more than that nothing is left to mount: findLayerstate has to see it.
`BuildDirsVisible`: the ultimate base has the minimal build directories, or it would not be
mountable, and every layer of the chain shows them. `ImportsUsable`: both ends of an import
are there, of one to be mounted because mountOne looks, of one that is mounted because the
layer would otherwise not be mountable. Neither is true of a layer on its own: a derived
layer that is not mounted counts as mountable without a look at either (`OwnState`).
`FiniteImports` is invariant, so that the mounts can be counted.

**`LayercakeProcs`** has the invariant `Inv`. Beyond types it has the first two properties,
and `MountedOnMounted`, which is `ChainsMounted` for one layer and its base. `Apart`: what a
command at work alters, others rely on only if it is disturbed. The rest is about one process
at a time (`Steady`). `Planned` is what a command has worked out from what it has read, which
is its own affair and needs no exception: the calls and the list of a mount go up the chain,
and the layers it relies on are a chain of the tree it has read. `Relied`: the undisturbed
ones of these layers are still what it has read. `Under`: those that are not mounted are in
its list. `Cleared`: the undisturbed layer that an unmount or a write is at work on is under
no overlay, and nothing is mounted on one that is about to be written (`Free`). `LowerKnown`:
an overlay stands on a layer or on a disturbed one.

The argument has two halves. What a command relies on another alters only after `Begin` has
marked it, and with it everything that derives from it: so an undisturbed chain has only
undisturbed layers (`ChainClean`), and what was read of it stays true. And a layer found free
stays so until the write, since only a mount that has it in its chain could end that, which
would have disturbed it. The lemmas `InvBegin` to `InvRemoveLayer` take one step each; what
they have in common is in `OthersRest`, `OthersCalled` and `OthersWrite`, which say what a
step leaves of the account of the other processes.

Shells are not at work, and disturb nothing. `ShellInv` says why they are safe: a process in
a shell has a mounted layer (`Stands`), and a command that would alter that layer has the
shell in its list or among the users it has found, or has yet to read the list (`Shell`,
`Finds`). A command that has looked earlier and found none is still at work while the
mount command that starts the shell is (`Entering`), and then the layer is disturbed. An
unmount below the layer of a shell is refused because of the overlay, which cannot go.

`MountedIsComplete` is about layers nobody is at work on, which says nothing about how
they got there. `CompleteInv` has the times between. `Whole`: in the root on top of a
mounted layer each import is mounted or *due*, in the calls of a command that is not
through; and no import comes before the overlay. `Ahead`: whoever is about to bring an
overlay, or the first mount, has all imports on its list, so that a new root put on a
finished one is finished too. `Known` and `Clear`: what is no layer, or is about to be
written, has no mounts. A command whose snapshot is out of date can only mount an import
once more, or put another root on top with all imports behind it; a command that unmounts
(`BeingUnmounted`) leaves the layer bare or in `torn`.

**`Resolver`**: that no package has two frames follows from the mark `added`, which is set
before the frame is made. `added` and `blocked` are disjoint because each of `TakeBlocker`
and `AddPackage` looks at the other's mark. That is `Inv`.

The refinement needs an account of what the stack still owes, `Account`. `Asks`: what a
frame has yet to go through are parts of its package's dependencies, and what it has found
is asked for by them. `Blocking`: a blocker of an added package is in something yet to be
gone through, or what it stands for is marked. `Meeting`: an added package has a frame that
*promises* its dependencies (every selection that has what is found, meets what is left and
avoids what is marked, meets them) or they are *fulfilled* (every selection that has all
that is added, and nothing that is marked, meets them). A choice hands its promise down:
the frame below may count on something of what the choice can still come to (`Offer`).
`Forced`: without choices all this is in every solution. `Shape` says how frames lie on one
another: those of choices are innermost, and a package's list ends with the mark, so that
when it is through, all that it has found is added. The stack of a recursion has a common
kind of step, in which the innermost frame takes one dependency off and puts others in its
place (`Advances`); five lemmas (`AdvanceShape` to `AdvanceForced`) say when that keeps the
account, and each action is shown to be such a step or, where frames come and go, treated by
itself. At the end the stack is empty, nothing is promised or coming any more, so that all
is fulfilled (`SolvedAtLast`). What a dependency asks for, names and means is defined by
recursion on its parts; `PartsRule`, `NamesRule` and `MetRule` are obtained from
`TreeFunctionExists`.

**`StageList`** has the invariant `IInv`. `Basic` is about types and about what is unchanged.
`OriginsOK` says for each phase from where listed names can still come that ExcludeFiles has
taken away; `UnstagedStayOut` follows from it in the last phases. `LinksOK` is
`FoundLinksLead` for the phases before, with the addition that what a link leads to is
not of packages that are not staged while such files can still be taken away. `ParentsOK`:
what is above a listed name is listed or above a directory that is still to be gone over.
`HardlinksFollowFiles` is established in one step, by `FixHardlinks`, from three facts: the
sorted list has each entry once (`SortedIs`, by `OnlyInjective`), an entry has an inode if
and only if the file has other names (`EntryOK`), and the first of some places is before
the others (`FirstIsFirst`).

**`StageTar`.** `OkIsComplete` is not inductive: the compressor's good end says nothing
by itself. `Through` counts the units: what is in the file, in the compressor's input and
in the hands of the copying goroutine is what was written, unless the compressor has
failed; its input ends only after the pipe is closed; the pipe is closed only after the
last unit (`Progress`).

**Only model-checked:** liveness (`AlwaysEnds`, twice), which the provers cannot do here.
Every other property of the passing runs is a theorem.

## 6. Plan

Open is rename next to other commands in `LayercakeProcs`, and imports from the base layer
there.

### Not modelled

* Configuration (`config/*.go`): files read once at the start, the first source wins.
  Nothing that happens later depends on more than the values.
* Reading of text: the fields of mountinfo, `layerconfig` and list lines, atoms, dependency
  strings, profiles and recipes. These are functions from text to the data that the models
  start from; the repository has tests for most of them.
* shake: it remounts what is mounted, and no table shows the difference.
* Modes, owners, times, device numbers; formatting of tables; default texts; pretend mode,
  in which nothing is done; the build helper and the ebuild.
