--------------------------- MODULE LayercakeProcs ---------------------------
(***************************************************************************)
(* Several layercake commands at work at the same time.                    *)
(*                                                                         *)
(* There is no lock.  A command reads the layerconfig files, then /proc,   *)
(* then the mount table (getLayers), checks its request against what it    *)
(* has read, and makes its system calls one after the other.  Here each of *)
(* these is a step.  Mount alone reads the mount table again, when it is   *)
(* done with a layer of the chain.                                         *)
(*                                                                         *)
(* The mount table has stacks: an overlay can be mounted over another on   *)
(* the same build root, and an import over another on the same directory.  *)
(* What is mounted in the lower build root is then out of reach of paths,  *)
(* but its lines are still in mountinfo, and the code goes by these.       *)
(*                                                                         *)
(* Every layer is populated: directories and mountpoints are all there.    *)
(***************************************************************************)
EXTENDS LayerMap, Filtering

CONSTANTS Process,     \* the commands that can be at work at a time
          Imports,     \* the imports of every layerconfig, in their order
          Ops,         \* the commands that are run
          Start,       \* the trees of layers there may be at first
          MaxDisturbed, \* bound on the layers that races may disturb
          MaxHarmed    \* bound on those that are torn or disturbed when a
                       \* command starts

\* What a command reads of the layerconfig files.
Tree == [layers : SUBSET Layer, base : [Layer -> Layer \cup {NoBase}]]
EmptyTree == [layers |-> {}, base |-> [l \in Layer |-> NoBase]]

ASSUME ImportsAssumption == Imports \in Seq(STRING \ {"overlay"})
ASSUME StartAssumption ==
    \A t \in Start : /\ t \in Tree
                     /\ IsFiniteSet(t.layers)
                     /\ Inheritable(t.layers, t.base)
                     /\ \A l \in Layer \ t.layers : t.base[l] = NoBase

Import == {Imports[k] : k \in DOMAIN Imports}

\* The layers are those that have a layerconfig file; base is what it names as
\* its base.  torn, disturbed and needs are histories that no step goes by, but
\* for the bounds on them.
VARIABLES
    roots,    \* for each layer the build roots stacked on one another: the
              \* directory itself and the overlays on it, each with its lower
              \* layer and how many times each import is mounted in it
    torn,     \* the layers of which some, but not all, that a command meant to
              \* mount or unmount is
    disturbed, \* the layers that one command altered while another relied on
              \* them, and the layers that derived from those
    pc,       \* where each process is
    cmd,      \* the command it runs
    needs,    \* the layers the command relies on: that they exist, have their
              \* base and stay mounted
    tree,     \* the layers and bases it has read
    listed,   \* the shells in its list of processes that it has yet to look at
    users,    \* the layers in use that it has found
    todo,     \* mount: the layers of the chain that are still to be mounted
    calls,    \* the system calls it has yet to make for the present layer
    inside    \* chroot: which of the layer's roots is the root of its shell

shared == <<layers, base, roots, torn, disturbed>>
local == <<cmd, needs, tree, listed, users, todo, calls, inside>>
vars == <<shared, pc, local>>

Command == [op : Ops, on : Layer, to : Layer \cup {NoBase}]
NoCommand == [op |-> "none", on |-> NoBase, to |-> NoBase]
Mounts == {"mount", "chroot"}
Writes == {"add", "remove", "rebase"}

\* A system call on a layer's build root ("overlay") or on an import in it.
Call == [do : {"mount", "umount"}, on : Layer, at : {"overlay"} \cup Import]

Root == [lower : Layer \cup {NoBase}, bound : [Import -> Nat]]
Directory == [lower |-> NoBase, bound |-> [i \in Import |-> 0]]
Bare == <<Directory>>

\* Type correctness.  Only a command that is making them has system calls left,
\* and only one that reads /proc has processes to look at.
TypeOK ==
    /\ layers \subseteq Layer
    /\ base \in [Layer -> Layer \cup {NoBase}]
    /\ roots \in [Layer -> Seq(Root) \ {<<>>}]
    /\ torn \subseteq Layer /\ disturbed \subseteq Layer
    /\ pc \in [Process -> {"idle", "list", "scan", "probe", "calls", "write",
                           "enter", "inside"}]
    /\ cmd \in [Process -> Command \cup {NoCommand}]
    /\ needs \in [Process -> SUBSET Layer]
    /\ tree \in [Process -> Tree]
    /\ listed \in [Process -> SUBSET Process]
    /\ users \in [Process -> SUBSET Layer]
    /\ todo \in [Process -> Seq(Layer)]
    /\ calls \in [Process -> Seq(Call)]
    /\ inside \in [Process -> Nat]
    /\ \A p \in Process : /\ todo[p] # <<>> \/ calls[p] # <<>> => pc[p] = "calls"
                          /\ pc[p] = "inside" <=> inside[p] > 0
                          /\ listed[p] # {} => pc[p] = "scan"
                          /\ \A q \in listed[p] : pc[q] = "inside"

\* Nothing is mounted, nothing at work.
Init ==
    /\ \E t \in Start : layers = t.layers /\ base = t.base
    /\ roots = [l \in Layer |-> Bare]
    /\ torn = {} /\ disturbed = {}
    /\ pc = [p \in Process |-> "idle"]
    /\ cmd = [p \in Process |-> NoCommand]
    /\ needs = [p \in Process |-> {}]
    /\ tree = [p \in Process |-> EmptyTree]
    /\ listed = [p \in Process |-> {}]
    /\ users = [p \in Process |-> {}]
    /\ todo = [p \in Process |-> <<>>]
    /\ calls = [p \in Process |-> <<>>]
    /\ inside = [p \in Process |-> 0]

-----------------------------------------------------------------------------
(* What is in the mount table, as the code reads it.                       *)

\* The root that paths lead to is the last one mounted.
Last(s) == s[Len(s)]
Top(l) == Last(roots[l])

\* GetMount: the last line for a mountpoint, in whichever root it is.
OverlayOn(l) == Top(l).lower
BoundOn(l) == {i \in Import : \E k \in DOMAIN roots[l] : roots[l][k].bound[i] > 0}
HasMounts(l) == OverlayOn(l) # NoBase \/ BoundOn(l) # {}

\* GetOverlayLowerdirs: every overlay counts, also one that is covered.
Overlain(l) ==
    \E c \in Layer : \E k \in DOMAIN roots[c] : roots[c][k].lower = l

-----------------------------------------------------------------------------
(* Which commands race, and for which layers.                              *)

Chain(l) == IF l \in layers THEN AncestorsAndSelf(layers, base, l) ELSE {}
AtWork(p) == pc[p] \notin {"idle", "inside"}

Needs(c) == IF c.op \in Mounts THEN Chain(c.on)
            ELSE IF c.op \in {"add", "rebase"} THEN Chain(c.to) ELSE {}
Alters(c) == IF c.op \in Mounts THEN {} ELSE {c.on}

\* What c alters and a command at work relies on, or the other way round.
Raced(c) == UNION {(Alters(c) \cap needs[q]) \cup (Alters(cmd[q]) \cap Needs(c)) :
                      q \in {r \in Process : AtWork(r)}}

\* The layers of S and those that derive from them.
DerivedFrom(S) == {l \in Layer : ({l} \cup Chain(l)) \cap S # {}}

-----------------------------------------------------------------------------
(* getLayers: FindLayers, FindLayerUsers, ProbeAllLayerstate.              *)

Goto(p, label) == pc' = [pc EXCEPT ![p] = label]

\* A command starts and reads the layerconfig files.  FindLayers ends it when
\* they make no tree, and testName when the names do not fit.
Begin(p, c) ==
    /\ pc[p] = "idle"
    /\ Inheritable(layers, base)
    /\ c.op = "add" <=> c.on \notin layers
    /\ c.to \in IF c.op \in {"add", "rebase"} THEN layers \cup {NoBase} ELSE {NoBase}
    /\ c.to # c.on
    /\ cmd' = [cmd EXCEPT ![p] = c]
    /\ tree' = [tree EXCEPT ![p] = [layers |-> layers, base |-> base]]
    /\ needs' = [needs EXCEPT ![p] = Needs(c)]
    /\ disturbed' = disturbed \cup DerivedFrom(Raced(c))
    /\ Cardinality(disturbed') <= MaxDisturbed
    /\ Cardinality(disturbed' \cup torn) <= MaxHarmed
    /\ Goto(p, "list")
    /\ UNCHANGED <<layers, base, roots, torn, listed, users, todo, calls, inside>>

\* FindLayerUsers reads the list of processes, of which those count that have
\* their root in a layer.
List(p) ==
    LET shells == {q \in Process : pc[q] = "inside"}
    IN  /\ pc[p] = "list"
        /\ listed' = [listed EXCEPT ![p] = shells]
        /\ Goto(p, IF shells = {} THEN "probe" ELSE "scan")
        /\ UNCHANGED <<shared, cmd, needs, tree, users, todo, calls, inside>>

\* It looks at one process after the other, unless the list is empty by now.
Look(p) ==
    /\ pc[p] = "scan"
    /\ \E q \in listed[p] :
          /\ listed' = [listed EXCEPT ![p] = @ \ {q}]
          /\ users' = [users EXCEPT ![p] = @ \cup {cmd[q].on}]
    /\ UNCHANGED <<shared, pc, cmd, needs, tree, todo, calls, inside>>

Scanned(p) ==
    /\ pc[p] = "scan" /\ listed[p] = {}
    /\ Goto(p, "probe")
    /\ UNCHANGED <<shared, local>>

\* What a command has read is of no more use to it.
Forget(p) == /\ tree' = [tree EXCEPT ![p] = EmptyTree]
             /\ users' = [users EXCEPT ![p] = {}]

\* The command ends, with or without an error, or comes to its last step.  A
\* shell that has ended is in no list of processes any more.
Leaves(p, label) ==
    /\ Goto(p, label)
    /\ cmd' = IF label = "idle" THEN [cmd EXCEPT ![p] = NoCommand] ELSE cmd
    /\ needs' = IF label \in {"idle", "inside"} THEN [needs EXCEPT ![p] = {}] ELSE needs
    /\ listed' = [q \in Process |-> IF q = p THEN {} ELSE listed[q] \ {p}]
    /\ Forget(p)
    /\ todo' = [todo EXCEPT ![p] = <<>>]

\* Mutation: after an error the system calls that are left are still made.
FinishCallsLeft(p, label) == Leaves(p, label) /\ UNCHANGED calls

Finish(p, label) ==
    /\ Leaves(p, label)
    /\ calls' = [calls EXCEPT ![p] = <<>>]

OwnBase(p, l) == tree[p].base[l]
OwnChain(p, l) == GetAncestorsAndSelf(tree[p].layers, tree[p].base, l)
OwnChildren(p, l) == Children(tree[p].layers, tree[p].base, l)

\* findLayerstate: an overlay whose lower directory is not that of the base.
InError(p, l) == /\ OwnBase(p, l) # NoBase
                 /\ OverlayOn(l) \notin {NoBase, OwnBase(p, l)}
ChainInError(p, l) == \E k \in DOMAIN OwnChain(p, l) : InError(p, OwnChain(p, l)[k])

\* findLayerstate: whether the layer counts as mounted.  The overlay of a
\* derived layer is counted with its imports.
CountsAsMounted(p, l) ==
    /\ ~ChainInError(p, l)
    /\ OwnBase(p, l) # NoBase => OverlayOn(l) # NoBase
    /\ LET counted == Cardinality(BoundOn(l)) + (IF OwnBase(p, l) = NoBase THEN 0 ELSE 1)
       IN  counted > 0 /\ counted >= Len(Imports)

\* Mutations: the layer's own mounts, the overlays over it or its users are
\* not looked for.
BusyOwnMounts(p, l) == l \in users[p] \/ Overlain(l)
MountsBusyUsers(p, l) == l \in users[p]
MountsBusyOverlain(p, l) == Overlain(l)

\* errorIfBusy, when a layer is to be altered and when it is to be unmounted.
Busy(p, l) == HasMounts(l) \/ l \in users[p] \/ Overlain(l)
MountsBusy(p, l) == l \in users[p] \/ Overlain(l)

-----------------------------------------------------------------------------
(* Mount and Chroot.                                                       *)

CallsOn(l, do, points) == [k \in DOMAIN points |-> [do |-> do, on |-> l, at |-> points[k]]]

\* Mutation: the imports first.
MountCallsImportsFirst(p, l) ==
    CallsOn(l, "mount",
        Only(Imports, Import \ BoundOn(l))
          \o (IF OwnBase(p, l) # NoBase /\ OverlayOn(l) = NoBase THEN <<"overlay">> ELSE <<>>))

\* mountOne: what is not in the mount table is mounted, the overlay first.
MountCalls(p, l) ==
    CallsOn(l, "mount",
        (IF OwnBase(p, l) # NoBase /\ OverlayOn(l) = NoBase THEN <<"overlay">> ELSE <<>>)
          \o Only(Imports, Import \ BoundOn(l)))

\* The mount table has just been read: go on with the layers of the sequence.
MountNext(p, chain) ==
    /\ calls' = [calls EXCEPT ![p] = MountCalls(p, Head(chain))]
    /\ todo' = [todo EXCEPT ![p] = Tail(chain)]
    /\ users' = [users EXCEPT ![p] = {}]
    /\ Goto(p, "calls")

\* Mount, and Chroot of a layer that is not mounted.
ProbeForMount(p) ==
    LET l == cmd[p].on
    IN  /\ pc[p] = "probe" /\ cmd[p].op \in Mounts
        /\ ~ChainInError(p, l)
        /\ cmd[p].op = "chroot" => ~CountsAsMounted(p, l)
        /\ MountNext(p, OwnChain(p, l))
        /\ UNCHANGED <<shared, cmd, needs, tree, listed, inside>>

\* Chroot of a layer that is mounted.
ProbeForChroot(p) ==
    /\ pc[p] = "probe" /\ cmd[p].op = "chroot"
    /\ CountsAsMounted(p, cmd[p].on)
    /\ Finish(p, "enter")
    /\ UNCHANGED <<shared, inside>>

\* mountOne is done with a layer and reads the mount table again.
Refresh(p) ==
    /\ pc[p] = "calls" /\ cmd[p].op \in Mounts
    /\ calls[p] = <<>> /\ todo[p] # <<>>
    /\ MountNext(p, todo[p])
    /\ UNCHANGED <<shared, cmd, needs, tree, listed, inside>>

Mounted(p) ==
    /\ pc[p] = "calls" /\ cmd[p].op \in Mounts
    /\ calls[p] = <<>> /\ todo[p] = <<>>
    /\ Finish(p, IF cmd[p].op = "chroot" THEN "enter" ELSE "idle")
    /\ UNCHANGED <<shared, inside>>

\* The shell has its root in the build root that is on top now.
Enter(p) ==
    /\ pc[p] = "enter" /\ cmd[p].on \in layers
    /\ inside' = [inside EXCEPT ![p] = Len(roots[cmd[p].on])]
    /\ Finish(p, "inside")
    /\ UNCHANGED shared

Leave(p) ==
    /\ pc[p] = "inside"
    /\ inside' = [inside EXCEPT ![p] = 0]
    /\ Finish(p, "idle")
    /\ UNCHANGED shared

-----------------------------------------------------------------------------
(* Unmount.                                                                *)

\* unmountLayer: what is in the mount table, each mountpoint once and in
\* descending order, the build root last.
UnmountCalls(l) ==
    LET bound == Only(Imports, BoundOn(l))
        up == (IF OverlayOn(l) # NoBase THEN <<"overlay">> ELSE <<>>) \o bound
    IN  CallsOn(l, "umount", [k \in DOMAIN up |-> up[Len(up) + 1 - k]])

ProbeForUnmount(p) ==
    LET l == cmd[p].on
    IN  /\ pc[p] = "probe" /\ cmd[p].op = "umount"
        /\ ~MountsBusy(p, l)
        /\ HasMounts(l)
        /\ calls' = [calls EXCEPT ![p] = UnmountCalls(l)]
        /\ Forget(p)
        /\ Goto(p, "calls")
        /\ UNCHANGED <<shared, cmd, needs, listed, todo, inside>>

\* unmountLayer returns.  Nobody looks whether the layer is mounted still.
Unmounted(p) ==
    /\ pc[p] = "calls" /\ cmd[p].op = "umount" /\ calls[p] = <<>>
    /\ torn' = IF roots[cmd[p].on] = Bare THEN torn ELSE torn \cup {cmd[p].on}
    /\ Finish(p, "idle")
    /\ UNCHANGED <<layers, base, roots, disturbed, inside>>

-----------------------------------------------------------------------------
(* The system calls, and what the kernel makes of them.                    *)

NextCallIs(p, do, places) ==
    /\ pc[p] = "calls" /\ calls[p] # <<>>
    /\ Head(calls[p]).do = do
    /\ Head(calls[p]).at \in places

\* The call succeeds: the roots of the layer are rs now.
Called(p, rs) ==
    LET l == Head(calls[p]).on
    IN  /\ roots' = [roots EXCEPT ![l] = rs]
        /\ torn' = IF rs = Bare THEN torn \ {l} ELSE torn
        /\ calls' = [calls EXCEPT ![p] = Tail(@)]
        /\ UNCHANGED <<layers, base, disturbed, pc, cmd, needs, tree, listed, users,
                       todo, inside>>

MountOverlay(p) ==
    LET l == Head(calls[p]).on
    IN  /\ NextCallIs(p, "mount", {"overlay"})
        /\ {l, OwnBase(p, l)} \subseteq layers
        /\ Called(p, Append(roots[l], [Directory EXCEPT !.lower = OwnBase(p, l)]))

\* In the build root on top import i is mounted n times.
WithBound(l, i, n) == [roots[l] EXCEPT ![Len(roots[l])].bound[i] = n]

MountImport(p) ==
    LET c == Head(calls[p])
    IN  /\ NextCallIs(p, "mount", Import)
        /\ c.on \in layers
        /\ Called(p, WithBound(c.on, c.at, Top(c.on).bound[c.at] + 1))

UnmountImport(p) ==
    LET c == Head(calls[p])
    IN  /\ NextCallIs(p, "umount", Import)
        /\ Top(c.on).bound[c.at] > 0
        /\ Called(p, WithBound(c.on, c.at, Top(c.on).bound[c.at] - 1))

\* The kernel takes no overlay off that has mounts in it or is a shell's root.
UnmountOverlay(p) ==
    LET l == Head(calls[p]).on
    IN  /\ NextCallIs(p, "umount", {"overlay"})
        /\ OverlayOn(l) # NoBase
        /\ \A i \in Import : Top(l).bound[i] = 0
        /\ ~\E q \in Process : /\ pc[q] = "inside" /\ cmd[q].on = l
                               /\ inside[q] = Len(roots[l])
        /\ Called(p, SubSeq(roots[l], 1, Len(roots[l]) - 1))

\* A call fails: the device is busy, the mountpoint or the source is missing.
\* A second overlay with the same upper directory is refused by some kernels;
\* the layer lacks nothing then.
CallFails(p) ==
    LET c == Head(calls[p])
    IN  /\ pc[p] = "calls" /\ calls[p] # <<>>
        /\ torn' = IF roots[c.on] = Bare \/ (c.do = "mount" /\ c.at = "overlay")
                   THEN torn ELSE torn \cup {c.on}
        /\ Finish(p, "idle")
        /\ UNCHANGED <<layers, base, roots, disturbed, inside>>

-----------------------------------------------------------------------------
(* AddLayer, RemoveLayer, RebaseLayer.                                     *)

\* Mutation: the children are not looked for.
MayRemoveParent(p, l) == ~InError(p, l) /\ ~Busy(p, l)

MayRemove(p, l) == /\ ~InError(p, l)
                   /\ OwnChildren(p, l) = {}
                   /\ ~Busy(p, l)

\* On a base that derives from the layer normalizeOrder never ends, and the
\* user has to kill the command; the file is not written.
MayRebase(p, l, b) ==
    /\ ~InError(p, l)
    /\ \A k \in OwnChildren(p, l) \cup {l} : ~Busy(p, k)
    /\ Inheritable(tree[p].layers, [tree[p].base EXCEPT ![l] = b])

MayWrite(p) == CASE cmd[p].op = "add" -> TRUE
                 [] cmd[p].op = "remove" -> MayRemove(p, cmd[p].on)
                 [] cmd[p].op = "rebase" -> MayRebase(p, cmd[p].on, cmd[p].to)

ProbeForWrite(p) ==
    /\ pc[p] = "probe" /\ cmd[p].op \in Writes
    /\ MayWrite(p)
    /\ Finish(p, "write")
    /\ UNCHANGED <<shared, inside>>

WriteLayer(p) ==
    /\ pc[p] = "write" /\ cmd[p].op \in {"add", "rebase"}
    /\ cmd[p].op = "rebase" => cmd[p].on \in layers
    /\ layers' = layers \cup {cmd[p].on}
    /\ base' = [base EXCEPT ![cmd[p].on] = cmd[p].to]
    /\ disturbed' = IF cmd[p].to \in disturbed
                    THEN disturbed \cup DerivedFrom({cmd[p].on}) ELSE disturbed
    /\ Finish(p, "idle")
    /\ UNCHANGED <<roots, torn, inside>>

RemoveLayer(p) ==
    /\ pc[p] = "write" /\ cmd[p].op = "remove"
    /\ layers' = layers \ {cmd[p].on}
    /\ base' = [base EXCEPT ![cmd[p].on] = NoBase]
    /\ Finish(p, "idle")
    /\ UNCHANGED <<roots, torn, disturbed, inside>>

-----------------------------------------------------------------------------
\* A process goes away while FindLayerUsers looks at it, the checks of a command
\* fail, or what it is to write to or enter is gone.
Refused(p) ==
    LET l == cmd[p].on
    IN  /\ \/ pc[p] = "scan"
           \/ /\ pc[p] = "probe"
              /\ \/ cmd[p].op \in Mounts /\ ChainInError(p, l)
                 \/ cmd[p].op = "umount" /\ (MountsBusy(p, l) \/ ~HasMounts(l))
                 \/ cmd[p].op \in Writes /\ ~MayWrite(p)
           \/ pc[p] = "write" /\ cmd[p].op = "rebase" /\ l \notin layers
           \/ pc[p] = "enter" /\ l \notin layers
        /\ Finish(p, "idle")
        /\ UNCHANGED <<shared, inside>>

Step(p) == \/ \E c \in Command : Begin(p, c)
           \/ List(p) \/ Look(p) \/ Scanned(p)
           \/ ProbeForMount(p) \/ ProbeForChroot(p) \/ ProbeForUnmount(p)
           \/ ProbeForWrite(p) \/ Refused(p)
           \/ MountOverlay(p) \/ MountImport(p) \/ Refresh(p) \/ Mounted(p)
           \/ UnmountImport(p) \/ UnmountOverlay(p) \/ Unmounted(p)
           \/ CallFails(p)
           \/ WriteLayer(p) \/ RemoveLayer(p)
           \/ Enter(p) \/ Leave(p)

Next == \E p \in Process : Step(p)

Spec == Init /\ [][Next]_vars

-----------------------------------------------------------------------------
(* What holds however commands overlap: the harm that a race does stays    *)
(* with the layers that are disturbed, those that one command altered      *)
(* while another relied on them and what derives from them.                *)

\* Every overlay, covered ones too, has the base of its layer as its lower
\* layer: no rebase or remove slips in between the reading and the mounting
\* of a mount command that it does not disturb, nor under what is mounted.
OverlaysFollowTree ==
    \A l \in Layer \ disturbed : \A k \in DOMAIN roots[l] :
        k > 1 => l \in layers /\ roots[l][k].lower = base[l]

\* The derived layers under a mounted derived layer are mounted, also while
\* several mount and umount commands are at work.
ChainsMounted ==
    \A l \in Layer \ disturbed : OverlayOn(l) # NoBase =>
        \A a \in Chain(l) : base[a] # NoBase => OverlayOn(a) # NoBase

\* The layers that are not disturbed make a tree that FindLayers can read.
TreeInheritable == Inheritable(layers \ disturbed, base)

\* No process is about to change what is mounted in layer l.
Resting(l) ==
    \A p \in Process : pc[p] = "calls" =>
        IF cmd[p].op = "umount" THEN cmd[p].on # l ELSE l \notin needs[p]

\* However the system calls of mounting commands mix, what stacks they make:
\* when they are done, the root of a mounted layer that a shell would now get
\* has all imports, unless a call has failed on the layer or an unmount has
\* left some of a stack.
MountedIsComplete ==
    \A l \in layers \ (torn \cup disturbed) : HasMounts(l) /\ Resting(l) =>
        \A i \in Import : Top(l).bound[i] > 0

\* What a shell has in its root and below stays while it is there.
ShellsKeepMounts ==
    [][\A p \in Process :
          pc[p] = "inside" /\ pc'[p] = "inside" /\ cmd[p].on \notin disturbed =>
          \A a \in Chain(cmd[p].on) :
              /\ Len(roots'[a]) >= Len(roots[a])
              /\ \A k \in DOMAIN roots[a], i \in Import :
                    roots'[a][k].bound[i] >= roots[a][k].bound[i]]_vars

=============================================================================
