------------------------------ MODULE MCProcs ------------------------------
(***************************************************************************)
(* Values of LayercakeProcs' constants for TLC.                            *)
(***************************************************************************)
EXTENDS LayercakeProcs, TLC

Symmetry == Permutations(Layer) \cup Permutations(Process)
ProcessSymmetry == Permutations(Process)

NoImports == <<>>
TwoImports == <<"dev", "proc">>

\* No layers: add makes them.  Or a base layer and one that derives from it.
NoLayers == {EmptyTree}
CONSTANTS a, b
OnePair == {[layers |-> {a, b}, base |-> (a :> NoBase) @@ (b :> a)]}

\* The commands that alter the tree, and those that mount; the mounts of the
\* latter have imports, and shells.
TreeOps == {"add", "remove", "rebase", "mount", "umount"}
MountOps == {"mount", "umount", "chroot", "remove"}

\* What a command may still look at of the layerconfig files it has read.
StillRead(p) ==
    CASE cmd[p].op \in Mounts -> [l \in needs[p] |-> tree[p].base[l]]
      [] cmd[p].op = "remove" -> <<OwnBase(p, cmd[p].on), OwnChildren(p, cmd[p].on)>>
      [] cmd[p].op = "rebase" -> tree[p]
      [] OTHER                -> <<>>

\* The runs tell no states apart by what a command has read and will not look at.
\* The one without imports does not by torn either: its properties do not read
\* torn, and its MaxHarmed stops no command.
WithoutTorn == <<layers, base, roots, disturbed, pc, cmd, needs, listed, users, todo,
                 calls, inside, [p \in Process |-> StillRead(p)]>>
WithTorn == <<torn, WithoutTorn>>
=============================================================================
