-------------------------- MODULE Layercake_proofs --------------------------
(***************************************************************************)
(* What the layer manager keeps, proved for every set of layer names, of   *)
(* imports and of configurations, and for every fault the model has unless *)
(* a theorem says otherwise.                                               *)
(*                                                                         *)
(* The argument.  A command that alters the tree of layers refuses a layer *)
(* that is mounted or overlain.  A mounted layer's whole chain is mounted, *)
(* so every layer of the chain but the first is overlain: what the command *)
(* alters lies in no mounted layer's chain (UntouchedIfIdle).  Mount works *)
(* from the ultimate base upwards and unmount refuses what is overlain, so *)
(* chains stay mounted as a whole.                                         *)
(***************************************************************************)
EXTENDS Layercake, Inheritance_proofs

\* Names that are not layers have no base.
Tidy == \A l \in Layer : l \notin layers => base[l] = NoBase

\* Something is mounted in the layer.
HasMount(l) == overlay[l] # NoBase \/ binds[l] # {}

\* ChainMounted and OverlayMatchesBase, one layer at a time: what is mounted is
\* a layer, an overlay has the base below it, the base is itself mounted unless
\* it is a base layer, and imports are mounted over the overlay.
MountsFollowTree ==
    \A l \in Layer :
        /\ overlay[l] # NoBase =>
              /\ l \in layers
              /\ overlay[l] = base[l]
              /\ base[base[l]] # NoBase => overlay[base[l]] # NoBase
        /\ binds[l] # {} => l \in layers /\ (base[l] = NoBase \/ overlay[l] # NoBase)

\* The inductive invariant.  BindsFromRoot speaks of chains and so needs the
\* chains of mounted layers to stay; that needs MountsFollowTree, to find a
\* layer of a mounted chain overlain, and MountsAreSeen, for the commands to
\* see that.
Sound == /\ TypeOK
         /\ Tidy
         /\ MountsFollowTree
         /\ MountsAreSeen
         /\ BindsFromRoot
         /\ ExportsFollowLayers

-----------------------------------------------------------------------------
(* Facts about a state.                                                    *)

\* NoBase is no layer.
LEMMA NoBaseIsNoLayer == TypeOK => NoBase \notin layers
  BY NoBaseAssumption DEF TypeOK

\* In a tree the base of a layer in a chain is not the chain's layer.
LEMMA BelowItself ==
    ASSUME TypeOK, Loadable, NEW l \in layers, NEW a \in Chain(l)
    PROVE  base[a] # l
<1>1. a \in layers
  BY ChainSelf DEF Chain
<1>2. SUFFICES ASSUME base[a] = l PROVE FALSE
  OBVIOUS
<1>3. l \in Chain(a)
  BY <1>1, <1>2, ChainSelf, ChainStep DEF Chain
<1>4. a = l
  BY <1>3, ChainAntisymmetric DEF Chain, Loadable
<1>5. {l} \in SUBSET layers /\ {l} # {} /\ \A x \in {l} : base[x] \in {l}
  BY <1>2, <1>4
<1> QED BY <1>5 DEF Loadable, Inheritable, Acyclic

\* A mounted layer's chain is mounted: ChainMounted follows from its local form.
LEMMA ChainIsMounted == Sound => ChainMounted
<1> SUFFICES ASSUME Sound, NEW l \in layers, overlay[l] # NoBase
             PROVE  \A a \in Chain(l) : base[a] # NoBase => overlay[a] # NoBase
  BY DEF ChainMounted
<1> DEFINE S == {a \in layers : base[a] # NoBase => overlay[a] # NoBase}
<1>1. \A d \in S : base[d] \in layers => base[d] \in S
  <2> SUFFICES ASSUME NEW d \in S, base[d] \in layers, base[base[d]] # NoBase
               PROVE  overlay[base[d]] # NoBase
    OBVIOUS
  <2>1. base[d] # NoBase
    BY NoBaseIsNoLayer DEF Sound
  <2> QED BY <2>1 DEF Sound, TypeOK, MountsFollowTree
<1>2. S \in SUBSET layers /\ l \in S
  OBVIOUS
<1> HIDE DEF S
<1>3. Chain(l) \subseteq S
  BY <1>1, <1>2, ChainLeast DEF Chain
<1> QED BY <1>3 DEF S

\* Every layer of a mounted layer's chain, but the layer itself, is overlain.
LEMMA ChainIsOverlain ==
    ASSUME Sound, NEW l \in layers, overlay[l] # NoBase,
           NEW a \in Chain(l), a # l
    PROVE  \E c \in Chain(l) : c \in Layer /\ overlay[c] = a
<1>1. PICK c \in Chain(l) : base[c] = a
  BY ChainChild DEF Chain
<1>2. c \in layers /\ a \in layers
  BY ChainSelf DEF Chain
<1>3. base[c] # NoBase
  BY <1>1, <1>2, NoBaseIsNoLayer DEF Sound
<1>4. overlay[c] # NoBase
  BY <1>3, ChainIsMounted DEF ChainMounted
<1> QED BY <1>1, <1>2, <1>4 DEF Sound, TypeOK, MountsFollowTree

\* What is idle, or is no layer, is in no mounted layer's chain.
LEMMA UntouchedIfIdle ==
    ASSUME Sound, NEW l \in Layer, HasMount(l), NEW a \in Chain(l)
    PROVE  a \in layers /\ InUse(a)
<1>1. l \in layers
  BY DEF Sound, MountsFollowTree, HasMount
<1>2. a \in layers
  BY <1>1, ChainSelf DEF Chain
<1>3. CASE a = l
  BY <1>2, <1>3 DEF Sound, MountsAreSeen, HasMount, InUse, HasMounts
<1>4. CASE a # l /\ overlay[l] # NoBase
  BY <1>1, <1>2, <1>4, ChainIsOverlain DEF InUse, Overlain
<1>5. CASE a # l /\ overlay[l] = NoBase
  <2>1. base[l] \notin layers
    BY <1>5, NoBaseIsNoLayer DEF Sound, MountsFollowTree, HasMount
  <2> QED BY <1>1, <1>5, <2>1, ChainUnfold DEF Chain
<1> QED BY <1>3, <1>4, <1>5

\* An untouched chain has the same import sources.
LEMMA BindSourceKept ==
    ASSUME TypeOK, TypeOK', Loadable, NEW l \in layers,
           \A a \in Chain(l) : a \in layers' /\ base'[a] = base[a]
    PROVE  \A i : BindSource(l, i)' = BindSource(l, i)
<1>1. RootOf(layers', base', l) = RootOf(layers, base, l)
  <2>1. NoBase \notin layers'
    BY NoBaseAssumption DEF TypeOK
  <2>2. Closed(layers, base)
    BY DEF Loadable, Inheritable
  <2> QED BY <2>1, <2>2, ChainUntouched DEF Chain
<1> QED BY <1>1 DEF BindSource, Root

\* The source of an import is the ultimate base, which is a layer, or none.
LEMMA BindSourceType ==
    ASSUME TypeOK, Loadable, NEW l \in layers, NEW i
    PROVE  BindSource(l, i) \in Layer \cup {NoBase}
<1>1. Root(l) \in layers
  BY RootExists, ChainSelf, NoBaseIsNoLayer DEF Loadable, Root
<1> QED BY <1>1 DEF BindSource, TypeOK

\* No layer is in the error state: findLayerstate finds neither a wrong lower
\* directory nor a wrong source.
LEMMA NoErrorState == Sound => NeverError
<1> SUFFICES ASSUME Sound, Loadable, NEW l \in layers
             PROVE  LayerState(l) # Error
  BY DEF NeverError
<1>1. l \in Layer
  BY DEF Sound, TypeOK
<1>2. ~WrongSource(l)
  <2> SUFFICES ASSUME NEW i \in imports[l], NEW bind \in binds[l], bind[1] = i
               PROVE  <<i, BindSource(l, i)>> \in binds[l]
    BY DEF WrongSource, Bound
  <2>1. bind[2] = BindSource(l, i)
    BY <1>1 DEF Sound, BindsFromRoot
  <2>2. bind = <<bind[1], bind[2]>>
    BY <1>1 DEF Sound, TypeOK
  <2> QED BY <2>1, <2>2
<1>3. ImportState(l) # Error
  BY <1>2 DEF ImportState, Error, Inhabited, Mountable, PartialMount, Mounted,
              MountedBusy
<1>4. overlay[l] # NoBase => overlay[l] = base[l]
  BY <1>1 DEF Sound, MountsFollowTree
<1>5. OwnState(l) # Error
  BY <1>3, <1>4 DEF OwnState, Error, Incomplete, Complete, Mountable
<1> QED BY <1>5 DEF LayerState, Error, Incomplete, Complete

\* Mount only touches a layer it found probed.
LEMMA MountableIsProbed ==
    ASSUME NEW l, LayerState(l) >= Mountable
    PROVE  Probed(l)
  BY DEF LayerState, Mountable, Incomplete

-----------------------------------------------------------------------------
(* The kinds of steps.                                                     *)

\* A command that alters the tree: outside of D everything stays, and nothing
\* in D is a layer in use.
LEMMA TreeStep ==
    ASSUME Sound, TypeOK', Tidy', ExportsFollowLayers', Loadable,
           UNCHANGED mountVars, NEW D \in SUBSET Layer,
           \A d \in D : d \in layers => ~InUse(d),
           \A l \in Layer \ D : /\ l \in layers => l \in layers'
                                /\ base'[l] = base[l]
                                /\ dirs'[l] = dirs[l]
    PROVE  Sound'
<1>1. \A l \in Layer : HasMount(l) => /\ l \in layers
                                      /\ \A a \in Chain(l) : a \in layers \ D
  BY UntouchedIfIdle DEF Sound, MountsFollowTree, HasMount
<1>2. \A l \in Layer : HasMount(l) =>
          /\ l \in layers'
          /\ base'[l] = base[l]
          /\ dirs'[l] = dirs[l]
          /\ base[l] # NoBase => base'[base[l]] = base[base[l]]
  <2> SUFFICES ASSUME NEW l \in Layer, HasMount(l)
               PROVE  /\ l \in layers'
                      /\ base'[l] = base[l]
                      /\ dirs'[l] = dirs[l]
                      /\ base[l] # NoBase => base'[base[l]] = base[base[l]]
    OBVIOUS
  <2>1. l \in Chain(l)
    BY <1>1, ChainSelf DEF Chain
  <2>2. CASE base[l] # NoBase
    <3>1. base[l] \in layers
      BY <1>1, <2>2 DEF Loadable, Inheritable, Closed
    <3>2. base[l] \in Chain(l)
      BY <2>1, <3>1, ChainStep DEF Chain
    <3> QED BY <1>1, <2>1, <3>1, <3>2 DEF Sound, TypeOK
  <2> QED BY <1>1, <2>1, <2>2
<1>3. MountsFollowTree'
  BY <1>2 DEF Sound, MountsFollowTree, HasMount, mountVars
<1>4. MountsAreSeen'
  BY <1>2 DEF Sound, MountsAreSeen, HasMount, mountVars, Probed
<1>5. BindsFromRoot'
  <2> SUFFICES ASSUME NEW l \in Layer, NEW bind \in binds[l]
               PROVE  l \in layers' /\ bind[2] = BindSource(l, bind[1])'
    BY DEF BindsFromRoot, mountVars
  <2>1. HasMount(l)
    BY DEF HasMount
  <2>2. \A a \in Chain(l) : a \in layers' /\ base'[a] = base[a]
    BY <1>1, <2>1 DEF Sound, TypeOK
  <2>3. bind[2] = BindSource(l, bind[1])
    BY DEF Sound, BindsFromRoot
  <2>4. BindSource(l, bind[1])' = BindSource(l, bind[1])
    BY <1>1, <2>1, <2>2, BindSourceKept DEF Sound
  <2> QED BY <1>2, <2>1, <2>3, <2>4
<1> QED BY <1>3, <1>4, <1>5 DEF Sound

\* A step that leaves the tree and the mounts alone, and takes no directory
\* from a mounted layer.
LEMMA IdleStep ==
    ASSUME Sound, TypeOK', ExportsFollowLayers', UNCHANGED <<treeVars, mountVars>>,
           \A l \in Layer : HasMount(l) => dirs[l] \subseteq dirs'[l]
    PROVE  Sound'
<1>1. Tidy' /\ MountsFollowTree'
  BY DEF Sound, Tidy, MountsFollowTree, treeVars, mountVars
<1>2. MountsAreSeen'
  BY DEF Sound, MountsAreSeen, HasMount, treeVars, mountVars, Probed
<1>3. BindsFromRoot'
  BY DEF Sound, BindsFromRoot, treeVars, mountVars, BindSource, Root, Loadable
<1> QED BY <1>1, <1>2, <1>3 DEF Sound

\* A step that only unmounts.  A layer that loses its overlay has no imports
\* mounted any longer, and nothing lies over it.
LEMMA UnmountStep ==
    ASSUME Sound, TypeOK', UNCHANGED <<treeVars, diskVars>>,
           \A l \in Layer :
               /\ binds'[l] \subseteq binds[l]
               /\ \/ overlay'[l] = overlay[l]
                  \/ /\ overlay'[l] = NoBase
                     /\ binds'[l] = {}
                     /\ \A c \in Layer : overlay'[c] # l
    PROVE  Sound'
<1>1. Tidy'
  BY DEF Sound, Tidy, treeVars
<1>2. MountsFollowTree'
  <2> SUFFICES ASSUME NEW l \in Layer
               PROVE  /\ overlay'[l] # NoBase =>
                            /\ l \in layers
                            /\ overlay'[l] = base[l]
                            /\ base[base[l]] # NoBase => overlay'[base[l]] # NoBase
                      /\ binds'[l] # {} =>
                            l \in layers /\ (base[l] = NoBase \/ overlay'[l] # NoBase)
    BY DEF MountsFollowTree, treeVars
  <2>1. CASE overlay'[l] # NoBase
    <3>1. overlay'[l] = overlay[l] /\ overlay[l] = base[l] /\ base[l] \in Layer
      BY <2>1 DEF Sound, TypeOK, MountsFollowTree
    <3>2. overlay'[base[l]] = overlay[base[l]]
      BY <3>1
    <3> QED BY <2>1, <3>1, <3>2 DEF Sound, MountsFollowTree
  <2>2. CASE overlay'[l] = NoBase
    BY <2>2 DEF Sound, MountsFollowTree
  <2> QED BY <2>1, <2>2
<1>3. MountsAreSeen'
  <2> SUFFICES ASSUME NEW l \in Layer, overlay'[l] # NoBase \/ binds'[l] # {}
               PROVE  Probed(l)'
    BY DEF MountsAreSeen
  <2>1. Probed(l)
    BY DEF Sound, MountsAreSeen
  <2> QED BY <2>1 DEF Probed, treeVars, diskVars
<1>4. BindsFromRoot'
  BY DEF Sound, BindsFromRoot, treeVars, BindSource, Root, Loadable
<1>5. ExportsFollowLayers'
  BY DEF Sound, ExportsFollowLayers, treeVars, diskVars
<1> QED BY <1>1, <1>2, <1>3, <1>4, <1>5 DEF Sound

\* Makedirs only adds directories.
LEMMA MadeDirsGrow ==
    ASSUME TypeOK, NEW S
    PROVE  /\ MadeDirs(S) \in [Layer -> SUBSET LayerDir]
           /\ \A a \in Layer : dirs[a] \subseteq MadeDirs(S)[a]
<1>1. \A a \in Layer : dirs[a] \subseteq LayerDir
  BY DEF TypeOK
<1>2. \A a \in Layer : NeededDirs(base[a]) \subseteq LayerDir
  BY DEF NeededDirs, LayerDir
<1> QED BY <1>1, <1>2 DEF MadeDirs

\* A step that mounts on the chain of l up to f, whether or not it goes through.
LEMMA MountStep ==
    ASSUME Sound, Loadable, UNCHANGED <<treeVars, content, host>>,
           users' \subseteq Layer \X Place,
           NEW l \in layers, dirs' = MadeDirs(Chain(l)),
           NEW f \in Chain(l), NEW ovl \in BOOLEAN, NEW K \in SUBSET imports[f],
           NEW tried, CanMount(f, ovl, K \cup tried), MountUpTo(f, ovl, K, tried),
           NEW S \in SUBSET Chain(f), MakeLinks(S), f \in S => K = NeedsImports(f)
    PROVE  Sound'
<1> DEFINE below == Chain(f) \ {f}
           fresh(a) == IF a \in below THEN NeedsImports(a)
                       ELSE IF a = f THEN K ELSE {}
           covered(a) == (a \in below /\ NeedsOverlay(a)) \/ (a = f /\ ovl)
<1> USE DEF treeVars
<1>1. /\ f \in layers /\ f \in Chain(f)
      /\ Chain(f) \subseteq layers
      /\ layers \subseteq Layer
  BY ChainSelf DEF Chain, Sound, TypeOK
<1>2. \A a \in Layer : overlay'[a] = IF covered(a) THEN base[a] ELSE overlay[a]
  BY DEF MountUpTo
<1>3. \A a \in Layer :
          binds'[a] = binds[a] \cup {<<i, BindSource(a, i)>> : i \in fresh(a)}
  BY DEF MountUpTo
<1>4. \A a \in below : LayerState(a) >= Mountable
  BY DEF MountUpTo, MountsAll
<1>5. \A a \in Layer : covered(a) => /\ a \in Chain(f)
                                     /\ base[a] # NoBase /\ overlay[a] = NoBase
  BY <1>1 DEF NeedsOverlay, CanMount
<1>6. \A a \in Layer : \A i \in fresh(a) : a \in Chain(f) /\ i \in imports[a]
  BY <1>1 DEF NeedsImports
<1>7. TypeOK'
  <2>1. overlay' \in [Layer -> Layer \cup {NoBase}]
    <3>1. \A a \in Layer : overlay'[a] \in Layer \cup {NoBase}
      BY <1>2 DEF Sound, TypeOK
    <3>2. overlay' = [a \in Layer |-> overlay'[a]]
      BY DEF MountUpTo
    <3> QED BY <3>1, <3>2
  <2>2. binds' \in [Layer -> SUBSET (Import \X (Layer \cup {NoBase}))]
    <3>1. \A a \in Layer : binds[a] \subseteq Import \X (Layer \cup {NoBase})
      BY DEF Sound, TypeOK
    <3>2. ASSUME NEW a \in Layer, NEW i \in fresh(a)
          PROVE  <<i, BindSource(a, i)>> \in Import \X (Layer \cup {NoBase})
      <4>1. i \in Import /\ a \in layers
        BY <1>1, <1>6, <3>2 DEF Sound, TypeOK
      <4>2. BindSource(a, i) \in Layer \cup {NoBase}
        BY <4>1, BindSourceType DEF Sound
      <4> QED BY <4>1, <4>2
    <3>3. \A a \in Layer : binds'[a] \subseteq Import \X (Layer \cup {NoBase})
      BY <1>3, <3>1, <3>2
    <3>4. binds' = [a \in Layer |-> binds'[a]]
      BY DEF MountUpTo
    <3> QED BY <3>3, <3>4
  <2>3. packages' \subseteq Layer
    <3>1. Root(f) \in Layer
      BY <1>1, RootExists, NoBaseIsNoLayer DEF Sound, Loadable, Root, Chain
    <3> QED BY <3>1 DEF MountUpTo, Sound, TypeOK
  <2>4. links' \subseteq Layer
    BY <1>1 DEF MakeLinks, Sound, TypeOK
  <2>5. dirs' \in [Layer -> SUBSET LayerDir]
    BY MadeDirsGrow DEF Sound
  <2> QED BY <2>1, <2>2, <2>3, <2>4, <2>5 DEF Sound, TypeOK, HostImport
<1>8. Tidy'
  BY DEF Sound, Tidy
<1>9. \A a \in Layer : overlay[a] # NoBase => overlay'[a] = overlay[a]
  BY <1>2, <1>5
<1>10. \A a \in Layer : covered(a) =>
           /\ a \in layers /\ overlay'[a] = base[a]
           /\ base[base[a]] # NoBase => overlay'[base[a]] # NoBase
  <2> SUFFICES ASSUME NEW a \in Layer, covered(a), base[base[a]] # NoBase
               PROVE  overlay'[base[a]] # NoBase
    BY <1>1, <1>2, <1>5
  <2>1. a \in Chain(f) /\ base[a] # NoBase /\ a \in layers
    BY <1>1, <1>5
  <2>2. base[a] \in layers
    BY <2>1 DEF Loadable, Inheritable, Closed
  <2>3. base[a] \in Chain(f)
    BY <2>1, <2>2, ChainStep DEF Chain
  <2>4. base[a] # f
    BY <1>1, <2>1, BelowItself DEF Sound
  <2>5. base[a] \in below /\ base[a] \in Layer
    BY <1>1, <2>3, <2>4
  <2>6. overlay[base[a]] = NoBase => covered(base[a])
    BY <2>5 DEF NeedsOverlay
  <2> QED BY <1>2, <1>9, <2>5, <2>6
<1>11. MountsFollowTree'
  <2> SUFFICES ASSUME NEW a \in Layer
               PROVE  /\ overlay'[a] # NoBase =>
                            /\ a \in layers
                            /\ overlay'[a] = base[a]
                            /\ base[base[a]] # NoBase => overlay'[base[a]] # NoBase
                      /\ binds'[a] # {} =>
                            a \in layers /\ (base[a] = NoBase \/ overlay'[a] # NoBase)
    BY DEF MountsFollowTree
  <2>1. ASSUME overlay'[a] # NoBase
        PROVE  /\ a \in layers
               /\ overlay'[a] = base[a]
               /\ base[base[a]] # NoBase => overlay'[base[a]] # NoBase
    <3>1. CASE covered(a)
      BY <3>1, <1>10
    <3>2. CASE ~covered(a)
      <4>1. /\ overlay[a] # NoBase /\ a \in layers /\ overlay[a] = base[a]
            /\ base[base[a]] # NoBase => overlay[base[a]] # NoBase
        BY <3>2, <2>1, <1>2 DEF Sound, MountsFollowTree
      <4>2. base[a] \in Layer
        BY <4>1 DEF Sound, TypeOK
      <4> QED BY <4>1, <4>2, <1>9
    <3> QED BY <3>1, <3>2
  <2>2. ASSUME binds'[a] # {}
        PROVE  a \in layers /\ (base[a] = NoBase \/ overlay'[a] # NoBase)
    <3>1. CASE binds[a] # {}
      BY <3>1, <1>9 DEF Sound, MountsFollowTree
    <3>2. CASE a \in below /\ fresh(a) # {}
      <4>1. base[a] # NoBase /\ overlay[a] = NoBase => covered(a)
        BY <3>2 DEF NeedsOverlay
      <4> QED BY <3>2, <4>1, <1>1, <1>2, <1>9
    <3>3. CASE a = f /\ K # {}
      <4>1. base[f] # NoBase /\ overlay[f] = NoBase => ovl
        BY <3>3 DEF CanMount
      <4> QED BY <3>3, <4>1, <1>1, <1>2, <1>9
    <3> QED BY <2>2, <1>3, <3>1, <3>2, <3>3
  <2> QED BY <2>1, <2>2
<1>12. MountsAreSeen'
  <2> SUFFICES ASSUME NEW a \in Layer, overlay'[a] # NoBase \/ binds'[a] # {}
               PROVE  Probed(a)'
    BY DEF MountsAreSeen
  <2>0. SUFFICES Probed(a)
    <3>1. dirs[a] \subseteq dirs'[a]
      BY MadeDirsGrow DEF Sound
    <3> QED BY <3>1 DEF Probed
  <2>1. CASE overlay[a] # NoBase \/ binds[a] # {}
    BY <2>1 DEF Sound, MountsAreSeen
  <2>2. CASE a \in below
    BY <2>2, <1>4, MountableIsProbed
  <2>3. CASE a = f /\ (ovl \/ K # {})
    <3>1. LayerState(f) \in Nat
      BY DEF LayerState, OwnState, ImportState, Error, Incomplete, Complete,
             Inhabited, Mountable, PartialMount, Mounted, MountedBusy
    <3>2. LayerState(f) >= Mountable
      BY <2>3, <3>1 DEF CanMount, Mountable
    <3> QED BY <2>3, <3>2, MountableIsProbed
  <2> QED BY <2>1, <2>2, <2>3, <1>2, <1>3
<1>13. BindsFromRoot'
  <2> SUFFICES ASSUME NEW a \in Layer, NEW bind \in binds'[a]
               PROVE  a \in layers /\ bind[2] = BindSource(a, bind[1])
    BY DEF BindsFromRoot, BindSource, Root
  <2>1. CASE bind \in binds[a]
    BY <2>1 DEF Sound, BindsFromRoot
  <2>2. CASE \E i \in fresh(a) : bind = <<i, BindSource(a, i)>>
    BY <2>2, <1>1, <1>6
  <2> QED BY <2>1, <2>2, <1>3
<1>14. ExportsFollowLayers'
  <2> SUFFICES ASSUME NEW a \in S, base[a] = NoBase, NeedsImports(a) \cap BaseImport # {}
               PROVE  a \in packages'
    BY <1>1 DEF ExportsFollowLayers, MakeLinks, MountUpTo, Sound
  <2>1. a = Root(f)
    BY <1>1, RootUnique, NoBaseIsNoLayer DEF Sound, Loadable, Root, Chain
  <2>2. fresh(a) \cap BaseImport # {}
    OBVIOUS
  <2> QED BY <2>1, <2>2 DEF MountUpTo
<1> QED BY <1>7, <1>8, <1>11, <1>12, <1>13, <1>14 DEF Sound

-----------------------------------------------------------------------------
(* Every step of the layer manager and of the world is of these kinds.     *)

LEMMA SoundInit == Init => Sound
  BY DEF Init, Sound, TypeOK, Tidy, MountsFollowTree, MountsAreSeen, BindsFromRoot,
         ExportsFollowLayers

LEMMA SoundAdd ==
    ASSUME Sound, NEW l \in Layer, NEW b \in Layer \cup {NoBase},
           NEW cfg \in SUBSET Import, AddLayer(l, b, cfg) \/ CrashInAdd(l, b, cfg)
    PROVE  Sound'
<1>1. PICK made \in SUBSET LayerDir :
          /\ l \notin layers /\ Loadable
          /\ layers' = layers \cup {l}
          /\ base' = [base EXCEPT ![l] = b]
          /\ imports' = [imports EXCEPT ![l] = cfg]
          /\ dirs' = [dirs EXCEPT ![l] = @ \cup made]
          /\ UNCHANGED <<content, packages, links, mountVars, envVars>>
  <2>1. NeededDirs(b) \in SUBSET LayerDir
    BY DEF NeededDirs, LayerDir
  <2>2. MadeFirst \subseteq SUBSET LayerDir
    BY DEF MadeFirst, LayerDir
  <2> QED BY <2>1, <2>2 DEF AddLayer, CrashInAdd
<1>2. TypeOK'
  BY <1>1 DEF Sound, TypeOK, mountVars, envVars, HostImport
<1>3. Tidy' /\ ExportsFollowLayers'
  BY <1>1 DEF Sound, TypeOK, Tidy, ExportsFollowLayers
<1>4. \A k \in Layer \ {l} : /\ k \in layers => k \in layers'
                             /\ base'[k] = base[k]
                             /\ dirs'[k] = dirs[k]
  BY <1>1 DEF Sound, TypeOK
<1>5. /\ {l} \in SUBSET Layer
      /\ \A d \in {l} : d \in layers => ~InUse(d)
      /\ UNCHANGED mountVars /\ Loadable
  BY <1>1
<1> QED BY <1>2, <1>3, <1>4, <1>5, TreeStep

\* What is left of a layerconfig file names the base it was to name, or none.
LEMMA PartsType ==
    ASSUME NEW b \in Layer \cup {NoBase}, NEW cfg \in SUBSET Import,
           NEW part \in PartsOfFile(b, cfg)
    PROVE  part.base \in {b, NoBase} /\ part.imports \in SUBSET Import
BY DEF PartsOfFile

\* What CrashInWrite and RebaseLayer do to the tree.
LEMMA SoundWrite ==
    ASSUME Sound, NEW l \in Layer,
           \/ \E b \in Layer \cup {NoBase} : RebaseLayer(l, b)
           \/ CrashInWrite(l)
    PROVE  Sound'
<1>1. /\ Loadable
      /\ l \in layers => ~InUse(l)
      /\ layers' = layers \cup {l}
      /\ \E b \in Layer \cup {NoBase} : base' = [base EXCEPT ![l] = b]
      /\ \E K \in SUBSET Import : imports' = [imports EXCEPT ![l] = K]
      /\ UNCHANGED <<diskVars, mountVars, envVars>>
  <2>1. CASE \E b \in Layer \cup {NoBase} : RebaseLayer(l, b)
    <3>1. imports[l] \in SUBSET Import /\ imports' = [imports EXCEPT ![l] = imports[l]]
      BY <2>1 DEF RebaseLayer, Sound, TypeOK
    <3> QED BY <2>1, <3>1 DEF RebaseLayer, Rebasable, Alterable
  <2>2. CASE CrashInWrite(l)
    <3>1. PICK b \in layers \cup {NoBase} :
             \E cfg \in IF l \in layers THEN {imports[l]}
                        ELSE Configs \cup {imports[k] : k \in layers \cap {b}} :
                /\ l \in layers => Rebasable(l, b)
                /\ \E part \in PartsOfFile(b, cfg) :
                      /\ base' = [base EXCEPT ![l] = part.base]
                      /\ imports' = [imports EXCEPT ![l] = part.imports]
      BY <2>2 DEF CrashInWrite
    <3>2. PICK cfg \in IF l \in layers THEN {imports[l]}
                       ELSE Configs \cup {imports[k] : k \in layers \cap {b}} :
                /\ l \in layers => Rebasable(l, b)
                /\ \E part \in PartsOfFile(b, cfg) :
                      /\ base' = [base EXCEPT ![l] = part.base]
                      /\ imports' = [imports EXCEPT ![l] = part.imports]
      BY <3>1
    <3>3. cfg \in SUBSET Import /\ b \in Layer \cup {NoBase}
      BY <3>2, ConfigAssumption DEF Sound, TypeOK
    <3>4. \A part \in PartsOfFile(b, cfg) : /\ part.base \in Layer \cup {NoBase}
                                            /\ part.imports \in SUBSET Import
      BY <3>3, PartsType
    <3> QED BY <2>2, <3>2, <3>4 DEF CrashInWrite, Rebasable, Alterable
  <2> QED BY <2>1, <2>2
<1>2. TypeOK'
  BY <1>1 DEF Sound, TypeOK, diskVars, mountVars, envVars, HostImport
<1>3. Tidy' /\ ExportsFollowLayers'
  BY <1>1 DEF Sound, TypeOK, Tidy, ExportsFollowLayers, diskVars
<1>4. \A k \in Layer \ {l} : /\ k \in layers => k \in layers'
                             /\ base'[k] = base[k]
                             /\ dirs'[k] = dirs[k]
  BY <1>1 DEF Sound, TypeOK, diskVars
<1>5. /\ {l} \in SUBSET Layer
      /\ \A d \in {l} : d \in layers => ~InUse(d)
      /\ UNCHANGED mountVars /\ Loadable
  BY <1>1
<1> QED BY <1>2, <1>3, <1>4, <1>5, TreeStep

LEMMA SoundRemove ==
    ASSUME Sound, NEW l \in Layer,
           (\E files \in BOOLEAN : RemoveLayer(l, files)) \/ CrashInRemove(l)
    PROVE  Sound'
<1>1. /\ l \in layers /\ Loadable /\ ~InUse(l)
      /\ \/ UNCHANGED treeVars
         \/ /\ layers' = layers \ {l}
            /\ base' = [base EXCEPT ![l] = NoBase]
            /\ imports' = [imports EXCEPT ![l] = {}]
      /\ dirs' = dirs \/ \E left \in SUBSET LayerDir : dirs' = [dirs EXCEPT ![l] = left]
      /\ content' \in {content, [content EXCEPT ![l] = {}]}
      /\ packages' \in {packages, packages \ {l}}
      /\ links' = links \ {l}
      /\ users' \subseteq users
      /\ UNCHANGED <<mountVars, host>>
  BY DEF RemoveLayer, Discard, Removable, WithoutLink, CrashInRemove, Sound, TypeOK, treeVars,
         envVars
<1>2. TypeOK'
  BY <1>1 DEF Sound, TypeOK, treeVars, mountVars, HostImport
<1>3. Tidy' /\ ExportsFollowLayers'
  BY <1>1 DEF Sound, TypeOK, Tidy, ExportsFollowLayers, treeVars
<1>4. \A k \in Layer \ {l} : /\ k \in layers => k \in layers'
                             /\ base'[k] = base[k]
                             /\ dirs'[k] = dirs[k]
  BY <1>1 DEF Sound, TypeOK, treeVars
<1>5. /\ {l} \in SUBSET Layer
      /\ \A d \in {l} : d \in layers => ~InUse(d)
      /\ UNCHANGED mountVars /\ Loadable
  BY <1>1
<1> QED BY <1>2, <1>3, <1>4, <1>5, TreeStep

\* A layerconfig file, whole or in part.
FilePart == [base : Layer \cup {NoBase}, imports : SUBSET Import]

\* However a rename ends, some of the children and the layer itself have had
\* their files written, some of these in part.
LEMMA RenameParts ==
    ASSUME Sound, NEW old \in Layer, NEW new \in Layer,
           RenameLayer(old, new) \/ CrashInRename(old, new)
    PROVE  LET kids == Children(layers, base, old)
           IN  /\ new \notin layers /\ Alterable(old)
               /\ \E patched \in SUBSET kids, torn \in SUBSET (kids \cup {new}) :
                     \E part \in FilePart :
                        /\ \E k \in Layer : part.imports \subseteq imports[k]
                        /\ \A x \in torn : part.base \in
                              {IF x = new THEN base[old] ELSE new, NoBase}
                        /\ Renamed(old, new, patched, torn, part)
<1> DEFINE kids == Children(layers, base, old)
           none == [base |-> NoBase, imports |-> {}]
<1>1. none \in FilePart /\ none.base = NoBase
  BY DEF FilePart
<1>2. kids \subseteq layers /\ layers \subseteq Layer /\ base[old] \in Layer \cup {NoBase}
      /\ \A c \in Layer : imports[c] \in SUBSET Import
  BY DEF Children, Sound, TypeOK
<1>3. CASE RenameLayer(old, new)
  <2> HIDE DEF none
  <2>1. PICK patched \in SUBSET kids : Renamed(old, new, patched, {}, none)
    BY <1>3 DEF RenameLayer, none
  <2>2. {} \in SUBSET (kids \cup {new}) /\ none.imports \subseteq imports[old]
    BY DEF none
  <2> QED BY <1>1, <1>3, <2>1, <2>2 DEF RenameLayer
<1>4. CASE CrashInRename(old, new)
  <2> DEFINE next(patched) == IF kids \ patched = {} THEN {new} ELSE kids \ patched
             whole(c) == IF c = new THEN PartsOfFile(base[old], imports[old])
                         ELSE PartsOfFile(new, imports[c])
  <2>1. PICK patched \in SUBSET kids :
           \E c \in next(patched) : \E part \in whole(c) : \E torn \in {{}, {c}} :
              Renamed(old, new, patched, torn, part)
    BY <1>4 DEF CrashInRename
  <2>2. PICK c \in next(patched) : \E part \in whole(c) : \E torn \in {{}, {c}} :
              Renamed(old, new, patched, torn, part)
    BY <2>1
  <2>3. PICK part \in whole(c) : \E torn \in {{}, {c}} :
              Renamed(old, new, patched, torn, part)
    BY <2>2
  <2>4. c \in kids \cup {new} /\ c \in Layer /\ new \notin kids
    BY <1>2, <1>4 DEF CrashInRename
  <2>5. part = [base |-> part.base, imports |-> part.imports]
        /\ part.base \in {new, base[old], NoBase} /\ part.imports \in SUBSET Import
        /\ part.base \in {IF c = new THEN base[old] ELSE new, NoBase}
        /\ \E k \in Layer : part.imports \subseteq imports[k]
    <3>1. CASE c = new
      BY <1>2, <3>1 DEF PartsOfFile
    <3>2. CASE c # new
      BY <1>2, <2>4, <3>2 DEF PartsOfFile
    <3> QED BY <3>1, <3>2
  <2>6. part \in FilePart
    BY <1>2, <2>5 DEF FilePart
  <2> HIDE DEF whole, next
  <2>7. \A torn \in {{}, {c}} : /\ torn \in SUBSET (kids \cup {new})
                               /\ \A x \in torn : x = c
    BY <2>4
  <2> QED BY <1>4, <2>3, <2>5, <2>6, <2>7 DEF CrashInRename
<1> QED BY <1>3, <1>4

LEMMA SoundRename ==
    ASSUME Sound, NEW old \in Layer, NEW new \in Layer,
           RenameLayer(old, new) \/ CrashInRename(old, new)
    PROVE  Sound'
<1> DEFINE kids == Children(layers, base, old)
<1>1. /\ old \in layers /\ new \notin layers /\ Loadable
      /\ \A c \in kids \cup {old} : ~InUse(c)
      /\ \E patched \in SUBSET kids, torn \in SUBSET (kids \cup {new}) :
            \E part \in FilePart : Renamed(old, new, patched, torn, part)
  BY RenameParts DEF Alterable
<1>2. PICK patched \in SUBSET kids, torn \in SUBSET (kids \cup {new}) :
            \E part \in FilePart : Renamed(old, new, patched, torn, part)
  BY <1>1
<1>12. PICK part \in FilePart : Renamed(old, new, patched, torn, part)
  BY <1>2
<1>13. part.base \in Layer \cup {NoBase} /\ part.imports \in SUBSET Import
  BY DEF FilePart
<1>3. kids \subseteq layers /\ layers \subseteq Layer
  BY DEF Children, Sound, TypeOK
<1>4. /\ layers' = (layers \ {old}) \cup {new}
      /\ packages' = IF old \in packages THEN (packages \ {old}) \cup {new}
                     ELSE packages
      /\ links' = links \ {old}
  BY <1>1, <1>12 DEF Renamed, MovedSet, WithoutLink
<1>5. TypeOK'
  <2>1. base' \in [Layer -> Layer \cup {NoBase}]
    BY <1>12, <1>13 DEF Renamed, PatchedBase, Sound, TypeOK
  <2>2. Moved(imports, old, new, {}) \in [Layer -> SUBSET Import]
    BY DEF Moved, Sound, TypeOK
  <2>3. imports' \in [Layer -> SUBSET Import]
    BY <1>12, <1>13, <2>2 DEF Renamed
  <2>4. dirs' \in [Layer -> SUBSET LayerDir] /\ content' \in [Layer -> SUBSET Installed]
    BY <1>12 DEF Renamed, Moved, Sound, TypeOK
  <2>5. users' \subseteq Layer \X Place
    <3>1. users' = {u \in users : u[1] # old}
                     \cup {<<new, p>> : p \in {q \in Place : <<old, q>> \in users}}
      BY <1>12 DEF Renamed
    <3>2. \A p \in Place : <<new, p>> \in Layer \X Place
      OBVIOUS
    <3>3. users \subseteq Layer \X Place
      BY DEF Sound, TypeOK
    <3> QED BY <3>1, <3>2, <3>3
  <2> QED BY <1>12, <1>4, <2>1, <2>3, <2>4, <2>5
          DEF Renamed, Sound, TypeOK, mountVars, HostImport
<1>6. Tidy'
  <2>1. old \notin kids
    BY <1>1, ChainSelf, BelowItself DEF Children, Chain, Sound
  <2> QED BY <1>1, <1>12, <1>3, <1>4, <2>1 DEF Renamed, PatchedBase, Sound, Tidy
<1>7. ExportsFollowLayers'
  BY <1>4 DEF Sound, ExportsFollowLayers
<1> DEFINE D == kids \cup {old, new}
<1>8. \A k \in Layer \ D : /\ k \in layers => k \in layers'
                           /\ base'[k] = base[k]
                           /\ dirs'[k] = dirs[k]
  BY <1>12, <1>4 DEF Renamed, PatchedBase, Moved, Sound, TypeOK
<1>9. \A d \in D : d \in layers => ~InUse(d)
  BY <1>1
<1>10. UNCHANGED mountVars
  BY <1>12 DEF Renamed
<1>11. D \in SUBSET Layer
  BY <1>3
<1> HIDE DEF D
<1> QED BY <1>1, <1>5, <1>6, <1>7, <1>8, <1>9, <1>10, <1>11, TreeStep

LEMMA SoundRenameFails ==
    ASSUME Sound, NEW l \in Layer, RenameFails(l)
    PROVE  Sound'
<1>1. TypeOK' /\ ExportsFollowLayers'
  BY DEF RenameFails, WithoutLink, Sound, TypeOK, ExportsFollowLayers, treeVars,
         mountVars, envVars, HostImport
<1> QED BY <1>1, IdleStep DEF RenameFails

LEMMA SoundTreeCommand == ASSUME Sound, TreeCommand PROVE Sound'
  BY SoundAdd, SoundWrite, SoundRemove, SoundRename, SoundRenameFails DEF TreeCommand

LEMMA SoundMakedirs ==
    ASSUME Sound, NEW l \in Layer, Makedirs(l) \/ CrashInMakedirs(l)
    PROVE  Sound'
<1>1. /\ dirs' \in [Layer -> SUBSET LayerDir]
      /\ \A a \in Layer : dirs[a] \subseteq dirs'[a]
      /\ UNCHANGED <<treeVars, content, packages, links, mountVars, envVars>>
  <2>1. CASE Makedirs(l)
    BY <2>1, MadeDirsGrow DEF Makedirs, Sound
  <2>2. CASE CrashInMakedirs(l)
    <3>1. MadeFirst \subseteq SUBSET LayerDir
      BY DEF MadeFirst, LayerDir
    <3>2. PICK made \in MadeFirst : dirs' = [dirs EXCEPT ![l] = @ \cup made]
      BY <2>2 DEF CrashInMakedirs
    <3> QED BY <2>2, <3>1, <3>2 DEF CrashInMakedirs, Sound, TypeOK
  <2> QED BY <2>1, <2>2
<1>2. TypeOK' /\ ExportsFollowLayers'
  BY <1>1 DEF Sound, TypeOK, ExportsFollowLayers, treeVars, mountVars, envVars, HostImport
<1> QED BY <1>1, <1>2, IdleStep

LEMMA SoundMount ==
    ASSUME Sound, NEW l \in Layer, Mount(l), users' \subseteq Layer \X Place
    PROVE  Sound'
<1>1. l \in layers /\ l \in Chain(l) /\ Loadable /\ dirs' = MadeDirs(Chain(l))
  BY ChainSelf DEF Mount, MountBegins, Chain
<1>2. NeedsOverlay(l) \in BOOLEAN /\ NeedsImports(l) \in SUBSET imports[l]
  BY DEF NeedsOverlay, NeedsImports
<1>3. /\ CanMount(l, NeedsOverlay(l), NeedsImports(l))
      /\ MountUpTo(l, NeedsOverlay(l), NeedsImports(l), {})
      /\ MakeLinks(Chain(l))
      /\ UNCHANGED <<treeVars, content, host>>
  BY DEF Mount, MountsAll
<1>4. NeedsImports(l) \cup {} = NeedsImports(l)
  OBVIOUS
<1> QED BY <1>1, <1>2, <1>3, <1>4, MountStep

LEMMA SoundMountFails ==
    ASSUME Sound, NEW l \in Layer, MountFails(l)
    PROVE  Sound'
<1>1. PICK f \in Chain(l), ovl \in BOOLEAN : \E K \in SUBSET imports[f] : \E tried :
          /\ CanMount(f, ovl, K \cup tried)
          /\ MountUpTo(f, ovl, K, tried)
          /\ MakeLinks(Chain(f) \ {f})
  BY DEF MountFails
<1>5. PICK K \in SUBSET imports[f] : \E tried :
          /\ CanMount(f, ovl, K \cup tried)
          /\ MountUpTo(f, ovl, K, tried)
          /\ MakeLinks(Chain(f) \ {f})
  BY <1>1
<1>2. PICK tried : /\ CanMount(f, ovl, K \cup tried)
                   /\ MountUpTo(f, ovl, K, tried)
                   /\ MakeLinks(Chain(f) \ {f})
  BY <1>5
<1>3. /\ l \in layers /\ Loadable /\ dirs' = MadeDirs(Chain(l))
      /\ UNCHANGED <<treeVars, content, host>>
      /\ users' \subseteq Layer \X Place
  BY DEF MountFails, MountBegins, Sound, TypeOK
<1>4. Chain(f) \ {f} \in SUBSET Chain(f) /\ ~(f \in Chain(f) \ {f})
  OBVIOUS
<1> QED BY <1>2, <1>3, <1>4, MountStep

LEMMA SoundUserEnters ==
    ASSUME Sound, UNCHANGED <<treeVars, diskVars, mountVars, host>>,
           users' \subseteq Layer \X Place
    PROVE  Sound'
<1>1. TypeOK' /\ ExportsFollowLayers'
  BY DEF Sound, TypeOK, ExportsFollowLayers, treeVars, diskVars, mountVars, HostImport
<1>2. \A l \in Layer : dirs[l] \subseteq dirs'[l]
  BY DEF diskVars
<1> QED BY <1>1, <1>2, IdleStep

LEMMA SoundChroot ==
    ASSUME Sound, NEW l \in Layer, Chroot(l)
    PROVE  Sound'
<1>1. users' \subseteq Layer \X Place
  BY DEF Chroot, Sound, TypeOK, Place
<1> QED BY <1>1, SoundMount, SoundUserEnters DEF Chroot

\* What UnmountLayer and UnmountAll unmount: nothing that stays lies over it.
LEMMA SoundUnmounting ==
    ASSUME Sound, NEW S \in SUBSET layers, Unmounting(S),
           \A l \in S, c \in Layer : overlay[c] = l => c \in S,
           UNCHANGED <<treeVars, diskVars, envVars>>
    PROVE  Sound'
<1>1. TypeOK'
  BY DEF Unmounting, Sound, TypeOK, treeVars, diskVars, envVars, HostImport
<1>2. \A l \in Layer : l \notin S => overlay'[l] = overlay[l] /\ binds'[l] = binds[l]
  BY DEF Unmounting
<1>3. \A l \in S : /\ overlay'[l] = NoBase /\ binds'[l] = {}
                   /\ \A c \in Layer : overlay'[c] # l
  BY NoBaseIsNoLayer DEF Unmounting, Sound, TypeOK
<1>4. \A l \in Layer :
          /\ binds'[l] \subseteq binds[l]
          /\ \/ overlay'[l] = overlay[l]
             \/ /\ overlay'[l] = NoBase
                /\ binds'[l] = {}
                /\ \A c \in Layer : overlay'[c] # l
  BY <1>2, <1>3
<1> QED BY <1>1, <1>4, UnmountStep

LEMMA SoundUnmount ==
    ASSUME Sound, NEW l \in Layer, UnmountLayer(l)
    PROVE  Sound'
<1>1. \A c \in Layer : overlay[c] # l
  BY DEF UnmountLayer, UnmountRefused, Overlain
<1> QED BY <1>1, SoundUnmounting DEF UnmountLayer

\* What umount -all finds busy is busy until it ends: a layer under one that
\* stays mounted stays.
LEMMA StillBusyIsClosed ==
    ASSUME NEW k \in layers,
           \/ MountBusy(k)
           \/ \E c \in Layer : /\ overlay[c] = k
                               /\ c \in layers /\ HasMounts(c) => c \in StillBusy
    PROVE  k \in StillBusy
<1> SUFFICES ASSUME NEW S \in SUBSET layers,
                    \A j \in layers :
                        MountBusy(j) \/ (\E c \in Layer :
                                overlay[c] = j
                                  /\ (c \in layers /\ HasMounts(c) => c \in S))
                        => j \in S
             PROVE  k \in S
  BY DEF StillBusy
<1>1. StillBusy \subseteq S
  BY DEF StillBusy
<1> QED BY <1>1

LEMMA SoundUnmountAll ==
    ASSUME Sound, NEW all \in BOOLEAN, UnmountAll(all)
    PROVE  Sound'
<1> DEFINE S == {l \in layers : HasMounts(l)} \ StillBusy
<1>1. ASSUME NEW l \in S, NEW c \in Layer, overlay[c] = l
      PROVE  c \in S
  <2>1. c \in layers /\ HasMounts(c)
    BY <1>1, NoBaseIsNoLayer DEF Sound, MountsFollowTree, MountsAreSeen, HasMounts
  <2>2. c \notin StillBusy
    BY <1>1, StillBusyIsClosed
  <2> QED BY <2>1, <2>2
<1>2. /\ S \in SUBSET layers /\ Unmounting(S)
      /\ UNCHANGED <<treeVars, diskVars, envVars>>
  BY DEF UnmountAll
<1> HIDE DEF S
<1> QED BY <1>1, <1>2, SoundUnmounting

\* Imports alone are unmounted: UnmountFails, UnmountByHand.
LEMMA SoundUnbind ==
    ASSUME Sound, NEW l \in Layer, NEW left \in SUBSET binds[l],
           binds' = [binds EXCEPT ![l] = left],
           UNCHANGED <<treeVars, diskVars, overlay, envVars>>
    PROVE  Sound'
<1>1. TypeOK'
  BY DEF Sound, TypeOK, treeVars, diskVars, envVars, HostImport
<1>2. \A k \in Layer : binds'[k] \subseteq binds[k] /\ overlay'[k] = overlay[k]
  BY DEF Sound, TypeOK
<1> QED BY <1>1, <1>2, UnmountStep

LEMMA SoundMountCommand == ASSUME Sound, MountCommand PROVE Sound'
<1>1. ASSUME NEW l \in Layer, MountLayer(l) PROVE Sound'
  BY <1>1, SoundMount DEF MountLayer, Sound, TypeOK
<1>2. ASSUME NEW l \in Layer, NEW left \in SUBSET binds[l], UnmountFails(l, left)
      PROVE  Sound'
  BY <1>2, SoundUnbind DEF UnmountFails
<1> QED BY <1>1, <1>2, SoundMakedirs, SoundMountFails, SoundUnmount, SoundUnmountAll,
           SoundChroot DEF MountCommand

LEMMA SoundEnvironment == ASSUME Sound, Environment PROVE Sound'
<1>1. ASSUME NEW l \in Layer, NEW p \in Place, EnterLayer(l, p) PROVE Sound'
  <2>1. users' \subseteq Layer \X Place
    BY <1>1 DEF EnterLayer, Sound, TypeOK
  <2> QED BY <1>1, <2>1, SoundUserEnters DEF EnterLayer
<1>2. ASSUME NEW u \in users, LeaveLayer(u) PROVE Sound'
  <2>1. users' \subseteq Layer \X Place
    BY <1>2 DEF LeaveLayer, Sound, TypeOK
  <2> QED BY <1>2, <2>1, SoundUserEnters DEF LeaveLayer
<1>3. ASSUME NEW l \in Layer, NEW C \in Installs, Install(l, C) PROVE Sound'
  <2>1. C \subseteq Content
    BY ConfigAssumption DEF Content
  <2>2. content' \in [Layer -> SUBSET Installed]
    <3>1. {ContentDir(l)} \X C \in SUBSET Installed
      BY <2>1 DEF ContentDir, Installed
    <3> HIDE DEF Installed
    <3> QED BY <1>3, <3>1 DEF Install, Sound, TypeOK
  <2>3. TypeOK' /\ ExportsFollowLayers'
    BY <1>3, <2>2 DEF Install, Sound, TypeOK, ExportsFollowLayers, treeVars, mountVars,
                      envVars, HostImport
  <2> QED BY <1>3, <2>3, IdleStep DEF Install
<1>4. ASSUME NEW l \in Layer, NEW d \in LayerDir, LoseDir(l, d) PROVE Sound'
  <2>1. TypeOK' /\ ExportsFollowLayers'
    BY <1>4 DEF LoseDir, Sound, TypeOK, ExportsFollowLayers, treeVars, mountVars, envVars,
                HostImport
  <2>2. ~HasMount(l)
    BY <1>4 DEF LoseDir, InUse, HasMounts, HasMount, Sound, MountsAreSeen
  <2>3. \A k \in Layer : HasMount(k) => dirs[k] \subseteq dirs'[k]
    BY <1>4, <2>2 DEF LoseDir, Sound, TypeOK
  <2> QED BY <1>4, <2>1, <2>3, IdleStep DEF LoseDir
<1>5. ASSUME NEW i \in Import, HostChanges(i) PROVE Sound'
  <2>1. TypeOK' /\ ExportsFollowLayers'
    BY <1>5 DEF HostChanges, Sound, TypeOK, ExportsFollowLayers, treeVars, diskVars,
                mountVars, HostImport
  <2> QED BY <1>5, <2>1, IdleStep DEF HostChanges, diskVars
<1>6. ASSUME NEW l \in Layer, NEW bind \in binds[l], UnmountByHand(l, bind) PROVE Sound'
  <2>1. binds' = [binds EXCEPT ![l] = binds[l] \ {bind}]
    BY <1>6 DEF UnmountByHand
  <2> QED BY <1>6, <2>1, SoundUnbind DEF UnmountByHand
<1>8. ASSUME NEW l \in Layer, UnmountOverlayByHand(l) PROVE Sound'
  <2>1. /\ binds[l] = {} /\ \A c \in Layer : overlay[c] # l
        /\ overlay' = [overlay EXCEPT ![l] = NoBase] /\ binds' = binds
        /\ UNCHANGED <<treeVars, diskVars, envVars>>
    BY <1>8 DEF UnmountOverlayByHand, Overlain
  <2>2. TypeOK'
    BY <2>1 DEF Sound, TypeOK, treeVars, diskVars, envVars, HostImport
  <2>3. \A k \in Layer : /\ binds'[k] \subseteq binds[k]
                         /\ \/ overlay'[k] = overlay[k]
                            \/ /\ overlay'[k] = NoBase /\ binds'[k] = {}
                               /\ \A c \in Layer : overlay'[c] # k
    BY <2>1, NoBaseAssumption DEF Sound, TypeOK
  <2> QED BY <2>1, <2>2, <2>3, UnmountStep
<1>7. ASSUME Reboot PROVE Sound'
  <2>1. TypeOK'
    BY <1>7 DEF Reboot, Sound, TypeOK, treeVars, diskVars, HostImport
  <2>2. \A l \in Layer : overlay'[l] = NoBase /\ binds'[l] = {}
    BY <1>7 DEF Reboot
  <2>3. \A l, c \in Layer : overlay'[c] # l
    BY <2>2, NoBaseAssumption
  <2> QED BY <1>7, <2>1, <2>2, <2>3, UnmountStep DEF Reboot
<1> QED BY <1>1, <1>2, <1>3, <1>4, <1>5, <1>6, <1>7, <1>8 DEF Environment

LEMMA SoundNext == Sound /\ [Next]_vars => Sound'
<1> SUFFICES ASSUME Sound, [Next]_vars PROVE Sound'
  OBVIOUS
<1>1. CASE UNCHANGED vars
  <2>1. users' \subseteq Layer \X Place
    BY <1>1 DEF vars, envVars, Sound, TypeOK
  <2> QED BY <1>1, <2>1, SoundUserEnters DEF vars, envVars
<1> QED BY <1>1, SoundTreeCommand, SoundMountCommand, SoundEnvironment DEF Next

LEMMA SpecIsSound == Spec => []Sound
  BY SoundInit, SoundNext, PTL DEF Spec

-----------------------------------------------------------------------------
(* The theorems, for every fault.                                          *)

\* Every value of the state has its type.
THEOREM TypeCorrect == Spec => []TypeOK
  BY SpecIsSound, PTL DEF Sound

\* No layer is renamed, rebased or removed under its overlay: the overlay's
\* lower directory is always the build root of the base (errorIfBusy).
THEOREM OverlaysMatch == Spec => []OverlayMatchesBase
<1>1. Sound => OverlayMatchesBase
  BY DEF Sound, MountsFollowTree, OverlayMatchesBase
<1> QED BY <1>1, SpecIsSound, PTL

\* No overlay ever shows an empty build root below it: a mounted layer's chain
\* is mounted, whatever mount or unmount failed half way (Mount, unmountLayer).
THEOREM ChainsMounted == Spec => []ChainMounted
  BY ChainIsMounted, SpecIsSound, PTL

\* What is mounted from $$base comes from the layer's ultimate base of now
\* (expandConfigMounts).
THEOREM SourcesMatch == Spec => []BindsFromRoot
  BY SpecIsSound, PTL DEF Sound

\* No mount is hidden from the probe (ProbeAllLayerstate).
THEOREM MountsSeen == Spec => []MountsAreSeen
  BY SpecIsSound, PTL DEF Sound

\* No command ever finds a layer in the error state (findLayerstate).
THEOREM NoLayerInError == Spec => []NeverError
  BY NoErrorState, SpecIsSound, PTL

\* No export symlink dangles (makeExportSymlinks, removeLayerExportLinks).
THEOREM NoDanglingLink == Spec => []ExportsFollowLayers
  BY SpecIsSound, PTL DEF Sound

-----------------------------------------------------------------------------
(* Unmounting.                                                             *)

\* A layer in use and what is mounted below it stay busy throughout umount -all.
LEMMA BusyChainStays ==
    ASSUME Sound, NEW k \in layers, MountBusy(k), NEW a \in Chain(k),
           a = k \/ overlay[k] # NoBase
    PROVE  a \in StillBusy
<1>1. k \in StillBusy
  BY StillBusyIsClosed
<1>2. CASE overlay[k] # NoBase
  <2> DEFINE T == {d \in Chain(k) : d \in StillBusy}
  <2>1. Chain(k) \subseteq layers /\ k \in Chain(k) /\ layers \subseteq Layer
    BY ChainSelf DEF Chain, Sound, TypeOK
  <2>2. \A d \in T : base[d] \in layers => base[d] \in T
    <3> SUFFICES ASSUME NEW d \in T, base[d] \in layers PROVE base[d] \in T
      OBVIOUS
    <3>1. base[d] \in Chain(k)
      BY ChainStep DEF Chain
    <3>2. overlay[d] = base[d]
      BY <1>2, <2>1, ChainIsMounted, NoBaseIsNoLayer
      DEF ChainMounted, Sound, MountsFollowTree
    <3>3. base[d] \in StillBusy
      BY <2>1, <3>2, StillBusyIsClosed
    <3> QED BY <3>1, <3>3
  <2>3. T \in SUBSET layers /\ k \in T
    BY <1>1, <2>1
  <2> HIDE DEF T
  <2>4. Chain(k) \subseteq T
    BY <2>2, <2>3, ChainLeast DEF Chain
  <2> QED BY <2>4 DEF T
<1> QED BY <1>1, <1>2

\* No step but the administrator's and a reboot takes a mount from a layer in
\* use or from what is mounted below it.
LEMMA UsedMountsStay ==
    ASSUME Sound, TreeCommand \/ MountCommand,
           NEW k \in layers, MountBusy(k), NEW a \in Chain(k),
           a = k \/ overlay[k] # NoBase
    PROVE  /\ overlay[a] # NoBase => overlay'[a] = overlay[a]
           /\ binds[a] \subseteq binds'[a]
<1>1. a \in layers /\ a \in Layer /\ layers \subseteq Layer
  BY ChainSelf DEF Chain, Sound, TypeOK
<1>2. UnmountRefused(a)
  BY ChainIsOverlain DEF UnmountRefused, Overlain
<1>3. CASE UNCHANGED mountVars
  BY <1>3 DEF mountVars
<1>4. ASSUME NEW f, NEW ovl, NEW K, NEW tried, MountUpTo(f, ovl, K, tried), ovl => overlay[f] = NoBase
      PROVE  /\ overlay[a] # NoBase => overlay'[a] = overlay[a]
             /\ binds[a] \subseteq binds'[a]
  BY <1>1, <1>4 DEF MountUpTo, NeedsOverlay
<1>5. ASSUME NEW l \in Layer, Mount(l)
      PROVE  /\ overlay[a] # NoBase => overlay'[a] = overlay[a]
             /\ binds[a] \subseteq binds'[a]
  BY <1>4, <1>5 DEF Mount, NeedsOverlay
<1>6. ASSUME NEW l \in Layer, MountFails(l)
      PROVE  /\ overlay[a] # NoBase => overlay'[a] = overlay[a]
             /\ binds[a] \subseteq binds'[a]
  BY <1>4, <1>6 DEF MountFails, CanMount
<1>7. ASSUME NEW l \in Layer, UnmountLayer(l)
      PROVE  overlay'[a] = overlay[a] /\ binds'[a] = binds[a]
  BY <1>1, <1>2, <1>7 DEF UnmountLayer, Unmounting
<1>8. ASSUME NEW l \in Layer, NEW left \in SUBSET binds[l], UnmountFails(l, left)
      PROVE  overlay'[a] = overlay[a] /\ binds'[a] = binds[a]
  BY <1>1, <1>2, <1>8 DEF UnmountFails, Sound, TypeOK
<1>9. ASSUME NEW all \in BOOLEAN, UnmountAll(all)
      PROVE  overlay'[a] = overlay[a] /\ binds'[a] = binds[a]
  <2>1. a \in StillBusy
    BY BusyChainStays
  <2> QED BY <1>1, <1>9, <2>1 DEF UnmountAll, Unmounting
<1>10. CASE TreeCommand
  BY <1>3, <1>10 DEF TreeCommand, AddLayer, CrashInAdd, RebaseLayer, RemoveLayer,
     RenameLayer, CrashInRename, Renamed, RenameFails, CrashInWrite, CrashInRemove
<1>11. CASE MountCommand
  BY <1>3, <1>5, <1>6, <1>7, <1>8, <1>9, <1>11
  DEF MountCommand, Makedirs, CrashInMakedirs, MountLayer, Chroot
<1> QED BY <1>10, <1>11

\* Unmount never takes away what is in use, on the layer or further up the
\* layers that derive from it (unmountLayer, Unmount with -all).
THEOREM UsedMountsAreKept == Spec => UsedMountsKept
<1>1. Sound /\ [Next]_vars =>
        [\/ \A l \in layers : MountBusy(l) =>
                \A a \in Chain(l) : a = l \/ overlay[l] # NoBase =>
                    /\ overlay[a] # NoBase => overlay'[a] = overlay[a]
                    /\ binds[a] \subseteq binds'[a]
         \/ ~(TreeCommand \/ MountCommand)]_vars
  BY UsedMountsStay
<1> QED BY <1>1, SpecIsSound, PTL DEF Spec, UsedMountsKept

\* Only what is under a layer in use, and mounted, is busy to umount -all.
LEMMA StillBusyIsLeast ==
    ASSUME Sound, NEW l \in StillBusy
    PROVE  \E d \in layers : /\ l \in Chain(d) /\ MountBusy(d)
                             /\ d = l \/ overlay[d] # NoBase
<1> DEFINE T == {k \in layers :
                   \E d \in layers : /\ k \in Chain(d) /\ MountBusy(d)
                                     /\ d = k \/ overlay[d] # NoBase}
<1>1. ASSUME NEW k \in layers, MountBusy(k)
      PROVE  k \in T
  <2>1. k \in Chain(k)
    BY ChainSelf DEF Chain
  <2> QED BY <1>1, <2>1
<1>2. ASSUME NEW k \in layers, NEW c \in Layer, overlay[c] = k,
             c \in layers /\ HasMounts(c) => c \in T
      PROVE  k \in T
  <2>1. k # NoBase
    BY NoBaseIsNoLayer DEF Sound
  <2>2. c \in layers /\ HasMounts(c) /\ base[c] = k
    BY <1>2, <2>1 DEF Sound, MountsFollowTree, MountsAreSeen, HasMounts
  <2>3. PICK d \in layers : /\ c \in Chain(d) /\ MountBusy(d)
                            /\ d = c \/ overlay[d] # NoBase
    BY <1>2, <2>2
  <2>4. k \in Chain(d)
    BY <2>2, <2>3, ChainStep DEF Chain
  <2> QED BY <1>2, <2>1, <2>3, <2>4
<1>3. T \in SUBSET layers
  OBVIOUS
<1> HIDE DEF T
<1>4. l \in T
  BY <1>1, <1>2, <1>3 DEF StillBusy
<1> QED BY <1>4 DEF T

\* umount -all unmounts all that neither is in use nor lies under a mounted
\* layer in use (Unmount).
THEOREM UnmountAllUnmounts == Spec => UnmountAllIsThorough
<1>1. ASSUME Sound, UnmountAll(TRUE), NEW l \in layers, HasMounts(l)'
      PROVE  \E d \in layers : /\ l \in Chain(d) /\ MountBusy(d)
                               /\ d = l \/ overlay[d] # NoBase
  <2>1. l \in Layer
    BY <1>1 DEF Sound, TypeOK
  <2>2. overlay'[l] # NoBase \/ binds'[l] # {}
    BY <1>1 DEF HasMounts
  <2>3. l \notin {k \in layers : HasMounts(k)} \ StillBusy
    BY <1>1, <2>1, <2>2 DEF UnmountAll, Unmounting
  <2>4. overlay[l] # NoBase \/ binds[l] # {}
    BY <1>1, <2>1, <2>2 DEF UnmountAll, Unmounting
  <2>5. HasMounts(l)
    BY <1>1, <2>1, <2>4 DEF Sound, MountsAreSeen, HasMounts
  <2> QED BY <1>1, <2>3, <2>5, StillBusyIsLeast
<1>2. Sound =>
        [UnmountAll(TRUE) => \A l \in layers :
            HasMounts(l)' => \E d \in layers : l \in Chain(d) /\ MountBusy(d)
                                              /\ (d = l \/ overlay[d] # NoBase)]_vars
  BY <1>1
<1> QED BY <1>2, SpecIsSound, PTL DEF Spec, UnmountAllIsThorough

-----------------------------------------------------------------------------
(* The tree of layers.                                                     *)

\* A map with fewer bases than one without cycles has none.
LEMMA AcyclicFewer ==
    ASSUME NEW L, NEW b, Acyclic(L, b), NEW M, NEW c,
           \A x \in M : c[x] \in M => x \in L /\ c[x] = b[x]
    PROVE  Acyclic(M, c)
<1> SUFFICES ASSUME NEW S \in SUBSET M, S # {}, \A x \in S : c[x] \in S
             PROVE  FALSE
  BY DEF Acyclic
<1>1. S \in SUBSET L /\ \A x \in S : b[x] \in S
  OBVIOUS
<1> QED BY <1>1 DEF Acyclic

\* A rename makes no cycle, however many of the children it has patched and
\* whichever file it leaves in part.
LEMMA RenameMakesNoCycle ==
    ASSUME TypeOK, Loadable, NEW old \in layers, NEW new \in Layer \ layers,
           NEW patched \in SUBSET Children(layers, base, old), NEW part,
           NEW torn \in SUBSET (Children(layers, base, old) \cup {new}),
           \A x \in torn : part.base \in {IF x = new THEN base[old] ELSE new, NoBase},
           Renamed(old, new, patched, torn, part)
    PROVE  Acyclic(layers', base')
<1> DEFINE name(x) == IF x = new THEN old ELSE x
           written == patched \cup (torn \ {new})
<1>1. /\ layers' = (layers \ {old}) \cup {new}
      /\ layers' \subseteq Layer
  BY DEF Renamed, MovedSet, TypeOK
<1>2. \A x \in layers' : base'[x] # NoBase =>
          base'[x] = IF x \in written THEN new ELSE base[name(x)]
  BY <1>1 DEF Renamed, PatchedBase, Children
<1> SUFFICES ASSUME NEW S \in SUBSET layers', S # {}, \A x \in S : base'[x] \in S
             PROVE  FALSE
  BY DEF Acyclic
<1> DEFINE R == {name(x) : x \in S}
<1>3. NoBase \notin S /\ old \notin S
  BY <1>1, NoBaseAssumption
<1>4. R \in SUBSET layers /\ R # {}
  BY <1>1
<1>5. ASSUME NEW x \in S PROVE base[name(x)] \in R
  <2>1. base'[x] \in S /\ base'[x] # NoBase /\ x \in layers'
    BY <1>3
  <2>2. CASE x \in written
    <3>1. base[name(x)] = old /\ base'[x] = new
      BY <1>2, <2>1, <2>2 DEF Children
    <3> QED BY <2>1, <3>1
  <2>3. CASE x \notin written
    <3>1. base'[x] = base[name(x)] /\ name(x) \in layers
      BY <1>1, <1>2, <2>1, <2>3
    <3>2. base[name(x)] # new
      BY <3>1, NoBaseAssumption DEF Loadable, Inheritable, Closed
    <3> QED BY <2>1, <3>1, <3>2
  <2> QED BY <2>2, <2>3
<1>6. \A r \in R : base[r] \in R
  BY <1>5
<1> HIDE DEF R
<1> QED BY <1>4, <1>6 DEF Loadable, Inheritable, Acyclic

LEMMA TreeCommandMakesNoCycle ==
    ASSUME Sound, TreeCommand
    PROVE  NoCycle'
<1>1. ASSUME NEW l \in Layer, NEW b \in Layer \cup {NoBase}, NEW cfg,
             AddLayer(l, b, cfg) \/ CrashInAdd(l, b, cfg)
      PROVE  NoCycle'
  <2>1. /\ l \in Layer \ layers /\ b \in layers \cup {NoBase} /\ Loadable
        /\ layers' = layers \cup {l} /\ base' = [base EXCEPT ![l] = b]
    BY <1>1 DEF AddLayer, CrashInAdd
  <2>2. Inheritable(layers \cup {l}, [base EXCEPT ![l] = b])
    BY <2>1, InheritableAdd DEF Loadable, Sound, TypeOK
  <2> QED BY <2>1, <2>2 DEF NoCycle, Inheritable
<1>2. ASSUME NEW l \in Layer, NEW b, RebaseLayer(l, b) PROVE NoCycle'
  BY <1>2 DEF RebaseLayer, Inheritable, NoCycle
<1>3. ASSUME NEW l \in Layer,
             (\E files \in BOOLEAN : RemoveLayer(l, files)) \/ CrashInRemove(l)
      PROVE  NoCycle'
  <2>1. /\ Loadable
        /\ \/ UNCHANGED <<layers, base>>
           \/ /\ layers' = layers \ {l}
              /\ base' = [base EXCEPT ![l] = NoBase]
    BY <1>3 DEF RemoveLayer, Removable, Discard, CrashInRemove, treeVars
  <2>2. \A x \in layers' : base'[x] \in layers' => x \in layers /\ base'[x] = base[x]
    BY <2>1, NoBaseAssumption DEF Sound, TypeOK
  <2>3. Acyclic(layers, base)
    BY <2>1 DEF Loadable, Inheritable
  <2> QED BY <2>2, <2>3, AcyclicFewer DEF NoCycle
<1>4. ASSUME NEW old \in Layer, NEW new \in Layer,
             RenameLayer(old, new) \/ CrashInRename(old, new)
      PROVE  NoCycle'
  BY <1>4, RenameParts, RenameMakesNoCycle DEF Alterable, NoCycle, Sound
<1>5. ASSUME NEW l \in Layer, RenameFails(l) PROVE NoCycle'
  BY <1>5 DEF RenameFails, Alterable, Loadable, Inheritable, NoCycle, treeVars
<1>6. ASSUME NEW l \in Layer, CrashInWrite(l) PROVE NoCycle'
  <2>1. PICK b \in layers \cup {NoBase} : \E b1 \in {b, NoBase} :
           /\ Loadable /\ layers' = layers \cup {l}
           /\ base' = [base EXCEPT ![l] = b1]
           /\ l \in layers => Inheritable(layers, [base EXCEPT ![l] = b])
    <3> DEFINE cfgs(b) == IF l \in layers THEN {imports[l]}
                          ELSE Configs \cup {imports[k] : k \in layers \cap {b}}
    <3>1. PICK b \in layers \cup {NoBase} : \E cfg \in cfgs(b) :
             /\ l \in layers => Inheritable(layers, [base EXCEPT ![l] = b])
             /\ \E part \in PartsOfFile(b, cfg) : base' = [base EXCEPT ![l] = part.base]
      BY <1>6 DEF CrashInWrite
    <3>2. \A cfg \in cfgs(b) : \A part \in PartsOfFile(b, cfg) : part.base \in {b, NoBase}
      BY DEF PartsOfFile
    <3> QED BY <1>6, <3>1, <3>2 DEF CrashInWrite
  <2>2. PICK b1 \in {b, NoBase} : base' = [base EXCEPT ![l] = b1]
    BY <2>1
  <2>3. Acyclic(layers, base)
    BY <2>1 DEF Loadable, Inheritable
  <2>4. CASE l \notin layers
    <3>1. Inheritable(layers \cup {l}, [base EXCEPT ![l] = b1])
      BY <2>1, <2>4, InheritableAdd DEF Loadable, Sound, TypeOK
    <3> QED BY <2>1, <2>2, <3>1 DEF NoCycle, Inheritable
  <2>5. CASE l \in layers /\ b1 = b
    <3>1. layers' = layers /\ base' = [base EXCEPT ![l] = b]
      BY <2>1, <2>2, <2>5
    <3>2. Acyclic(layers, [base EXCEPT ![l] = b])
      BY <2>1, <2>5 DEF Inheritable
    <3> QED BY <3>1, <3>2 DEF NoCycle
  <2>6. CASE l \in layers /\ b1 = NoBase
    <3>1. \A x \in layers' : base'[x] \in layers' => x \in layers /\ base'[x] = base[x]
      BY <2>1, <2>2, <2>6, NoBaseAssumption DEF Sound, TypeOK
    <3> QED BY <2>3, <3>1, AcyclicFewer DEF NoCycle
  <2> QED BY <2>1, <2>2, <2>4, <2>5, <2>6
<1> QED BY <1>1, <1>2, <1>3, <1>4, <1>5, <1>6 DEF TreeCommand

\* The other commands and the world leave the tree alone.
LEMMA TreeKept ==
    ASSUME MountCommand \/ Environment \/ UNCHANGED vars
    PROVE  UNCHANGED treeVars
  BY DEF MountCommand, Makedirs, CrashInMakedirs, MountLayer, Mount, MountFails,
     UnmountLayer, UnmountFails, UnmountAll, Chroot, Environment, EnterLayer, LeaveLayer,
     Install, LoseDir, HostChanges, UnmountByHand, UnmountOverlayByHand, Reboot, vars

\* Whatever is interrupted, and whichever write fails, no layer ever becomes its
\* own ancestor, on which the walks of layerinfo.go and normalizeOrder would not
\* end (RenameLayer, RebaseLayer).
THEOREM NeverACycle == Spec => []NoCycle
<1>1. Init => NoCycle
  BY DEF Init, NoCycle, Acyclic
<1>2. Sound /\ NoCycle /\ [Next]_vars => NoCycle'
  <2>1. CASE UNCHANGED treeVars
    BY <2>1 DEF treeVars, NoCycle
  <2> QED BY <2>1, TreeKept, TreeCommandMakesNoCycle DEF Next
<1> QED BY <1>1, <1>2, SpecIsSound, PTL DEF Spec

\* A rename that patches all of the children is the abstract one.
LEMMA RenameIsAbstract ==
    ASSUME TypeOK, Tidy, NEW old \in layers, NEW new \in Layer \ layers,
           NEW part, Renamed(old, new, Children(layers, base, old), {}, part)
    PROVE  /\ layers' = (layers \ {old}) \cup {new}
           /\ base' = RenamedBase(base, old, new)
<1>1. \A l \in Layer : l \in Children(layers, base, old) <=> base[l] = old
  BY NoBaseAssumption DEF Children, TypeOK, Tidy
<1> QED BY <1>1 DEF Renamed, MovedSet, PatchedBase, RenamedBase

\* Without a failing write and a kill half way every command that alters the
\* tree is one of the abstract commands.
LEMMA TreeCommandIsAbstract ==
    ASSUME Sound, TreeCommand, Faults \cap {"write", "crash"} = {}
    PROVE  Tree!Next \/ UNCHANGED <<layers, base>>
<1>1. ASSUME NEW l \in Layer, NEW b \in Layer \cup {NoBase}, NEW cfg, AddLayer(l, b, cfg)
      PROVE  Tree!Next
  BY <1>1 DEF AddLayer, Tree!Next, Tree!Add
<1>2. ASSUME NEW l \in Layer, NEW b \in Layer \cup {NoBase}, RebaseLayer(l, b)
      PROVE  Tree!Next
  BY <1>2 DEF RebaseLayer, Rebasable, Alterable, Tree!Next, Tree!Rebase, Inheritable,
     Closed, Acyclic, Tree!Inheritable, Tree!Closed, Tree!Acyclic
<1>3. ASSUME NEW l \in Layer, NEW files \in BOOLEAN, RemoveLayer(l, files)
      PROVE  Tree!Next \/ UNCHANGED <<layers, base>>
  BY <1>3 DEF RemoveLayer, Removable, Discard, treeVars, Children, Tree!Children,
     Tree!Next, Tree!Remove
<1>4. ASSUME NEW old \in Layer, NEW new \in Layer, RenameLayer(old, new)
      PROVE  Tree!Next
  <2>1. /\ old \in layers /\ new \notin layers
        /\ \E part : Renamed(old, new, Children(layers, base, old), {}, part)
    BY <1>4 DEF RenameLayer, Alterable
  <2>2. /\ layers' = (layers \ {old}) \cup {new}
        /\ base' = RenamedBase(base, old, new)
    BY <2>1, RenameIsAbstract DEF Sound
  <2> QED BY <2>1, <2>2 DEF Tree!Next, Tree!Rename, RenamedBase, Tree!RenamedBase
<1>5. ASSUME NEW l \in Layer, RenameFails(l) PROVE UNCHANGED <<layers, base>>
  BY <1>5 DEF RenameFails, treeVars
<1> QED BY <1>1, <1>2, <1>3, <1>4, <1>5
    DEF TreeCommand, CrashInAdd, CrashInRename, CrashInWrite, CrashInRemove

\* The commands implement the abstract tree of layers: each alters the tree as
\* one of add, remove, rename and rebase does, or not at all.
THEOREM TreeIsImplemented ==
    ASSUME Faults \cap {"write", "crash"} = {}
    PROVE  Spec => ImplementsTree
<1>1. Init => Tree!Init
  BY DEF Init, Tree!Init
<1>2. Sound /\ [Next]_vars => [Tree!Next]_(Tree!vars)
  <2>1. CASE UNCHANGED treeVars
    BY <2>1 DEF treeVars, Tree!vars
  <2> QED BY <2>1, TreeKept, TreeCommandIsAbstract DEF Next, Tree!vars
<1> QED BY <1>1, <1>2, SpecIsSound, PTL DEF Spec, ImplementsTree, Tree!Spec

\* What every command of the abstract tree starts from and leaves behind.
TreeOK == Tree!TypeOK /\ TreeInheritable

LEMMA AbstractTreeStep ==
    ASSUME TreeOK, Tree!Next \/ UNCHANGED <<layers, base>>
    PROVE  TreeOK'
<1>1. ASSUME NEW l \in Layer, NEW b \in Layer \cup {NoBase}, Tree!Add(l, b)
      PROVE  TreeOK'
  <2>1. Inheritable(layers \cup {l}, [base EXCEPT ![l] = b])
    BY <1>1, InheritableAdd DEF TreeOK, Tree!Add, Tree!TypeOK, TreeInheritable
  <2> QED BY <1>1, <2>1 DEF TreeOK, Tree!Add, Tree!TypeOK, TreeInheritable
<1>2. ASSUME NEW l \in Layer, NEW b \in Layer \cup {NoBase}, Tree!Rebase(l, b)
      PROVE  TreeOK'
  BY <1>2 DEF TreeOK, Tree!Rebase, Tree!TypeOK, TreeInheritable, Inheritable, Closed,
     Acyclic, Tree!Inheritable, Tree!Closed, Tree!Acyclic
<1>3. ASSUME NEW l \in Layer, Tree!Remove(l)
      PROVE  TreeOK'
  <2>1. Children(layers, base, l) = {}
    BY <1>3 DEF Tree!Remove, Children, Tree!Children
  <2>2. Inheritable(layers \ {l}, [base EXCEPT ![l] = NoBase])
    BY <1>3, <2>1, InheritableRemove DEF TreeOK, Tree!Remove, Tree!TypeOK, TreeInheritable
  <2> QED BY <1>3, <2>2 DEF TreeOK, Tree!Remove, Tree!TypeOK, TreeInheritable
<1>4. ASSUME NEW old \in Layer, NEW new \in Layer, Tree!Rename(old, new)
      PROVE  TreeOK'
  <2>1. base' = RenamedBase(base, old, new)
    BY <1>4 DEF Tree!Rename, RenamedBase, Tree!RenamedBase
  <2>2. Inheritable((layers \ {old}) \cup {new}, RenamedBase(base, old, new))
    BY <1>4, InheritableRename DEF TreeOK, Tree!Rename, Tree!TypeOK, TreeInheritable
  <2> QED BY <1>4, <2>1, <2>2 DEF TreeOK, Tree!Rename, Tree!TypeOK, TreeInheritable, RenamedBase
<1>5. CASE UNCHANGED <<layers, base>>
  BY <1>5 DEF TreeOK, Tree!TypeOK, TreeInheritable
<1> QED BY <1>1, <1>2, <1>3, <1>4, <1>5 DEF Tree!Next

\* The abstract tree keeps its promise: add, remove, rename and rebase, for any
\* names and in any order, leave no base missing and no layer its own ancestor,
\* so that no command ends in FindLayers.
THEOREM TreePromise == Tree!Spec => [](Tree!TypeOK /\ TreeInheritable)
<1>1. Tree!Init => TreeOK
  BY DEF TreeOK, Tree!Init, Tree!TypeOK, TreeInheritable, Inheritable, Closed, Acyclic
<1>2. TreeOK <=> Tree!TypeOK /\ TreeInheritable
  BY DEF TreeOK
<1>3. TreeOK /\ [Tree!Next]_(Tree!vars) => TreeOK'
  BY AbstractTreeStep DEF Tree!vars
<1> QED BY <1>1, <1>2, <1>3, PTL DEF Tree!Spec

\* FindLayers never finds a base missing or a cycle, as long as no layerconfig
\* fails to be written and no command is killed half way (checkInheritance).
THEOREM TreeStaysInheritable ==
    ASSUME Faults \cap {"write", "crash"} = {}
    PROVE  Spec => []TreeInheritable
  BY TreeIsImplemented, TreePromise, PTL DEF ImplementsTree

-----------------------------------------------------------------------------
(* What a mount without an error leaves.                                   *)

\* A layerconfig file lists finitely many imports.
FiniteImports == \A l \in Layer : IsFiniteSet(imports[l])

LEMMA FiniteNext ==
    ASSUME Sound, FiniteImports, [Next]_vars
    PROVE  FiniteImports'
<1>1. CASE UNCHANGED imports
  BY <1>1 DEF FiniteImports
<1>2. ASSUME NEW l \in Layer, NEW cfg, IsFiniteSet(cfg), imports' = [imports EXCEPT ![l] = cfg]
      PROVE  FiniteImports'
  BY <1>2 DEF Sound, TypeOK, FiniteImports
<1>3. ASSUME NEW l \in Layer, NEW b, NEW cfg, AddLayer(l, b, cfg) \/ CrashInAdd(l, b, cfg)
      PROVE  FiniteImports'
  <2>1. cfg \in Configs \cup {imports[k] : k \in layers \cap {b}}
    BY <1>3 DEF AddLayer, CrashInAdd
  <2>2. IsFiniteSet(cfg)
    BY <2>1, ConfigAssumption DEF FiniteImports, Sound, TypeOK
  <2> QED BY <1>2, <1>3, <2>2 DEF AddLayer, CrashInAdd
<1>4. ASSUME NEW l \in Layer, imports' = [imports EXCEPT ![l] = {}]
      PROVE  FiniteImports'
  BY <1>2, <1>4, FS_EmptySet
<1>5. ASSUME NEW old \in Layer, NEW new \in Layer,
             RenameLayer(old, new) \/ CrashInRename(old, new)
      PROVE  FiniteImports'
  <2>1. \A l \in Layer : Moved(imports, old, new, {})[l] \in {{}} \cup {imports[k] : k \in Layer}
    BY DEF Moved, Sound, TypeOK
  <2>2. PICK part : /\ \E k \in Layer : part.imports \subseteq imports[k]
                    /\ \E patched, torn : Renamed(old, new, patched, torn, part)
    BY <1>5, RenameParts
  <2>3. \A l \in Layer : imports'[l] \in {{}, part.imports} \cup {imports[k] : k \in Layer}
    BY <2>1, <2>2 DEF Renamed
  <2>4. IsFiniteSet(part.imports)
    BY <2>2, FS_Subset DEF FiniteImports
  <2> QED BY <2>3, <2>4, FS_EmptySet DEF FiniteImports
<1>10. ASSUME NEW l \in Layer, CrashInWrite(l) PROVE FiniteImports'
  <2>1. PICK b \in layers \cup {NoBase},
             cfg \in Configs \cup {imports[k] : k \in Layer} :
           \E part \in PartsOfFile(b, cfg) : imports' = [imports EXCEPT ![l] = part.imports]
    <3>1. layers \subseteq Layer
      BY DEF Sound, TypeOK
    <3> DEFINE cfgs(b) == IF l \in layers THEN {imports[l]}
                          ELSE Configs \cup {imports[k] : k \in layers \cap {b}}
    <3>2. \A b : cfgs(b) \subseteq Configs \cup {imports[k] : k \in Layer}
      BY <3>1
    <3>3. PICK b \in layers \cup {NoBase} : \E cfg \in cfgs(b) :
             \E part \in PartsOfFile(b, cfg) : imports' = [imports EXCEPT ![l] = part.imports]
      BY <1>10 DEF CrashInWrite
    <3> HIDE DEF cfgs
    <3> QED BY <3>2, <3>3
  <2>2. PICK part \in PartsOfFile(b, cfg) : imports' = [imports EXCEPT ![l] = part.imports]
    BY <2>1
  <2>3. IsFiniteSet(cfg) /\ part.imports \subseteq cfg
    BY <2>1, ConfigAssumption DEF FiniteImports, PartsOfFile
  <2> QED BY <1>2, <2>2, <2>3, FS_Subset
<1>6. CASE TreeCommand
  <2>1. ASSUME NEW l \in Layer, NEW files \in BOOLEAN, RemoveLayer(l, files)
        PROVE  FiniteImports'
    BY <1>1, <1>4, <2>1 DEF RemoveLayer, Discard, treeVars
  <2>2. ASSUME NEW old \in Layer, NEW new \in Layer,
               RenameLayer(old, new) \/ CrashInRename(old, new)
        PROVE  FiniteImports'
    BY <1>5, <2>2
  <2>3. ASSUME NEW l \in Layer, RenameFails(l) \/ CrashInWrite(l) \/ CrashInRemove(l)
        PROVE  FiniteImports'
    BY <1>1, <1>4, <1>10, <2>3 DEF RenameFails, CrashInRemove, treeVars
  <2>4. ASSUME NEW l \in Layer, NEW b, RebaseLayer(l, b)
        PROVE  FiniteImports'
    BY <1>1, <2>4 DEF RebaseLayer
  <2> QED BY <1>3, <1>6, <2>1, <2>2, <2>3, <2>4 DEF TreeCommand
<1>7. CASE MountCommand
  BY <1>1, <1>7 DEF MountCommand, Makedirs, CrashInMakedirs, MountLayer, Mount, MountFails,
     UnmountLayer, UnmountFails, UnmountAll, Chroot, treeVars
<1>8. CASE Environment
  BY <1>1, <1>8 DEF Environment, EnterLayer, LeaveLayer, Install, LoseDir, HostChanges,
     UnmountByHand, UnmountOverlayByHand, Reboot, treeVars
<1>9. CASE UNCHANGED vars
  BY <1>1, <1>9 DEF vars, treeVars
<1> QED BY <1>6, <1>7, <1>8, <1>9 DEF Next

\* A layer of which the whole chain is at least mountable shows the minimal
\* build directories once it is mounted: its ultimate base has them.
LEMMA BuildDirsVisible ==
    ASSUME Sound, Loadable, NEW l \in layers,
           \A a \in Chain(l) : LayerState(a) >= Mountable
    PROVE  "fhs" \in Visible(l)
<1> DEFINE r == Root(l)
<1>1. r \in Chain(l) /\ base[r] = NoBase /\ r \in layers
  BY RootExists, ChainSelf, NoBaseIsNoLayer DEF Loadable, Root, Chain, Sound
<1>2. OwnState(r) >= Mountable
  BY <1>1 DEF LayerState, Mountable, Incomplete, Complete
<1>3. "fhs" \in Visible(r) /\ r \in Layer
  BY <1>1, <1>2 DEF OwnState, Mountable, Incomplete, Complete, Error, Sound, TypeOK
<1>4. Chain(r) \subseteq Chain(l)
  BY <1>1, ChainNested DEF Chain
<1> QED BY <1>3, <1>4 DEF Visible

\* The imports of a layer that mountOne goes through have both of their ends:
\* those to be mounted because mountOne looks, the others because the layer
\* would not be mountable.
LEMMA ImportsUsable ==
    ASSUME Sound, NEW l \in layers, LayerState(l) >= Mountable,
           CanMount(l, NeedsOverlay(l), NeedsImports(l))
    PROVE  imports[l] \subseteq Usable(l)
<1>1. NeedsImports(l) \subseteq Usable(l)
  BY DEF CanMount
<1>2. CASE base[l] # NoBase /\ overlay[l] = NoBase
  <2>1. binds[l] = {}
    BY <1>2 DEF Sound, TypeOK, MountsFollowTree
  <2> QED BY <1>1, <2>1 DEF NeedsImports, Bound
<1>3. CASE base[l] = NoBase \/ overlay[l] # NoBase
  <2>1. OwnState(l) >= Mountable
    BY DEF LayerState, Mountable, Incomplete, Complete
  <2>2. ImportState(l) >= Mountable
    BY <1>3, <2>1 DEF OwnState, Mountable, Incomplete, Complete, Error
  <2> QED BY <2>2 DEF ImportState, Mountable, Error, Inhabited
<1> QED BY <1>2, <1>3

\* Where a mount without an error leads on each layer of the chain.
LEMMA MountReaches ==
    ASSUME Sound, NEW l \in layers, Mount(l), NEW a \in Chain(l)
    PROVE  /\ a \in layers /\ LayerState(a) >= Mountable
           /\ CanMount(a, NeedsOverlay(a), NeedsImports(a))
           /\ Probed(a)'
           /\ base[a] # NoBase => overlay'[a] = base[a]
           /\ imports[a] \subseteq Bound(a)'
<1>1. a \in layers /\ a \in Layer /\ l \in Chain(l)
  BY ChainSelf DEF Chain, Sound, TypeOK
<1>2. MountsAll(a, NeedsOverlay(a), NeedsImports(a))
  BY DEF Mount, MountUpTo
<1>3. dirs[a] \subseteq dirs'[a] /\ base' = base
  BY <1>1, MadeDirsGrow DEF Mount, MountBegins, treeVars, Sound
<1>4. Probed(a)'
  <2>1. Probed(a)
    BY <1>2, MountableIsProbed DEF MountsAll
  <2> QED BY <1>3, <2>1 DEF Probed
<1>5. overlay'[a] = IF NeedsOverlay(a) THEN base[a] ELSE overlay[a]
  BY <1>1 DEF Mount, MountUpTo
<1>6. base[a] # NoBase => overlay'[a] = base[a]
  BY <1>1, <1>5 DEF NeedsOverlay, Sound, MountsFollowTree
<1>7. binds'[a] = binds[a] \cup {<<i, BindSource(a, i)>> : i \in NeedsImports(a)}
  BY <1>1 DEF Mount, MountUpTo
<1>8. ASSUME NEW i \in imports[a] PROVE i \in Bound(a)'
  <2>1. CASE i \in Bound(a)
    BY <1>7, <2>1 DEF Bound
  <2>2. CASE i \notin Bound(a)
    <3>1. <<i, BindSource(a, i)>> \in binds'[a]
      BY <1>7, <2>2 DEF NeedsImports
    <3> QED BY <3>1 DEF Bound
  <2> QED BY <2>1, <2>2
<1> QED BY <1>1, <1>2, <1>4, <1>6, <1>8 DEF MountsAll

\* What a mount leaves of a layer of its chain, as the next command finds it.
LEMMA MountedState ==
    ASSUME Sound, Sound', FiniteImports, NEW l \in layers, Mount(l), NEW a \in Chain(l)
    PROVE  /\ OwnState(a)' >= Mountable
           /\ OwnState(a)' >= Mounted \/ (base[a] = NoBase /\ imports[a] = {})
<1>1. /\ UNCHANGED <<layers, base, imports, content, host>>
      /\ Loadable /\ Loadable' /\ Chain(a)' = Chain(a)
  BY DEF Mount, MountBegins, treeVars, Loadable, Chain
<1>2. /\ a \in layers /\ a \in Layer /\ Probed(a)'
      /\ base[a] # NoBase => overlay'[a] = base[a]
      /\ imports[a] \subseteq Bound(a)'
  BY MountReaches DEF Sound, TypeOK
<1>3. Visible(a)' = Visible(a) /\ Usable(a)' = Usable(a)
  BY <1>1 DEF Visible, ContentDir, Usable, HaveSource
<1>4. "fhs" \in Visible(a)'
  <2>1. \A k \in Chain(a) : k \in Chain(l)
    BY ChainNested DEF Chain
  <2>2. \A k \in Chain(a) : LayerState(k) >= Mountable
    BY <2>1, MountReaches
  <2> QED BY <1>1, <1>2, <1>3, <2>2, BuildDirsVisible
<1>5. imports'[a] \subseteq Usable(a)'
  BY <1>1, <1>3, MountReaches, ImportsUsable
<1>6. ~WrongSource(a)'
  <2> SUFFICES ASSUME NEW i \in imports'[a], NEW bind \in binds'[a], bind[1] = i
               PROVE  <<i, BindSource(a, i)'>> \in binds'[a]
    BY DEF WrongSource, Bound
  <2>1. bind[2] = BindSource(a, i)'
    BY <1>1, <1>2 DEF Sound, BindsFromRoot
  <2>2. bind = <<bind[1], bind[2]>>
    BY <1>2 DEF Sound, TypeOK
  <2> QED BY <2>1, <2>2
<1>7. OwnState(a)' = ImportState(a)'
  BY <1>1, <1>2, <1>4, NoBaseAssumption DEF OwnState, Sound, TypeOK
<1> DEFINE c == Cardinality(imports[a])
<1>8. c \in Nat /\ (c = 0 <=> imports[a] = {})
  BY <1>2, FS_CardinalityType, FS_EmptySet DEF FiniteImports
<1>9. NumMounted(a)' = c + (IF base[a] = NoBase THEN 0 ELSE 1)
  <2>1. (imports[a] \cap Bound(a))' = imports[a]
    BY <1>1, <1>2
  <2> QED BY <1>1, <2>1 DEF NumMounted
<1>10. ImportState(a)' \in {Mounted, MountedBusy} \/ (base[a] = NoBase /\ imports[a] = {})
  <2>1. Cardinality(imports[a])' = c
    BY <1>1
  <2>2. ~(NumMounted(a)' < c)
    BY <1>8, <1>9
  <2>3. NumMounted(a)' = 0 => base[a] = NoBase /\ imports[a] = {}
    BY <1>8, <1>9
  <2> HIDE DEF c
  <2> QED BY <1>5, <1>6, <2>1, <2>2, <2>3 DEF ImportState
<1>11. ImportState(a)' \in {Mountable, PartialMount, Mounted, MountedBusy}
  BY <1>5, <1>6 DEF ImportState
<1> QED BY <1>7, <1>10, <1>11 DEF Mountable, PartialMount, Mounted, MountedBusy

\* Whatever was mounted before, by whom and with which failures: a mount that
\* returns no error leaves nothing of the chain unmounted, and the next command
\* finds the layer mounted (Mount, mountOne, findLayerstate).
THEOREM MountsAreComplete == Spec => MountCompletes
<1>1. ASSUME Sound, FiniteImports, Sound', NEW l \in layers, MountLayer(l)
      PROVE  /\ \A a \in Chain(l) : imports[a] \subseteq Bound(a)'
             /\ LayerState(l)' >= Mounted \/ (base[l] = NoBase /\ imports[l] = {})
  <2>1. Mount(l) /\ l \in Chain(l) /\ UNCHANGED <<layers, base>>
    BY <1>1, ChainSelf DEF MountLayer, Mount, treeVars, Chain
  <2>2. \A a \in Chain(l) : imports[a] \subseteq Bound(a)' /\ Probed(a)'
    BY <1>1, <2>1, MountReaches
  <2>3. \A a \in Chain(l) : OwnState(a)' >= Mountable
    BY <1>1, <2>1, MountedState
  <2>4. OwnState(l)' >= Mounted \/ (base[l] = NoBase /\ imports[l] = {})
    BY <1>1, <2>1, MountedState
  <2>5. Chain(l)' = Chain(l)
    BY <2>1 DEF Chain
  <2>6. ASSUME NEW a \in Chain(l)' PROVE ~(OwnState(a)' < Mountable)
    <3>1. OwnState(a)' \in Nat
      BY DEF OwnState, ImportState, Error, Incomplete, Complete, Inhabited, Mountable,
             PartialMount, Mounted, MountedBusy
    <3> QED BY <2>3, <2>5, <2>6, <3>1 DEF Mountable
  <2>7. LayerState(l)' = OwnState(l)'
    BY <2>1, <2>2, <2>6 DEF LayerState, Mountable
  <2> QED BY <2>2, <2>4, <2>7
<1>2. Init => FiniteImports
  BY FS_EmptySet DEF Init, FiniteImports
<1>3. Sound /\ FiniteImports /\ [Next]_vars => Sound' /\ FiniteImports'
  BY SoundNext, FiniteNext
<1>4. Sound /\ FiniteImports /\ [Next]_vars =>
        [\A l \in layers : MountLayer(l) =>
            /\ \A a \in Chain(l) : imports[a] \subseteq Bound(a)'
            /\ LayerState(l)' >= Mounted \/ (base[l] = NoBase /\ imports[l] = {})]_vars
  BY <1>1, <1>3
<1> QED BY <1>2, <1>3, <1>4, SoundInit, PTL DEF Spec, MountCompletes

-----------------------------------------------------------------------------
(* The walks over the layers there are.                                    *)

\* Commands make one layer at a time.
LEMMA LayersStayFinite ==
    ASSUME IsFiniteSet(layers), [Next]_vars
    PROVE  IsFiniteSet(layers')
<1>1. ASSUME NEW l, layers' \subseteq layers \cup {l} PROVE IsFiniteSet(layers')
  <2>1. IsFiniteSet(layers \cup {l})
    BY FS_AddElement
  <2> QED BY <1>1, <2>1, FS_Subset
<1>2. ASSUME UNCHANGED layers PROVE IsFiniteSet(layers')
  BY <1>2
<1>3. CASE TreeCommand
  <2>1. ASSUME NEW l \in Layer, NEW b, NEW cfg, AddLayer(l, b, cfg) \/ CrashInAdd(l, b, cfg)
        PROVE  layers' \subseteq layers \cup {l}
    BY <2>1 DEF AddLayer, CrashInAdd
  <2>2. ASSUME NEW l \in Layer, NEW b, RebaseLayer(l, b)
        PROVE  UNCHANGED layers
    BY <2>2 DEF RebaseLayer
  <2>3. ASSUME NEW l \in Layer, NEW files \in BOOLEAN, RemoveLayer(l, files)
        PROVE  layers' \subseteq layers \cup {l}
    BY <2>3 DEF RemoveLayer, Discard, treeVars
  <2>4. ASSUME NEW old \in Layer, NEW new \in Layer,
               RenameLayer(old, new) \/ CrashInRename(old, new)
        PROVE  layers' \subseteq layers \cup {new}
    BY <2>4 DEF RenameLayer, CrashInRename, Renamed, MovedSet
  <2>5. ASSUME NEW l \in Layer, RenameFails(l) \/ CrashInWrite(l) \/ CrashInRemove(l)
        PROVE  layers' \subseteq layers \cup {l}
    BY <2>5 DEF RenameFails, CrashInWrite, CrashInRemove, treeVars
  <2> QED BY <1>1, <1>2, <1>3, <2>1, <2>2, <2>3, <2>4, <2>5 DEF TreeCommand
<1>4. CASE MountCommand
  BY <1>2, <1>4 DEF MountCommand, Makedirs, CrashInMakedirs, MountLayer, Mount, MountFails,
     UnmountLayer, UnmountFails, UnmountAll, Chroot, treeVars
<1>5. CASE Environment
  BY <1>2, <1>5 DEF Environment, EnterLayer, LeaveLayer, Install, LoseDir, HostChanges,
     UnmountByHand, UnmountOverlayByHand, Reboot, treeVars
<1>6. CASE UNCHANGED vars
  BY <1>2, <1>6 DEF vars, treeVars
<1> QED BY <1>3, <1>4, <1>5, <1>6 DEF Next

\* In every state a command can find, faults or not: checkInheritance tells the
\* trees from the rest, and on a tree the chains and the order of the layers
\* are what the commands take them for (FindLayers, getAncestorsAndSelf,
\* normalizeOrder).
THEOREM WalksAreRight ==
    Spec => [](CheckInheritanceIsExact /\ ChainIsComplete /\ OrderIsTopological)
<1>1. Init => IsFiniteSet(layers)
  BY FS_EmptySet DEF Init
<1>2. IsFiniteSet(layers) /\ [Next]_vars => IsFiniteSet(layers)'
  BY LayersStayFinite
<1>3. TypeOK /\ IsFiniteSet(layers)
        => CheckInheritanceIsExact /\ ChainIsComplete /\ OrderIsTopological
  BY CheckIsRight, WalkIsRight, OrderIsRight DEF TypeOK
<1> QED BY <1>1, <1>2, <1>3, TypeCorrect, PTL DEF Spec
=============================================================================
