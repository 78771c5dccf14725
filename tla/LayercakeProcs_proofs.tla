----------------------- MODULE LayercakeProcs_proofs -----------------------
(***************************************************************************)
(* Any number of layercake commands at work at the same time, in any       *)
(* order.  What is proved is said of the layers that no race has           *)
(* disturbed.  The argument: of the layers that a command relies on (the   *)
(* chain of a layer) another that is at work alters only disturbed ones,   *)
(* and with a layer all that derives from it is disturbed, so what the     *)
(* command has read of an undisturbed chain stays true; and an undisturbed *)
(* layer that it alters nobody else relies on, so nothing is mounted there *)
(* and no child appears between its checks and its last step.  What a      *)
(* command plans from what it has read is its own affair, and is kept      *)
(* apart from what it shares with the others.  On that rest what is said   *)
(* of shells (what would alter the layer of a shell has yet to look at its *)
(* process, or has found it) and of mounts that are done (each import is   *)
(* mounted in the root on top or in the list of a command that has still   *)
(* to mount it).                                                           *)
(***************************************************************************)
EXTENDS LayercakeProcs, Inheritance_proofs

(* The parts of the inductive invariant.                                   *)

\* The directory is the lowest root of a layer, the others are overlays.
Stacks == \A l \in Layer : \A k \in DOMAIN roots[l] : k = 1 <=> roots[l][k].lower = NoBase

\* What a process is at.
Phase(p) ==
    /\ pc[p] # "idle" => cmd[p] \in Command
    /\ pc[p] \in {"list", "scan", "probe"} =>
          /\ IsFiniteSet(tree[p].layers)
          /\ Inheritable(tree[p].layers, tree[p].base)
          /\ cmd[p].op # "add" => cmd[p].on \in tree[p].layers
    /\ pc[p] = "calls" => cmd[p].op \in Mounts \cup {"umount"}
    /\ pc[p] = "write" => cmd[p].op \in Writes

TypeInv == TypeOK /\ Stacks /\ IsFiniteSet(layers) /\ \A p \in Process : Phase(p)

(* What a command plans from what it has read of the files.                *)

\* The layer whose chain the command relies on.
Origin(p) == IF cmd[p].op \in Mounts THEN cmd[p].on ELSE cmd[p].to

\* Layers are mounted from the ultimate base upwards, the overlay first.
CallsPlanned(p) ==
    LET c == calls[p]
        s == todo[p]
        b == tree[p].base
    IN  /\ \A a \in needs[p] : b[a] \in needs[p] \cup {NoBase}
        /\ \A k \in DOMAIN c : c[k].do = "mount" /\ c[k].on \in needs[p]
        /\ \A k \in DOMAIN c : c[k].at = "overlay" =>
              /\ k = 1 /\ b[c[k].on] # c[k].on
              /\ \A j \in DOMAIN s : s[j] # b[c[k].on]
        /\ \A k \in DOMAIN s : s[k] \in needs[p]
        /\ \A k, j \in DOMAIN s : k <= j => b[s[k]] # s[j]

Planned(p) == AtWork(p) =>
    /\ cmd[p].op \in Mounts => cmd[p].on \in needs[p]
    /\ cmd[p].op \in {"add", "rebase"} =>
          /\ cmd[p].to \in needs[p] \cup {NoBase}
          /\ cmd[p].op = "add" \/ pc[p] = "write" => cmd[p].on \notin needs[p]
    /\ pc[p] \in {"list", "scan", "probe"} /\ needs[p] # {} =>
          /\ Origin(p) \in tree[p].layers
          /\ needs[p] = AncestorsAndSelf(tree[p].layers, tree[p].base, Origin(p))
    /\ pc[p] = "calls" /\ cmd[p].op \in Mounts => CallsPlanned(p)
    /\ pc[p] = "calls" /\ cmd[p].op = "umount" =>
          \A k \in DOMAIN calls[p] : calls[p][k].do = "umount" /\ calls[p][k].on = cmd[p].on

(* What a command may rely on.                                             *)

\* No command alters what another relies on, but for disturbed layers.
Apart == \A p, q \in Process :
            p # q /\ AtWork(p) /\ AtWork(q) => Alters(cmd[p]) \cap needs[q] \subseteq disturbed

\* The command has not yet forgotten what it has read of the files.
Reads(p) == pc[p] \in {"list", "scan", "probe"} \/ (pc[p] = "calls" /\ cmd[p].op \in Mounts)

\* What process p has read of the layers it relies on is still so.
Relied(p) == AtWork(p) =>
    \A a \in needs[p] \ disturbed :
        /\ a \in layers /\ base[a] \in needs[p] \cup {NoBase}
        /\ Reads(p) => tree[p].base[a] = base[a]

\* A derived layer that p relies on is mounted or will be.
Under(p) == pc[p] = "calls" /\ cmd[p].op \in Mounts =>
    \A a \in needs[p] \ disturbed : base[a] # NoBase /\ OverlayOn(a) = NoBase =>
        \/ \E k \in DOMAIN todo[p] : todo[p][k] = a
        \/ calls[p] # <<>> /\ calls[p][1].on = a /\ calls[p][1].at = "overlay"

\* Nothing is mounted on layer l, neither is it under an overlay.
Free(l) == Len(roots[l]) = 1 /\ ~Overlain(l)

\* What p has found of the layer that it alters is still so.
Cleared(p) == AtWork(p) /\ cmd[p].on \notin disturbed =>
    /\ pc[p] = "calls" /\ cmd[p].op = "umount" => ~Overlain(cmd[p].on)
    /\ cmd[p].op = "add" \/ pc[p] = "write" => Free(cmd[p].on)
    /\ cmd[p].op = "remove" =>
          /\ pc[p] \in {"list", "scan", "probe"} =>
                Children(layers, base, cmd[p].on) \subseteq OwnChildren(p, cmd[p].on)
          /\ pc[p] = "write" => Children(layers, base, cmd[p].on) = {}

Steady(p) == Planned(p) /\ Relied(p) /\ Under(p) /\ Cleared(p)

\* The overlay of a derived layer stands on that of its base.
MountedOnMounted ==
    \A l \in Layer \ disturbed : OverlayOn(l) # NoBase /\ base[base[l]] # NoBase
        => OverlayOn(base[l]) # NoBase

\* An overlay stands on a layer, or on what was one before a race.
LowerKnown == \A c \in Layer : \A k \in DOMAIN roots[c] :
                 roots[c][k].lower \in layers \cup disturbed \cup {NoBase}

Inv == /\ TypeInv
       /\ TreeInheritable /\ OverlaysFollowTree /\ MountedOnMounted /\ LowerKnown
       /\ Apart
       /\ \A p \in Process : Steady(p)

-----------------------------------------------------------------------------
(* Types.                                                                  *)

\* A layer has a root on top, which is an overlay when there are several.
LEMMA StackType ==
    ASSUME TypeInv, NEW l \in Layer
    PROVE  /\ roots[l] \in Seq(Root) /\ Len(roots[l]) \in Nat \ {0}
           /\ DOMAIN roots[l] = 1 .. Len(roots[l])
           /\ Top(l) \in Root /\ Top(l) = roots[l][Len(roots[l])]
           /\ OverlayOn(l) \in Layer \cup {NoBase}
           /\ OverlayOn(l) = NoBase <=> Len(roots[l]) = 1
<1>1. roots[l] \in Seq(Root) /\ roots[l] # <<>>
  BY DEF TypeInv, TypeOK
<1> HIDE DEF Root
<1>2. Len(roots[l]) \in Nat \ {0} /\ DOMAIN roots[l] = 1 .. Len(roots[l])
  BY <1>1
<1>3. Top(l) = roots[l][Len(roots[l])] /\ Top(l) \in Root
  BY <1>1, <1>2 DEF Top, Last
<1>4. OverlayOn(l) \in Layer \cup {NoBase}
  BY <1>3 DEF OverlayOn, Root
<1>5. OverlayOn(l) = NoBase <=> Len(roots[l]) = 1
  <2> DEFINE n == Len(roots[l])
  <2>1. n \in DOMAIN roots[l]
    BY <1>2
  <2>2. n = 1 <=> roots[l][n].lower = NoBase
    BY <2>1 DEF TypeInv, Stacks
  <2> QED BY <2>2, <1>3 DEF OverlayOn
<1> QED BY <1>1, <1>2, <1>3, <1>4, <1>5

\* The chain that a command has read is one of layers.
LEMMA OwnChainType ==
    ASSUME TypeInv, NEW p \in Process, pc[p] = "probe", cmd[p].op # "add"
    PROVE  /\ cmd[p].on \in Layer
           /\ OwnChain(p, cmd[p].on) \in Seq(Layer) /\ OwnChain(p, cmd[p].on) # <<>>
           /\ PartOfChain(tree[p].layers, tree[p].base, cmd[p].on, OwnChain(p, cmd[p].on))
           /\ tree[p].base[OwnChain(p, cmd[p].on)[1]] = NoBase
<1> DEFINE L == tree[p].layers
           b == tree[p].base
           l == cmd[p].on
           s == OwnChain(p, l)
<1>1. /\ cmd[p] \in Command /\ IsFiniteSet(L) /\ Inheritable(L, b) /\ l \in L
      /\ L \subseteq Layer
  BY DEF TypeInv, TypeOK, Phase, Tree
<1>2. NoBase \notin L /\ s = GetAncestorsAndSelf(L, b, l)
  BY <1>1, NoBaseAssumption DEF OwnChain
<1> HIDE DEF L, b, l, s
<1>3. PartOfChain(L, b, l, s) /\ b[s[1]] = NoBase
  BY <1>1, <1>2, WalkIsChain
<1>4. s \in Seq(AncestorsAndSelf(L, b, l)) /\ s # <<>>
  BY <1>3 DEF PartOfChain
<1>5. AncestorsAndSelf(L, b, l) \subseteq Layer
  BY <1>1, ChainSelf
<1>6. s \in Seq(Layer)
  <2> DEFINE A == AncestorsAndSelf(L, b, l)
  <2>1. s \in Seq(A) /\ A \subseteq Layer
    BY <1>4, <1>5
  <2> HIDE DEF A
  <2> QED BY <2>1
<1> QED BY <1>1, <1>3, <1>4, <1>6 DEF L, b, l, s

\* The system calls that are made for the imports in a set, and for the
\* overlay before or after them.
LEMMA ImportsType ==
    ASSUME NEW T
    PROVE  Only(Imports, T) \in Seq(Import) /\ \A k \in DOMAIN Only(Imports, T) : Only(Imports, T)[k] \in T
<1>1. Imports \in Seq(Import)
  BY ImportsAssumption DEF Import
<1>2. Only(Imports, T) \in Seq(Import \cap T)
  BY <1>1, OnlyType
<1> DEFINE s == Only(Imports, T)
<1> HIDE DEF s, Import
<1>3. s \in Seq(Import) /\ \A k \in DOMAIN s : s[k] \in T
  BY <1>2 DEF s
<1> QED BY <1>3 DEF s

LEMMA CallsType ==
    ASSUME NEW l \in Layer, NEW do \in {"mount", "umount"},
           NEW points \in Seq({"overlay"} \cup Import)
    PROVE  /\ CallsOn(l, do, points) \in Seq(Call)
           /\ DOMAIN CallsOn(l, do, points) = DOMAIN points
           /\ \A k \in DOMAIN points :
                 CallsOn(l, do, points)[k] = [do |-> do, on |-> l, at |-> points[k]]
<1> HIDE DEF Import
<1>1. \A k \in DOMAIN points : [do |-> do, on |-> l, at |-> points[k]] \in Call
  BY DEF Call
<1>2. DOMAIN points = 1 .. Len(points) /\ Len(points) \in Nat
  OBVIOUS
<1> QED BY <1>1, <1>2 DEF CallsOn

LEMMA MountCallsType ==
    ASSUME TypeInv, NEW p \in Process, NEW l \in Layer
    PROVE  /\ MountCalls(p, l) \in Seq(Call)
           /\ \A k \in DOMAIN MountCalls(p, l) :
                 /\ MountCalls(p, l)[k].do = "mount" /\ MountCalls(p, l)[k].on = l
                 /\ MountCalls(p, l)[k].at = "overlay" =>
                       k = 1 /\ OwnBase(p, l) # NoBase /\ OverlayOn(l) = NoBase
           /\ OwnBase(p, l) # NoBase /\ OverlayOn(l) = NoBase =>
                 MountCalls(p, l) # <<>> /\ MountCalls(p, l)[1].at = "overlay"
<1> DEFINE lower == IF OwnBase(p, l) # NoBase /\ OverlayOn(l) = NoBase
                    THEN <<"overlay">> ELSE <<>>
           imports == Only(Imports, Import \ BoundOn(l))
           points == lower \o imports
<1>1. imports \in Seq(Import)
  BY ImportsType
<1>2. lower \in {<<>>, <<"overlay">>} /\ (lower # <<>> <=> OwnBase(p, l) # NoBase /\ OverlayOn(l) = NoBase)
  OBVIOUS
<1>3. "overlay" \notin Import
  BY ImportsAssumption DEF Import
<1> HIDE DEF lower, imports, Import
<1>4. points \in Seq({"overlay"} \cup Import)
  <2> DEFINE P == {"overlay"} \cup Import
  <2>1. "overlay" \in P /\ Import \subseteq P
    OBVIOUS
  <2> HIDE DEF P
  <2>2. lower \in Seq(P)
    <3>1. <<>> \in Seq(P) /\ <<"overlay">> \in Seq(P)
      BY <2>1
    <3> QED BY <1>2, <3>1
  <2>3. imports \in Seq(P)
    BY <1>1, <2>1
  <2> QED BY <2>2, <2>3 DEF P
<1>5. \A k \in DOMAIN points : points[k] = "overlay" => k = 1 /\ lower # <<>>
  BY <1>1, <1>2, <1>3
<1>6. lower # <<>> => points # <<>> /\ points[1] = "overlay"
  BY <1>1, <1>2
<1>7. MountCalls(p, l) = CallsOn(l, "mount", points)
  BY DEF MountCalls, lower, imports
<1> HIDE DEF points
<1>8. /\ MountCalls(p, l) \in Seq(Call) /\ DOMAIN MountCalls(p, l) = DOMAIN points
      /\ \A k \in DOMAIN points :
            MountCalls(p, l)[k] = [do |-> "mount", on |-> l, at |-> points[k]]
  BY <1>4, <1>7, CallsType
<1>9. points # <<>> => 1 \in DOMAIN points
  BY <1>4
<1>10. points # <<>> => MountCalls(p, l) # <<>>
  BY <1>8, <1>9
<1> QED BY <1>2, <1>5, <1>6, <1>8, <1>9, <1>10

LEMMA UnmountCallsType ==
    ASSUME TypeInv, NEW l \in Layer
    PROVE  /\ UnmountCalls(l) \in Seq(Call)
           /\ \A k \in DOMAIN UnmountCalls(l) :
                 UnmountCalls(l)[k].do = "umount" /\ UnmountCalls(l)[k].on = l
<1> DEFINE lower == IF OverlayOn(l) # NoBase THEN <<"overlay">> ELSE <<>>
           bound == Only(Imports, BoundOn(l))
           up == lower \o bound
           points == [k \in DOMAIN up |-> up[Len(up) + 1 - k]]
<1>1. bound \in Seq(Import)
  BY ImportsType
<1>2. lower \in {<<>>, <<"overlay">>}
  OBVIOUS
<1> HIDE DEF lower, bound, Import
<1>3. up \in Seq({"overlay"} \cup Import)
  <2> DEFINE P == {"overlay"} \cup Import
  <2>1. "overlay" \in P /\ Import \subseteq P
    OBVIOUS
  <2> HIDE DEF P
  <2>2. lower \in Seq(P)
    <3>1. <<>> \in Seq(P) /\ <<"overlay">> \in Seq(P)
      BY <2>1
    <3> QED BY <1>2, <3>1
  <2>3. bound \in Seq(P)
    BY <1>1, <2>1
  <2> QED BY <2>2, <2>3 DEF P
<1>4. UnmountCalls(l) = CallsOn(l, "umount", points)
  BY DEF UnmountCalls, lower, bound
<1> HIDE DEF up
<1>5. points \in Seq({"overlay"} \cup Import)
  <2>1. Len(up) \in Nat /\ DOMAIN up = 1 .. Len(up)
    BY <1>3
  <2>2. \A k \in DOMAIN up : up[Len(up) + 1 - k] \in {"overlay"} \cup Import
    <3>1. \A k \in DOMAIN up : Len(up) + 1 - k \in DOMAIN up
      BY <2>1
    <3> QED BY <1>3, <3>1
  <2> QED BY <2>1, <2>2
<1> HIDE DEF points
<1>6. /\ UnmountCalls(l) \in Seq(Call) /\ DOMAIN UnmountCalls(l) = DOMAIN points
      /\ \A k \in DOMAIN points :
            UnmountCalls(l)[k] = [do |-> "umount", on |-> l, at |-> points[k]]
  BY <1>4, <1>5, CallsType
<1> QED BY <1>6

-----------------------------------------------------------------------------
(* The types are kept.                                                     *)

LEMMA TypeInit == Init => TypeInv
<1> SUFFICES ASSUME Init PROVE TypeInv
  OBVIOUS
<1>1. PICK t \in Start : layers = t.layers /\ base = t.base
  BY DEF Init
<1>2. layers \subseteq Layer /\ base \in [Layer -> Layer \cup {NoBase}] /\ IsFiniteSet(layers)
  BY <1>1, StartAssumption DEF Tree
<1>3. Directory \in Root /\ Directory.lower = NoBase
  BY DEF Directory, Root
<1> HIDE DEF Directory, Root
<1>4. Bare \in Seq(Root) \ {<<>>} /\ DOMAIN Bare = {1} /\ Bare[1] = Directory
  BY <1>3 DEF Bare
<1>5. roots \in [Layer -> Seq(Root) \ {<<>>}] /\ Stacks
  BY <1>3, <1>4 DEF Init, Stacks
<1>6. EmptyTree \in Tree
  BY DEF EmptyTree, Tree
<1>7. TypeOK
  <2> HIDE DEF EmptyTree, NoCommand, Command, Tree, Call
  <2> QED BY <1>2, <1>5, <1>6 DEF Init, TypeOK
<1>8. \A p \in Process : Phase(p)
  BY DEF Init, Phase
<1> QED BY <1>2, <1>5, <1>7, <1>8 DEF TypeInv

\* What the processes are at fits what they have.
Fits(q) == /\ todo[q] # <<>> \/ calls[q] # <<>> => pc[q] = "calls"
           /\ pc[q] = "inside" <=> inside[q] > 0
           /\ listed[q] # {} => pc[q] = "scan"
           /\ \A r \in listed[q] : pc[r] = "inside"

Labels == {"idle", "list", "scan", "probe", "calls", "write", "enter", "inside"}

\* A command comes to its end, or to its last step.
LEMMA TypeFinish ==
    ASSUME TypeInv, NEW p \in Process, NEW label \in {"idle", "write", "enter", "inside"},
           Finish(p, label), pc[p] # "idle", label = "write" => cmd[p].op \in Writes,
           layers' \subseteq Layer, IsFiniteSet(layers'),
           base' \in [Layer -> Layer \cup {NoBase}],
           roots' = roots, torn' \subseteq Layer, disturbed' \subseteq Layer,
           inside' \in [Process -> Nat], \A q \in Process \ {p} : inside'[q] = inside[q],
           label = "inside" <=> inside'[p] > 0
    PROVE  TypeInv'
<1>1. /\ pc \in [Process -> Labels] /\ pc' = [pc EXCEPT ![p] = label]
      /\ cmd \in [Process -> Command \cup {NoCommand}]
      /\ cmd' = IF label = "idle" THEN [cmd EXCEPT ![p] = NoCommand] ELSE cmd
      /\ tree \in [Process -> Tree] /\ tree' = [tree EXCEPT ![p] = EmptyTree]
      /\ users \in [Process -> SUBSET Layer] /\ users' = [users EXCEPT ![p] = {}]
      /\ todo \in [Process -> Seq(Layer)] /\ todo' = [todo EXCEPT ![p] = <<>>]
      /\ calls \in [Process -> Seq(Call)] /\ calls' = [calls EXCEPT ![p] = <<>>]
  BY DEF TypeInv, TypeOK, Finish, Leaves, Forget, Goto, Labels
<1>2. /\ needs \in [Process -> SUBSET Layer]
      /\ needs' = IF label \in {"idle", "inside"} THEN [needs EXCEPT ![p] = {}] ELSE needs
      /\ listed \in [Process -> SUBSET Process]
      /\ listed' = [q \in Process |-> IF q = p THEN {} ELSE listed[q] \ {p}]
  BY DEF TypeInv, TypeOK, Finish, Leaves
<1>3. EmptyTree \in Tree
  BY DEF EmptyTree, Tree
<1> HIDE DEF EmptyTree, Tree, NoCommand, Command, Call
<1>4. TypeOK'
  <2>1. /\ pc' \in [Process -> Labels]
        /\ cmd' \in [Process -> Command \cup {NoCommand}]
        /\ tree' \in [Process -> Tree] /\ users' \in [Process -> SUBSET Layer]
        /\ todo' \in [Process -> Seq(Layer)] /\ calls' \in [Process -> Seq(Call)]
    BY <1>1, <1>3 DEF Labels
  <2>2. needs' \in [Process -> SUBSET Layer] /\ listed' \in [Process -> SUBSET Process]
    BY <1>2
  <2>3. \A q \in Process : Fits(q)'
    <3> SUFFICES ASSUME NEW q \in Process PROVE Fits(q)'
      OBVIOUS
    <3>1. CASE q = p
      <4>1. pc'[p] = label /\ todo'[p] = <<>> /\ calls'[p] = <<>> /\ listed'[p] = {}
        BY <1>1, <1>2
      <4> QED BY <3>1, <4>1 DEF Fits
    <3>2. CASE q # p
      <4>1. /\ pc'[q] = pc[q] /\ todo'[q] = todo[q] /\ calls'[q] = calls[q]
            /\ inside'[q] = inside[q] /\ listed'[q] = listed[q] \ {p}
        BY <1>1, <1>2, <3>2
      <4>2. Fits(q) /\ listed[q] \subseteq Process
        BY <1>2 DEF TypeInv, TypeOK, Fits
      <4>3. \A r \in listed'[q] : pc'[r] = "inside"
        <5> SUFFICES ASSUME NEW r \in listed'[q] PROVE pc'[r] = "inside"
          OBVIOUS
        <5>1. r \in Process /\ r # p /\ pc[r] = "inside"
          BY <4>1, <4>2 DEF Fits
        <5> QED BY <1>1, <5>1
      <4>4. listed'[q] # {} => listed[q] # {}
        BY <4>1
      <4> QED BY <4>1, <4>2, <4>3, <4>4 DEF Fits
    <3> QED BY <3>1, <3>2
  <2> QED BY <2>1, <2>2, <2>3 DEF TypeOK, TypeInv, Fits, Labels
<1>5. Stacks'
  BY DEF TypeInv, Stacks
<1>6. \A q \in Process : Phase(q)'
  <2> SUFFICES ASSUME NEW q \in Process PROVE Phase(q)'
    OBVIOUS
  <2>1. Phase(q)
    BY DEF TypeInv
  <2>2. CASE q = p
    BY <1>1, <2>1, <2>2 DEF Phase
  <2>3. CASE q # p
    <3>1. pc'[q] = pc[q] /\ cmd'[q] = cmd[q] /\ tree'[q] = tree[q]
      BY <1>1, <2>3
    <3> QED BY <2>1, <3>1 DEF Phase
  <2> QED BY <2>2, <2>3
<1> QED BY <1>4, <1>5, <1>6 DEF TypeInv

\* A command goes on to read, to check or to make its system calls.
LEMMA TypeGoOn ==
    ASSUME TypeInv, NEW p \in Process, NEW label \in {"list", "scan", "probe", "calls"},
           Goto(p, label), pc[p] # "inside",
           UNCHANGED <<layers, base, roots, torn, inside>>, disturbed' \subseteq Layer,
           NEW c \in Command, cmd' = [cmd EXCEPT ![p] = c],
           NEW n \in SUBSET Layer, needs' = [needs EXCEPT ![p] = n],
           NEW t \in Tree, tree' = [tree EXCEPT ![p] = t],
           NEW ls \in SUBSET {q \in Process : pc[q] = "inside"},
           listed' = [listed EXCEPT ![p] = ls], ls # {} => label = "scan",
           NEW u \in SUBSET Layer, users' = [users EXCEPT ![p] = u],
           NEW td \in Seq(Layer), todo' = [todo EXCEPT ![p] = td],
           NEW cs \in Seq(Call), calls' = [calls EXCEPT ![p] = cs],
           label # "calls" => td = <<>> /\ cs = <<>>,
           label = "calls" => c.op \in Mounts \cup {"umount"},
           label # "calls" => /\ IsFiniteSet(t.layers) /\ Inheritable(t.layers, t.base)
                              /\ c.op # "add" => c.on \in t.layers
    PROVE  TypeInv'
<1>1. /\ pc \in [Process -> Labels] /\ pc' = [pc EXCEPT ![p] = label]
      /\ cmd \in [Process -> Command \cup {NoCommand}]
      /\ needs \in [Process -> SUBSET Layer] /\ listed \in [Process -> SUBSET Process]
      /\ tree \in [Process -> Tree] /\ users \in [Process -> SUBSET Layer]
      /\ todo \in [Process -> Seq(Layer)] /\ calls \in [Process -> Seq(Call)]
  BY DEF TypeInv, TypeOK, Goto, Labels
<1> HIDE DEF Tree, NoCommand, Command, Call
<1>2. \A q \in Process : Fits(q)'
  <2> SUFFICES ASSUME NEW q \in Process PROVE Fits(q)'
    OBVIOUS
  <2>1. Fits(q)
    BY DEF TypeInv, TypeOK, Fits
  <2>2. \A r \in Process : pc[r] = "inside" => pc'[r] = "inside"
    BY <1>1
  <2>3. CASE q = p
    <3>1. pc'[p] = label /\ todo'[p] = td /\ calls'[p] = cs /\ listed'[p] = ls
      BY <1>1
    <3> QED BY <2>1, <2>2, <2>3, <3>1 DEF Fits
  <2>4. CASE q # p
    <3>1. pc'[q] = pc[q] /\ todo'[q] = todo[q] /\ calls'[q] = calls[q] /\ listed'[q] = listed[q]
      BY <1>1, <2>4
    <3>2. listed[q] \subseteq Process
      BY <1>1
    <3> QED BY <2>1, <2>2, <3>1, <3>2 DEF Fits
  <2> QED BY <2>3, <2>4
<1>3. TypeOK'
  <2>1. /\ pc' \in [Process -> Labels]
        /\ cmd' \in [Process -> Command \cup {NoCommand}]
        /\ needs' \in [Process -> SUBSET Layer] /\ listed' \in [Process -> SUBSET Process]
        /\ tree' \in [Process -> Tree] /\ users' \in [Process -> SUBSET Layer]
        /\ todo' \in [Process -> Seq(Layer)] /\ calls' \in [Process -> Seq(Call)]
    BY <1>1 DEF Labels
  <2> QED BY <1>1, <1>2, <2>1 DEF TypeOK, TypeInv, Fits, Labels
<1>4. Stacks' /\ IsFiniteSet(layers')
  BY <1>1 DEF TypeInv, Stacks
<1>5. \A q \in Process : Phase(q)'
  <2> SUFFICES ASSUME NEW q \in Process PROVE Phase(q)'
    OBVIOUS
  <2>1. CASE q = p
    <3>1. pc'[q] = label /\ cmd'[q] = c /\ tree'[q] = t
      BY <1>1, <2>1
    <3> QED BY <3>1 DEF Phase
  <2>2. CASE q # p
    <3>1. pc'[q] = pc[q] /\ cmd'[q] = cmd[q] /\ tree'[q] = tree[q]
      BY <1>1, <2>2
    <3> QED BY <3>1 DEF Phase, TypeInv
  <2> QED BY <2>1, <2>2
<1> QED BY <1>3, <1>4, <1>5 DEF TypeInv

\* A system call changes the roots of a layer.
LEMMA TypeCalled ==
    ASSUME TypeInv, NEW p \in Process, pc[p] = "calls", calls[p] # <<>>,
           NEW rs \in Seq(Root), rs # <<>>,
           \A k \in DOMAIN rs : k = 1 <=> rs[k].lower = NoBase,
           Called(p, rs)
    PROVE  TypeInv'
<1> DEFINE l == Head(calls[p]).on
<1>1. /\ roots \in [Layer -> Seq(Root) \ {<<>>}] /\ roots' = [roots EXCEPT ![l] = rs]
      /\ calls \in [Process -> Seq(Call)] /\ calls' = [calls EXCEPT ![p] = Tail(calls[p])]
      /\ torn' = (IF rs = Bare THEN torn \ {l} ELSE torn)
      /\ UNCHANGED <<layers, base, disturbed, pc, cmd, needs, tree, listed, users, todo, inside>>
  BY DEF TypeInv, TypeOK, Called
<1> HIDE DEF Root, Call
<1>2. Tail(calls[p]) \in Seq(Call)
  BY <1>1
<1>3. roots' \in [Layer -> Seq(Root) \ {<<>>}] /\ calls' \in [Process -> Seq(Call)]
  BY <1>1, <1>2
<1>4. TypeOK'
  <2>1. \A q \in Process : Fits(q)'
    <3> SUFFICES ASSUME NEW q \in Process PROVE Fits(q)'
      OBVIOUS
    <3>1. Fits(q)
      BY DEF TypeInv, TypeOK, Fits
    <3>2. calls'[q] # <<>> => pc[q] = "calls"
      BY <1>1, <3>1 DEF Fits
    <3> QED BY <1>1, <3>1, <3>2 DEF Fits
  <2> QED BY <1>1, <1>3, <2>1 DEF TypeInv, TypeOK, Fits
<1>5. Stacks'
  <2> SUFFICES ASSUME NEW x \in Layer, NEW k \in DOMAIN roots'[x]
               PROVE  k = 1 <=> roots'[x][k].lower = NoBase
    BY DEF Stacks
  <2>1. CASE x = l
    BY <1>1, <2>1
  <2>2. CASE x # l
    BY <1>1, <2>2 DEF TypeInv, Stacks
  <2> QED BY <2>1, <2>2
<1> QED BY <1>1, <1>4, <1>5 DEF TypeInv, Phase

LEMMA HeadCall ==
    ASSUME TypeInv, NEW p \in Process, pc[p] = "calls", calls[p] # <<>>
    PROVE  /\ Head(calls[p]) \in Call /\ Head(calls[p]) = calls[p][1]
           /\ Head(calls[p]).on \in Layer
           /\ 1 \in DOMAIN calls[p]
<1>1. calls[p] \in Seq(Call)
  BY DEF TypeInv, TypeOK
<1>2. Head(calls[p]) \in Call /\ Head(calls[p]) = calls[p][1] /\ 1 \in DOMAIN calls[p]
  <2> HIDE DEF Call
  <2> QED BY <1>1
<1> QED BY <1>2 DEF Call

\* What comes to the end of a sequence.
LEMMA AppendAt ==
    ASSUME NEW S, NEW s \in Seq(S), NEW e
    PROVE  /\ Len(Append(s, e)) = Len(s) + 1 /\ DOMAIN Append(s, e) = 1 .. Len(s) + 1
           /\ Append(s, e)[Len(s) + 1] = e
           /\ \A k \in 1 .. Len(s) : Append(s, e)[k] = s[k]
  OBVIOUS

\* The counter of an import call does not go below nought.
LEMMA ImportCalled ==
    ASSUME TypeInv, NEW p \in Process, MountImport(p) \/ UnmountImport(p)
    PROVE  /\ Head(calls[p]).on \in Layer /\ Head(calls[p]).at \in Import
           /\ \E n \in Nat : Called(p, WithBound(Head(calls[p]).on, Head(calls[p]).at, n))
<1> DEFINE c == Head(calls[p])
           x == Top(c.on).bound[c.at]
<1>1. pc[p] = "calls" /\ calls[p] # <<>> /\ c.at \in Import
  BY DEF MountImport, UnmountImport, NextCallIs
<1>2. c.on \in Layer
  BY <1>1, HeadCall
<1>3. x \in Nat
  BY <1>1, <1>2, StackType DEF Root
<1>4. CASE MountImport(p)
  <2>1. Called(p, WithBound(c.on, c.at, x + 1))
    BY <1>4 DEF MountImport
  <2>2. x + 1 \in Nat
    BY <1>3
  <2> QED BY <1>1, <1>2, <2>1, <2>2
<1>5. CASE UnmountImport(p)
  <2>1. Called(p, WithBound(c.on, c.at, x - 1)) /\ x > 0
    BY <1>5 DEF UnmountImport
  <2>2. x - 1 \in Nat
    <3> HIDE DEF x
    <3> QED BY <1>3, <2>1
  <2> QED BY <1>1, <1>2, <2>1, <2>2
<1> QED BY <1>4, <1>5

LEMMA TypeMountOverlay ==
    ASSUME TypeInv, NEW p \in Process, MountOverlay(p)
    PROVE  TypeInv'
<1> DEFINE l == Head(calls[p]).on
           root == [Directory EXCEPT !.lower = OwnBase(p, l)]
           rs == Append(roots[l], root)
<1>1. /\ pc[p] = "calls" /\ calls[p] # <<>> /\ OwnBase(p, l) \in Layer
      /\ Called(p, rs)
  BY DEF MountOverlay, NextCallIs, TypeInv, TypeOK
<1>2. l \in Layer
  BY <1>1, HeadCall
<1>3. root \in Root /\ root.lower # NoBase
  BY <1>1, NoBaseAssumption DEF Directory, Root
<1> HIDE DEF l, root, Root
<1>4. roots[l] \in Seq(Root) /\ Len(roots[l]) \in Nat \ {0} /\ DOMAIN roots[l] = 1 .. Len(roots[l])
  BY <1>2, StackType
<1>5. rs \in Seq(Root) /\ rs # <<>>
  BY <1>3, <1>4
<1>6. \A k \in DOMAIN rs : k = 1 <=> rs[k].lower = NoBase
  <2> SUFFICES ASSUME NEW k \in DOMAIN rs PROVE k = 1 <=> rs[k].lower = NoBase
    OBVIOUS
  <2>1. CASE k = Len(roots[l]) + 1
    BY <2>1, <1>3, <1>4
  <2>2. CASE k # Len(roots[l]) + 1
    <3>1. k \in DOMAIN roots[l] /\ rs[k] = roots[l][k]
      BY <2>2, <1>4
    <3> QED BY <3>1, <1>2 DEF TypeInv, Stacks
  <2> QED BY <2>1, <2>2
<1> HIDE DEF rs
<1> QED BY <1>1, <1>5, <1>6, TypeCalled

\* The number of times an import is mounted in the build root on top.
LEMMA WithBoundType ==
    ASSUME TypeInv, NEW l \in Layer, NEW i \in Import, NEW n \in Nat
    PROVE  LET rs == WithBound(l, i, n)
           IN  /\ rs \in Seq(Root) /\ Len(rs) = Len(roots[l]) /\ rs # <<>>
               /\ DOMAIN rs = DOMAIN roots[l]
               /\ \A k \in DOMAIN roots[l] : rs[k].lower = roots[l][k].lower
<1> DEFINE s == roots[l]
           m == Len(s)
           root == [s[m] EXCEPT !.bound[i] = n]
           rs == [s EXCEPT ![m] = root]
<1>1. s \in Seq(Root) /\ m \in Nat \ {0} /\ DOMAIN s = 1 .. m /\ s[m] \in Root
  BY StackType
<1>2. root \in Root /\ root.lower = s[m].lower
  <2> HIDE DEF s, m
  <2> QED BY <1>1 DEF Root
<1>3. WithBound(l, i, n) = rs
  BY DEF WithBound
<1> HIDE DEF s, m, root, Root
<1>4. s \in [1 .. m -> Root]
  BY <1>1 DEF m
<1>5. rs \in [1 .. m -> Root]
  BY <1>2, <1>4
<1>6. rs \in Seq(Root) /\ Len(rs) = m /\ rs # <<>> /\ DOMAIN rs = 1 .. m
  BY <1>1, <1>5
<1>7. \A k \in 1 .. m : rs[k].lower = s[k].lower
  BY <1>2, <1>4
<1> QED BY <1>1, <1>3, <1>6, <1>7 DEF s, m

LEMMA TypeImport ==
    ASSUME TypeInv, NEW p \in Process, MountImport(p) \/ UnmountImport(p)
    PROVE  TypeInv'
<1> DEFINE c == Head(calls[p])
<1>1. pc[p] = "calls" /\ calls[p] # <<>> /\ c.at \in Import
  BY DEF MountImport, UnmountImport, NextCallIs
<1>2. c.on \in Layer
  BY <1>1, HeadCall
<1>5. PICK n \in Nat : Called(p, WithBound(c.on, c.at, n))
  BY ImportCalled
<1> DEFINE rs == WithBound(c.on, c.at, n)
<1>6. /\ rs \in Seq(Root) /\ rs # <<>> /\ DOMAIN rs = DOMAIN roots[c.on]
      /\ \A k \in DOMAIN roots[c.on] : rs[k].lower = roots[c.on][k].lower
  BY <1>1, <1>2, WithBoundType
<1>7. \A k \in DOMAIN rs : k = 1 <=> rs[k].lower = NoBase
  BY <1>2, <1>6 DEF TypeInv, Stacks
<1> HIDE DEF rs
<1>8. Called(p, rs)
  BY <1>5 DEF rs
<1> QED BY <1>1, <1>6, <1>7, <1>8, TypeCalled

\* The overlay on top is taken off.
LEMMA LowerRoots ==
    ASSUME TypeInv, NEW l \in Layer, OverlayOn(l) # NoBase
    PROVE  LET rs == SubSeq(roots[l], 1, Len(roots[l]) - 1)
           IN  /\ rs \in Seq(Root) /\ rs # <<>>
               /\ DOMAIN rs \subseteq DOMAIN roots[l]
               /\ \A k \in DOMAIN rs : rs[k] = roots[l][k]
<1> DEFINE s == roots[l]
           m == Len(s)
           rs == SubSeq(s, 1, m - 1)
<1>1. s \in Seq(Root) /\ m \in Nat \ {0, 1} /\ DOMAIN s = 1 .. m
  BY StackType
<1> HIDE DEF s, m, Root
<1>2. /\ rs \in Seq(Root) /\ Len(rs) = m - 1 /\ DOMAIN rs = 1 .. m - 1
      /\ \A k \in 1 .. m - 1 : rs[k] = s[k]
  BY <1>1 DEF m
<1>3. rs # <<>>
  BY <1>1, <1>2
<1> QED BY <1>1, <1>2, <1>3 DEF s, m

LEMMA TypeUnmountOverlay ==
    ASSUME TypeInv, NEW p \in Process, UnmountOverlay(p)
    PROVE  TypeInv'
<1> DEFINE l == Head(calls[p]).on
           rs == SubSeq(roots[l], 1, Len(roots[l]) - 1)
<1>1. pc[p] = "calls" /\ calls[p] # <<>> /\ OverlayOn(l) # NoBase /\ Called(p, rs)
  BY DEF UnmountOverlay, NextCallIs
<1>2. l \in Layer
  BY <1>1, HeadCall
<1>3. /\ rs \in Seq(Root) /\ rs # <<>> /\ DOMAIN rs \subseteq DOMAIN roots[l]
      /\ \A k \in DOMAIN rs : rs[k] = roots[l][k]
  BY <1>1, <1>2, LowerRoots
<1>4. \A k \in DOMAIN rs : k = 1 <=> rs[k].lower = NoBase
  BY <1>2, <1>3 DEF TypeInv, Stacks
<1> HIDE DEF rs
<1> QED BY <1>1, <1>3, <1>4, TypeCalled

LEMMA TypeBegin ==
    ASSUME TypeInv, NEW p \in Process, NEW c \in Command, Begin(p, c)
    PROVE  TypeInv'
<1> DEFINE t == [layers |-> layers, base |-> base]
           n == Needs(c)
<1>1. /\ pc[p] = "idle" /\ Goto(p, "list")
      /\ cmd' = [cmd EXCEPT ![p] = c] /\ tree' = [tree EXCEPT ![p] = t]
      /\ needs' = [needs EXCEPT ![p] = n]
      /\ UNCHANGED <<layers, base, roots, torn, listed, users, todo, calls, inside>>
      /\ Inheritable(layers, base) /\ (c.op = "add" <=> c.on \notin layers)
  BY DEF Begin
<1>2. disturbed' \subseteq Layer
  BY DEF Begin, DerivedFrom, TypeInv, TypeOK
<1>3. t \in Tree /\ IsFiniteSet(t.layers) /\ t.layers = layers /\ t.base = base
  BY DEF TypeInv, TypeOK, Tree
<1>4. n \in SUBSET Layer
  <2>1. \A l : Chain(l) \subseteq Layer
    BY ChainSelf DEF Chain, TypeInv, TypeOK
  <2> QED BY <2>1 DEF Needs
<1>5. /\ todo[p] = <<>> /\ calls[p] = <<>> /\ users[p] \in SUBSET Layer /\ listed[p] = {}
  BY <1>1 DEF TypeInv, TypeOK
<1>6. /\ users' = [users EXCEPT ![p] = users[p]] /\ listed' = [listed EXCEPT ![p] = {}]
      /\ todo' = [todo EXCEPT ![p] = <<>>] /\ calls' = [calls EXCEPT ![p] = <<>>]
  BY <1>1, <1>5 DEF TypeInv, TypeOK
<1>7. /\ <<>> \in Seq(Layer) /\ <<>> \in Seq(Call)
      /\ {} \in SUBSET {q \in Process : pc[q] = "inside"}
  OBVIOUS
<1>8. /\ IsFiniteSet(t.layers) /\ Inheritable(t.layers, t.base)
      /\ c.op # "add" => c.on \in t.layers
  BY <1>1, <1>3
<1> HIDE DEF t, n, Command, Tree, Call
<1> QED BY <1>1, <1>2, <1>3, <1>4, <1>5, <1>6, <1>7, <1>8, TypeGoOn

\* The steps of FindLayerUsers change what p has found, and its list.
LEMMA ScanSteps ==
    ASSUME TypeInv, NEW p \in Process, List(p) \/ Look(p) \/ Scanned(p)
    PROVE  /\ pc[p] \in {"list", "scan"}
           /\ \E label \in {"scan", "probe"}, ls \in SUBSET {q \in Process : pc[q] = "inside"},
                 u \in SUBSET Layer :
                 /\ Goto(p, label) /\ (ls # {} => label = "scan")
                 /\ listed' = [listed EXCEPT ![p] = ls] /\ users' = [users EXCEPT ![p] = u]
           /\ UNCHANGED <<shared, cmd, needs, tree, todo, calls, inside>>
<1>1. /\ pc \in [Process -> Labels] /\ listed \in [Process -> SUBSET Process]
      /\ users \in [Process -> SUBSET Layer] /\ users[p] \in SUBSET Layer
      /\ \A r \in listed[p] : pc[r] = "inside"
      /\ listed[p] \in SUBSET {q \in Process : pc[q] = "inside"}
  BY DEF TypeInv, TypeOK, Labels
<1>2. CASE List(p)
  <2> DEFINE ls == {q \in Process : pc[q] = "inside"}
             label == IF ls = {} THEN "probe" ELSE "scan"
  <2>1. /\ pc[p] = "list" /\ Goto(p, label) /\ listed' = [listed EXCEPT ![p] = ls]
        /\ UNCHANGED <<shared, cmd, needs, tree, users, todo, calls, inside>>
    BY <1>2 DEF List
  <2>2. users' = [users EXCEPT ![p] = users[p]]
    BY <1>1, <2>1
  <2>3. label \in {"scan", "probe"} /\ (ls # {} => label = "scan")
    OBVIOUS
  <2> HIDE DEF label
  <2> QED BY <1>1, <2>1, <2>2, <2>3
<1>3. CASE Look(p)
  <2>1. PICK q \in listed[p] : /\ listed' = [listed EXCEPT ![p] = listed[p] \ {q}]
                               /\ users' = [users EXCEPT ![p] = users[p] \cup {cmd[q].on}]
    BY <1>3 DEF Look
  <2>2. pc[p] = "scan" /\ pc' = pc /\ UNCHANGED <<shared, cmd, needs, tree, todo, calls, inside>>
    BY <1>3 DEF Look
  <2>3. Goto(p, "scan")
    BY <1>1, <2>2 DEF Goto
  <2>4. cmd[q].on \in Layer
    BY <1>1 DEF TypeInv, Phase, Command
  <2>5. /\ listed[p] \ {q} \in SUBSET {r \in Process : pc[r] = "inside"}
        /\ users[p] \cup {cmd[q].on} \in SUBSET Layer
    BY <1>1, <2>4
  <2> QED BY <2>1, <2>2, <2>3, <2>5
<1>4. CASE Scanned(p)
  <2>1. /\ pc[p] = "scan" /\ Goto(p, "probe") /\ listed[p] = {}
        /\ UNCHANGED <<shared, cmd, needs, tree, listed, users, todo, calls, inside>>
    BY <1>4 DEF Scanned, local
  <2>2. listed' = [listed EXCEPT ![p] = {}] /\ users' = [users EXCEPT ![p] = users[p]]
    BY <1>1, <2>1
  <2> QED BY <1>1, <2>1, <2>2
<1> QED BY <1>2, <1>3, <1>4

LEMMA TypeScan ==
    ASSUME TypeInv, NEW p \in Process, List(p) \/ Look(p) \/ Scanned(p)
    PROVE  TypeInv'
<1>1. PICK label \in {"scan", "probe"}, ls \in SUBSET {q \in Process : pc[q] = "inside"},
           u \in SUBSET Layer :
         /\ Goto(p, label) /\ (ls # {} => label = "scan")
         /\ listed' = [listed EXCEPT ![p] = ls] /\ users' = [users EXCEPT ![p] = u]
  BY ScanSteps
<1>2. /\ pc[p] \in {"list", "scan"} /\ UNCHANGED <<layers, base, roots, torn, inside>>
      /\ UNCHANGED <<disturbed, cmd, needs, tree, todo, calls>>
  BY ScanSteps DEF shared
<1>3. /\ todo[p] = <<>> /\ calls[p] = <<>> /\ cmd[p] \in Command /\ tree[p] \in Tree
      /\ needs[p] \in SUBSET Layer
      /\ IsFiniteSet(tree[p].layers) /\ Inheritable(tree[p].layers, tree[p].base)
      /\ cmd[p].op # "add" => cmd[p].on \in tree[p].layers
  BY <1>2 DEF TypeInv, TypeOK, Phase
<1> HIDE DEF Command, Tree, Call
<1>4. /\ cmd' = [cmd EXCEPT ![p] = cmd[p]] /\ tree' = [tree EXCEPT ![p] = tree[p]]
      /\ needs' = [needs EXCEPT ![p] = needs[p]]
      /\ todo' = [todo EXCEPT ![p] = <<>>] /\ calls' = [calls EXCEPT ![p] = <<>>]
      /\ disturbed' \subseteq Layer
  BY <1>2, <1>3 DEF TypeInv, TypeOK
<1>5. <<>> \in Seq(Layer) /\ <<>> \in Seq(Call)
  OBVIOUS
<1>6. label \in {"list", "scan", "probe", "calls"} /\ label # "calls" /\ pc[p] # "inside"
  BY <1>2
<1>7. UNCHANGED <<layers, base, roots, torn, inside>>
  BY <1>2
<1> QED BY <1>1, <1>3, <1>4, <1>5, <1>6, <1>7, TypeGoOn

LEMMA TypeMountNext ==
    ASSUME TypeInv, NEW p \in Process, pc[p] \in {"probe", "calls"}, cmd[p].op \in Mounts,
           NEW chain \in Seq(Layer), chain # <<>>, MountNext(p, chain),
           UNCHANGED <<shared, cmd, needs, tree, listed, inside>>
    PROVE  TypeInv'
<1> DEFINE cs == MountCalls(p, Head(chain))
           td == Tail(chain)
<1>1. /\ Goto(p, "calls") /\ calls' = [calls EXCEPT ![p] = cs]
      /\ todo' = [todo EXCEPT ![p] = td] /\ users' = [users EXCEPT ![p] = {}]
  BY DEF MountNext
<1>2. Head(chain) \in Layer /\ td \in Seq(Layer)
  OBVIOUS
<1>3. cs \in Seq(Call)
  BY <1>2, MountCallsType
<1>4. /\ cmd[p] \in Command /\ tree[p] \in Tree /\ needs[p] \in SUBSET Layer /\ listed[p] = {}
      /\ disturbed \subseteq Layer
  BY DEF TypeInv, TypeOK, Phase
<1>5. UNCHANGED <<layers, base, roots, torn, inside>> /\ disturbed' = disturbed
  BY DEF shared
<1> HIDE DEF cs, td, Command, Tree, Call
<1>6. /\ cmd' = [cmd EXCEPT ![p] = cmd[p]] /\ tree' = [tree EXCEPT ![p] = tree[p]]
      /\ needs' = [needs EXCEPT ![p] = needs[p]] /\ listed' = [listed EXCEPT ![p] = {}]
  BY <1>4 DEF TypeInv, TypeOK
<1>7. {} \in SUBSET Layer /\ {} \in SUBSET {q \in Process : pc[q] = "inside"}
  OBVIOUS
<1> QED BY <1>1, <1>2, <1>3, <1>4, <1>5, <1>6, <1>7, TypeGoOn

LEMMA TypeProbeForUnmount ==
    ASSUME TypeInv, NEW p \in Process, ProbeForUnmount(p)
    PROVE  TypeInv'
<1> DEFINE cs == UnmountCalls(cmd[p].on)
<1>1. /\ pc[p] = "probe" /\ Goto(p, "calls") /\ calls' = [calls EXCEPT ![p] = cs]
      /\ tree' = [tree EXCEPT ![p] = EmptyTree] /\ users' = [users EXCEPT ![p] = {}]
      /\ UNCHANGED <<shared, cmd, needs, listed, todo, inside>> /\ cmd[p].op = "umount"
  BY DEF ProbeForUnmount, Forget
<1>2. cmd[p] \in Command /\ cmd[p].on \in Layer
  BY <1>1 DEF TypeInv, Phase, Command
<1>3. cs \in Seq(Call)
  BY <1>2, UnmountCallsType
<1>4. EmptyTree \in Tree /\ {} \in SUBSET Layer /\ {} \in SUBSET {q \in Process : pc[q] = "inside"}
  BY DEF EmptyTree, Tree
<1>5. UNCHANGED <<layers, base, roots, torn, inside>> /\ disturbed' = disturbed
  BY <1>1 DEF shared
<1>6. todo[p] \in Seq(Layer) /\ needs[p] \in SUBSET Layer /\ listed[p] = {} /\ disturbed \subseteq Layer
  BY <1>1 DEF TypeInv, TypeOK
<1> HIDE DEF cs, Command, Tree, EmptyTree, Call
<1>7. /\ cmd' = [cmd EXCEPT ![p] = cmd[p]] /\ todo' = [todo EXCEPT ![p] = todo[p]]
      /\ needs' = [needs EXCEPT ![p] = needs[p]] /\ listed' = [listed EXCEPT ![p] = {}]
  BY <1>1, <1>6 DEF TypeInv, TypeOK
<1> QED BY <1>1, <1>2, <1>3, <1>4, <1>5, <1>6, <1>7, TypeGoOn

\* The steps with which a command ends, or comes to its last.
LEMMA TypeEnds ==
    ASSUME TypeInv, NEW p \in Process,
           \/ ProbeForChroot(p) \/ Mounted(p) \/ Unmounted(p) \/ CallFails(p)
           \/ ProbeForWrite(p) \/ WriteLayer(p) \/ RemoveLayer(p) \/ Refused(p)
    PROVE  TypeInv'
<1>1. \E label \in {"idle", "write", "enter"} :
         Finish(p, label) /\ (label = "write" => cmd[p].op \in Writes)
  BY DEF ProbeForChroot, Mounted, Unmounted, CallFails, ProbeForWrite, WriteLayer,
         RemoveLayer, Refused
<1>2. PICK label \in {"idle", "write", "enter"} :
         Finish(p, label) /\ (label = "write" => cmd[p].op \in Writes)
  BY <1>1
<1>3. pc[p] \notin {"idle", "inside"} /\ roots' = roots /\ inside' = inside
  BY DEF ProbeForChroot, Mounted, Unmounted, CallFails, ProbeForWrite, WriteLayer,
         RemoveLayer, Refused, shared
<1>4. cmd[p] \in Command /\ cmd[p].on \in Layer /\ cmd[p].to \in Layer \cup {NoBase}
  BY <1>3 DEF TypeInv, Phase, Command
<1>5. /\ layers' \subseteq Layer /\ IsFiniteSet(layers')
      /\ base' \in [Layer -> Layer \cup {NoBase}]
  <2>1. /\ layers \subseteq Layer /\ IsFiniteSet(layers)
        /\ base \in [Layer -> Layer \cup {NoBase}]
    BY DEF TypeInv, TypeOK
  <2>2. CASE WriteLayer(p)
    <3>1. layers' = layers \cup {cmd[p].on} /\ base' = [base EXCEPT ![cmd[p].on] = cmd[p].to]
      BY <2>2 DEF WriteLayer
    <3>2. IsFiniteSet(layers')
      BY <2>1, <3>1, FS_AddElement
    <3> QED BY <1>4, <2>1, <3>1, <3>2
  <2>3. CASE RemoveLayer(p)
    <3>1. layers' = layers \ {cmd[p].on} /\ base' = [base EXCEPT ![cmd[p].on] = NoBase]
      BY <2>3 DEF RemoveLayer
    <3>2. IsFiniteSet(layers')
      BY <2>1, <3>1, FS_RemoveElement
    <3> QED BY <1>4, <2>1, <3>1, <3>2
  <2>4. CASE ~WriteLayer(p) /\ ~RemoveLayer(p)
    <3>1. layers' = layers /\ base' = base
      BY <2>4 DEF ProbeForChroot, Mounted, Unmounted, CallFails, ProbeForWrite, Refused, shared
    <3> QED BY <2>1, <3>1
  <2> QED BY <2>2, <2>3, <2>4
<1>6. torn' \subseteq Layer
  <2>1. torn \subseteq Layer
    BY DEF TypeInv, TypeOK
  <2>2. CASE CallFails(p)
    <3>1. Head(calls[p]).on \in Layer
      BY <2>2, HeadCall DEF CallFails
    <3> QED BY <2>1, <2>2, <3>1 DEF CallFails
  <2>3. CASE ~CallFails(p)
    BY <1>4, <2>1, <2>3 DEF ProbeForChroot, Mounted, Unmounted, ProbeForWrite, WriteLayer,
         RemoveLayer, Refused, shared
  <2> QED BY <2>2, <2>3
<1>7. disturbed' \subseteq Layer
  <2>1. disturbed \subseteq Layer /\ \A S : DerivedFrom(S) \subseteq Layer
    BY DEF TypeInv, TypeOK, DerivedFrom
  <2> QED BY <2>1 DEF ProbeForChroot, Mounted, Unmounted, CallFails, ProbeForWrite,
                      WriteLayer, RemoveLayer, Refused, shared
<1>8. inside' \in [Process -> Nat] /\ ~(inside'[p] > 0)
  BY <1>3 DEF TypeInv, TypeOK
<1> QED BY <1>2, <1>3, <1>5, <1>6, <1>7, <1>8, TypeFinish

LEMMA TypeShell ==
    ASSUME TypeInv, NEW p \in Process, Enter(p) \/ Leave(p)
    PROVE  TypeInv'
<1>1. /\ UNCHANGED shared /\ layers \subseteq Layer /\ IsFiniteSet(layers)
      /\ base \in [Layer -> Layer \cup {NoBase}] /\ torn \subseteq Layer
      /\ disturbed \subseteq Layer /\ inside \in [Process -> Nat]
  BY DEF TypeInv, TypeOK, Enter, Leave
<1>2. CASE Enter(p)
  <2> DEFINE n == Len(roots[cmd[p].on])
  <2>1. pc[p] = "enter" /\ Finish(p, "inside") /\ inside' = [inside EXCEPT ![p] = n]
    BY <1>2 DEF Enter
  <2>2. n \in Nat \ {0}
    <3>1. cmd[p].on \in Layer
      BY <2>1 DEF TypeInv, Phase, Command
    <3> QED BY <3>1, StackType
  <2> HIDE DEF n
  <2>3. /\ inside' \in [Process -> Nat] /\ inside'[p] > 0
        /\ \A q \in Process \ {p} : inside'[q] = inside[q]
    BY <1>1, <2>1, <2>2
  <2> QED BY <1>1, <2>1, <2>3, TypeFinish DEF shared
<1>3. CASE Leave(p)
  <2>1. pc[p] = "inside" /\ Finish(p, "idle") /\ inside' = [inside EXCEPT ![p] = 0]
    BY <1>3 DEF Leave
  <2>2. /\ inside' \in [Process -> Nat] /\ ~(inside'[p] > 0)
        /\ \A q \in Process \ {p} : inside'[q] = inside[q]
    BY <1>1, <2>1
  <2> QED BY <1>1, <2>1, <2>2, TypeFinish DEF shared
<1> QED BY <1>2, <1>3

\* Refresh goes on with the rest of the list, ProbeForMount with the chain.
LEMMA TypeMounting ==
    ASSUME TypeInv, NEW p \in Process, ProbeForMount(p) \/ Refresh(p)
    PROVE  TypeInv'
<1>1. CASE ProbeForMount(p)
  <2> DEFINE chain == OwnChain(p, cmd[p].on)
  <2>1. /\ pc[p] = "probe" /\ cmd[p].op \in Mounts /\ MountNext(p, chain)
        /\ UNCHANGED <<shared, cmd, needs, tree, listed, inside>>
    BY <1>1 DEF ProbeForMount
  <2>2. chain \in Seq(Layer) /\ chain # <<>>
    BY <2>1, OwnChainType DEF Mounts
  <2> HIDE DEF chain
  <2> QED BY <2>1, <2>2, TypeMountNext
<1>2. CASE Refresh(p)
  <2>1. /\ pc[p] = "calls" /\ cmd[p].op \in Mounts /\ todo[p] # <<>> /\ MountNext(p, todo[p])
        /\ UNCHANGED <<shared, cmd, needs, tree, listed, inside>>
    BY <1>2 DEF Refresh
  <2>2. todo[p] \in Seq(Layer)
    BY DEF TypeInv, TypeOK
  <2> QED BY <2>1, <2>2, TypeMountNext
<1> QED BY <1>1, <1>2

LEMMA TypeNext == TypeInv /\ [Next]_vars => TypeInv'
<1> SUFFICES ASSUME TypeInv, [Next]_vars PROVE TypeInv'
  OBVIOUS
<1>1. ASSUME NEW p \in Process, Step(p) PROVE TypeInv'
  <2>1. CASE \E c \in Command : Begin(p, c) BY <2>1, TypeBegin
  <2>2. CASE List(p) \/ Look(p) \/ Scanned(p) BY <2>2, TypeScan
  <2>3. CASE ProbeForMount(p) \/ Refresh(p) BY <2>3, TypeMounting
  <2>4. CASE ProbeForUnmount(p) BY <2>4, TypeProbeForUnmount
  <2>5. CASE MountOverlay(p) BY <2>5, TypeMountOverlay
  <2>6. CASE MountImport(p) \/ UnmountImport(p) BY <2>6, TypeImport
  <2>7. CASE UnmountOverlay(p) BY <2>7, TypeUnmountOverlay
  <2>8. CASE Enter(p) \/ Leave(p) BY <2>8, TypeShell
  <2>9. CASE \/ ProbeForChroot(p) \/ Mounted(p) \/ Unmounted(p) \/ CallFails(p)
             \/ ProbeForWrite(p) \/ WriteLayer(p) \/ RemoveLayer(p) \/ Refused(p)
    BY <2>9, TypeEnds
  <2> QED BY <1>1, <2>1, <2>2, <2>3, <2>4, <2>5, <2>6, <2>7, <2>8, <2>9 DEF Step
<1>2. CASE UNCHANGED vars
  BY <1>2 DEF vars, shared, local, TypeInv, TypeOK, Stacks, Phase
<1> QED BY <1>1, <1>2 DEF Next

\* The processes, the layerconfig files and the mount table keep their types,
\* whatever commands are at work at the same time: only a command that is making
\* them has system calls left, and only one that reads /proc has processes to
\* look at, all of them still there.
THEOREM TypeCorrect == Spec => []TypeOK
<1>1. TypeInv => TypeOK
  BY DEF TypeInv
<1> QED BY <1>1, TypeInit, TypeNext, PTL DEF Spec

-----------------------------------------------------------------------------
(* What a command leaves to the others.                                    *)

\* A process that does nothing.
Unmoved(q) == /\ pc'[q] = pc[q] /\ cmd'[q] = cmd[q] /\ needs'[q] = needs[q]
              /\ tree'[q] = tree[q] /\ todo'[q] = todo[q] /\ calls'[q] = calls[q]

\* The map changes at layer x only.
ChangedAt(x) == /\ layers' \subseteq Layer
                /\ \A z \in Layer \ {x} : (z \in layers' <=> z \in layers) /\ base'[z] = base[z]

LEMMA CommandType ==
    ASSUME TypeInv, NEW p \in Process, pc[p] # "idle"
    PROVE  /\ cmd[p].op \in Ops /\ cmd[p].on \in Layer /\ cmd[p].to \in Layer \cup {NoBase}
           /\ needs[p] \subseteq Layer
BY DEF TypeInv, TypeOK, Phase, Command

\* The base of an undisturbed layer is an undisturbed layer.
LEMMA BaseUndisturbed ==
    ASSUME Inv, NEW l \in layers \ disturbed
    PROVE  /\ l \in Layer /\ base[l] \in Layer \cup {NoBase} /\ base[l] \notin disturbed
           /\ base[l] # NoBase => base[l] \in layers
<1>1. base[l] \in (layers \ disturbed) \cup {NoBase}
  BY DEF Inv, TreeInheritable, Inheritable, Closed
<1>2. disturbed \subseteq Layer /\ layers \subseteq Layer /\ NoBase \notin Layer
  BY NoBaseAssumption DEF Inv, TypeInv, TypeOK
<1> QED BY <1>1, <1>2

\* What another command alters a command relies on only if it is disturbed.
LEMMA NotAltered ==
    ASSUME Inv, NEW p \in Process, NEW q \in Process, p # q, AtWork(p), AtWork(q),
           NEW a \in needs[q] \ disturbed
    PROVE  a \notin Alters(cmd[p])
BY DEF Inv, Apart

LEMMA NotNeeded ==
    ASSUME Inv, NEW p \in Process, NEW q \in Process, p # q, AtWork(p), AtWork(q),
           cmd[q].op \notin Mounts, cmd[q].on \notin disturbed
    PROVE  cmd[q].on \notin needs[p]
BY DEF Inv, Apart, Alters

LEMMA PlannedKept ==
    ASSUME NEW q \in Process, Unmoved(q), Planned(q)
    PROVE  Planned(q)'
<1>1. CallsPlanned(q)' <=> CallsPlanned(q)
  BY DEF Unmoved, CallsPlanned
<1>2. Origin(q)' = Origin(q) /\ (AtWork(q)' <=> AtWork(q))
  BY DEF Unmoved, Origin, AtWork
<1> QED BY <1>1, <1>2 DEF Planned, Unmoved

\* A command that alters nothing has found nothing out.
LEMMA ClearedMounts ==
    ASSUME Inv, NEW q \in Process, Unmoved(q), cmd[q].op \in Mounts
    PROVE  Cleared(q)'
<1>1. pc[q] = "write" => cmd[q].op \in Writes
  BY DEF Inv, TypeInv, Phase
<1> QED BY <1>1 DEF Cleared, Mounts, Writes, Unmoved

\* A step that touches neither the files nor the mount table.
LEMMA OthersRest ==
    ASSUME Inv, NEW q \in Process, Unmoved(q), UNCHANGED <<layers, base, roots>>,
           disturbed \subseteq disturbed'
    PROVE  Steady(q)'
<1>1. Planned(q) /\ Relied(q) /\ Under(q) /\ Cleared(q)
  BY DEF Inv, Steady
<1>2. (AtWork(q)' <=> AtWork(q)) /\ (Reads(q)' <=> Reads(q))
  BY DEF AtWork, Reads, Unmoved
<1>3. Relied(q)'
  BY <1>1, <1>2 DEF Relied, Unmoved
<1>4. Under(q)'
  BY <1>1 DEF Under, Unmoved, OverlayOn, Top, Last
<1>5. Cleared(q)'
  <2>1. OwnChildren(q, cmd[q].on)' = OwnChildren(q, cmd[q].on)
    BY DEF OwnChildren, Unmoved
  <2>2. /\ Free(cmd[q].on)' <=> Free(cmd[q].on)
        /\ Overlain(cmd[q].on)' <=> Overlain(cmd[q].on)
    BY DEF Free, Overlain, Unmoved
  <2> QED BY <1>1, <1>2, <2>1, <2>2 DEF Cleared, Unmoved
<1> QED BY <1>1, <1>3, <1>4, <1>5, PlannedKept DEF Steady

\* A system call of p: it takes no overlay but from what p alters, and brings
\* none but to, and over, what p relies on.
CallEffect(p) ==
    \A x \in Layer :
        /\ x \notin Alters(cmd[p]) /\ OverlayOn(x) # NoBase => OverlayOn(x)' # NoBase
        /\ x \notin needs[p] /\ Len(roots[x]) = 1 => Len(roots'[x]) = 1
        /\ x \notin needs[p] /\ ~Overlain(x) => ~Overlain(x)'

LEMMA OthersCalled ==
    ASSUME Inv, NEW p \in Process, NEW q \in Process, p # q, AtWork(p), Unmoved(q),
           UNCHANGED <<layers, base, disturbed>>, CallEffect(p)
    PROVE  Steady(q)'
<1>1. Planned(q) /\ Relied(q) /\ Under(q) /\ Cleared(q)
  BY DEF Inv, Steady
<1>2. (AtWork(q)' <=> AtWork(q)) /\ (Reads(q)' <=> Reads(q))
  BY DEF AtWork, Reads, Unmoved
<1>3. Relied(q)'
  BY <1>1, <1>2 DEF Relied, Unmoved
<1>4. Under(q)'
  <2> SUFFICES ASSUME pc[q] = "calls", cmd[q].op \in Mounts
               PROVE  Under(q)'
    BY DEF Under, Unmoved
  <2>1. \A a \in needs[q] \ disturbed : OverlayOn(a)' = NoBase => OverlayOn(a) = NoBase
    <3> SUFFICES ASSUME NEW a \in needs[q] \ disturbed PROVE OverlayOn(a)' = NoBase => OverlayOn(a) = NoBase
      OBVIOUS
    <3>1. AtWork(q) /\ a \in Layer
      BY CommandType DEF AtWork, Inv
    <3>2. a \notin Alters(cmd[p])
      BY <3>1, NotAltered
    <3> QED BY <3>1, <3>2 DEF CallEffect
  <2> QED BY <1>1, <2>1 DEF Under, Unmoved
<1>5. Cleared(q)'
  <2>1. CASE cmd[q].op \in Mounts
    BY <2>1, ClearedMounts
  <2>2. CASE cmd[q].op \notin Mounts /\ AtWork(q) /\ cmd[q].on \notin disturbed
    <3>1. cmd[q].on \in Layer /\ cmd[q].on \notin needs[p]
      BY <2>2, CommandType, NotNeeded DEF AtWork, Inv
    <3>2. PICK x \in Layer : x = cmd[q].on
      BY <3>1
    <3>3. /\ Free(x) => Free(x)'
          /\ ~Overlain(x) => ~Overlain(x)'
      BY <3>1, <3>2 DEF Free, CallEffect
    <3>4. /\ Free(cmd[q].on)' <=> Free(x)'
          /\ Overlain(cmd[q].on)' <=> Overlain(x)'
      BY <3>2 DEF Unmoved, Free, Overlain
    <3>5. OwnChildren(q, cmd[q].on)' = OwnChildren(q, cmd[q].on)
      BY DEF OwnChildren, Unmoved
    <3> QED BY <1>1, <1>2, <2>2, <3>2, <3>3, <3>4, <3>5 DEF Cleared, Unmoved
  <2>3. CASE ~AtWork(q) \/ cmd[q].on \in disturbed
    BY <1>2, <2>3 DEF Cleared, Unmoved
  <2> QED BY <2>1, <2>2, <2>3
<1> QED BY <1>1, <1>3, <1>4, <1>5, PlannedKept DEF Steady

\* A command of another process writes or removes a layer.
LEMMA OthersWrite ==
    ASSUME Inv, NEW p \in Process, NEW q \in Process, p # q, AtWork(p), Unmoved(q),
           cmd[p].op \in Writes, roots' = roots, disturbed \subseteq disturbed',
           ChangedAt(cmd[p].on),
           cmd[p].on \in layers' =>
               cmd[p].op \in {"add", "rebase"} /\ base'[cmd[p].on] = cmd[p].to
    PROVE  Steady(q)'
<1> DEFINE x == cmd[p].on
<1>1. Planned(q) /\ Relied(q) /\ Under(q) /\ Cleared(q) /\ Planned(p)
  BY DEF Inv, Steady
<1>2. (AtWork(q)' <=> AtWork(q)) /\ (Reads(q)' <=> Reads(q))
  BY DEF AtWork, Reads, Unmoved
<1>3. x \in Layer /\ x \in Alters(cmd[p])
  BY CommandType DEF AtWork, Inv, Alters, Writes, Mounts
<1>4. ASSUME AtWork(q), NEW a \in needs[q] \ disturbed
      PROVE  a \in Layer /\ base'[a] = base[a] /\ (a \in layers => a \in layers')
  <2>1. a # x
    BY <1>3, <1>4, NotAltered
  <2>2. a \in Layer
    BY <1>4, CommandType DEF AtWork, Inv
  <2> QED BY <2>1, <2>2 DEF ChangedAt, x
<1> HIDE DEF x
<1>5. Relied(q)'
  BY <1>1, <1>2, <1>4 DEF Relied, Unmoved
<1>6. Under(q)'
  <2> SUFFICES ASSUME pc[q] = "calls", cmd[q].op \in Mounts
               PROVE  Under(q)'
    BY DEF Under, Unmoved
  <2>1. AtWork(q)
    BY DEF AtWork
  <2>2. \A a : OverlayOn(a)' = OverlayOn(a)
    BY DEF OverlayOn, Top, Last
  <2> QED BY <1>1, <1>4, <2>1, <2>2 DEF Under, Unmoved
<1>7. Cleared(q)'
  <2>1. CASE cmd[q].op \in Mounts
    BY <2>1, ClearedMounts
  <2>2. CASE cmd[q].op \notin Mounts /\ AtWork(q) /\ cmd[q].on \notin disturbed
    <3> DEFINE y == cmd[q].on
    <3>1. y \in Layer /\ y \notin needs[p] /\ y # NoBase
      BY <2>2, CommandType, NotNeeded, NoBaseAssumption DEF AtWork, Inv
    <3>2. Children(layers, base, y)' \subseteq Children(layers, base, y)
      <4> SUFFICES ASSUME NEW c \in layers', base'[c] = y PROVE c \in layers /\ base[c] = y
        BY DEF Children, Unmoved
      <4>1. c # x
        BY <1>1, <3>1 DEF Planned, x
      <4> QED BY <4>1 DEF ChangedAt, x
    <3>3. /\ Free(y)' <=> Free(y)
          /\ Overlain(y)' <=> Overlain(y)
          /\ OwnChildren(q, y)' = OwnChildren(q, y)
      BY DEF Free, Overlain, OwnChildren, Unmoved
    <3> QED BY <1>1, <1>2, <2>2, <3>2, <3>3 DEF Cleared, Unmoved
  <2>3. CASE ~AtWork(q) \/ cmd[q].on \in disturbed
    BY <1>2, <2>3 DEF Cleared, Unmoved
  <2> QED BY <2>1, <2>2, <2>3
<1> QED BY <1>1, <1>5, <1>6, <1>7, PlannedKept DEF Steady

-----------------------------------------------------------------------------
(* The steps of the proof that are common to several actions.              *)

\* No command begins, and those at work rely on what they have relied on.
LEMMA ApartKept ==
    ASSUME Inv, disturbed \subseteq disturbed',
           \A q \in Process : AtWork(q)' =>
               AtWork(q) /\ cmd'[q] = cmd[q] /\ needs'[q] = needs[q]
    PROVE  Apart'
<1> SUFFICES ASSUME NEW p \in Process, NEW q \in Process, p # q, AtWork(p)', AtWork(q)'
             PROVE  Alters(cmd'[p]) \cap needs'[q] \subseteq disturbed'
  BY DEF Apart, Alters
<1>1. AtWork(p) /\ AtWork(q) /\ cmd'[p] = cmd[p] /\ needs'[q] = needs[q]
  OBVIOUS
<1> QED BY <1>1 DEF Inv, Apart

\* A step of one process that touches neither the files nor the mount table.
LEMMA RestKeeps ==
    ASSUME Inv, TypeInv', NEW p \in Process, UNCHANGED <<layers, base, roots, disturbed>>,
           \A q \in Process \ {p} : Unmoved(q), Steady(p)',
           AtWork(p)' => AtWork(p) /\ cmd'[p] = cmd[p] /\ needs'[p] = needs[p]
    PROVE  Inv'
<1>1. \A q \in Process : Steady(q)'
  BY OthersRest
<1>2. \A q \in Process : AtWork(q)' => AtWork(q) /\ cmd'[q] = cmd[q] /\ needs'[q] = needs[q]
  BY DEF Unmoved, AtWork
<1>3. Apart'
  BY <1>2, ApartKept
<1>4. TreeInheritable' /\ OverlaysFollowTree' /\ MountedOnMounted' /\ LowerKnown'
  BY DEF Inv, TreeInheritable, OverlaysFollowTree, MountedOnMounted, LowerKnown,
         OverlayOn, Top, Last
<1> QED BY <1>1, <1>3, <1>4 DEF Inv

LEMMA FinishMoves ==
    ASSUME TypeInv, NEW p \in Process, NEW label \in {"idle", "write", "enter", "inside"},
           Finish(p, label)
    PROVE  /\ \A q \in Process \ {p} : Unmoved(q)
           /\ pc'[p] = label /\ (label # "idle" => cmd'[p] = cmd[p])
           /\ label \in {"write", "enter"} => needs'[p] = needs[p]
           /\ AtWork(p)' => /\ label \in {"write", "enter"}
                            /\ cmd'[p] = cmd[p] /\ needs'[p] = needs[p]
<1>1. /\ pc \in [Process -> Labels] /\ pc' = [pc EXCEPT ![p] = label]
      /\ cmd \in [Process -> Command \cup {NoCommand}]
      /\ cmd' = IF label = "idle" THEN [cmd EXCEPT ![p] = NoCommand] ELSE cmd
      /\ needs \in [Process -> SUBSET Layer]
      /\ needs' = IF label \in {"idle", "inside"} THEN [needs EXCEPT ![p] = {}] ELSE needs
      /\ tree \in [Process -> Tree] /\ tree' = [tree EXCEPT ![p] = EmptyTree]
      /\ todo \in [Process -> Seq(Layer)] /\ todo' = [todo EXCEPT ![p] = <<>>]
      /\ calls \in [Process -> Seq(Call)] /\ calls' = [calls EXCEPT ![p] = <<>>]
  BY DEF TypeInv, TypeOK, Finish, Leaves, Forget, Goto, Labels
<1> HIDE DEF Tree, EmptyTree, Command, NoCommand, Call
<1>2. \A q \in Process \ {p} : Unmoved(q)
  BY <1>1 DEF Unmoved
<1>3. pc'[p] = label
  BY <1>1
<1> QED BY <1>1, <1>2, <1>3 DEF AtWork

\* Of a process that is not at work nothing is asked.
LEMMA SteadyIdle ==
    ASSUME NEW p \in Process, pc'[p] \in {"idle", "inside"}
    PROVE  Steady(p)'
BY DEF Steady, Planned, Relied, Under, Cleared, AtWork

\* A command ends, with an error or without.
LEMMA InvEnds ==
    ASSUME Inv, TypeInv', NEW p \in Process,
           \/ (Mounted(p) /\ cmd[p].op # "chroot") \/ Unmounted(p) \/ CallFails(p)
           \/ Refused(p) \/ Enter(p) \/ Leave(p)
    PROVE  Inv'
<1>1. \E label \in {"idle", "inside"} : Finish(p, label)
  BY DEF Mounted, Unmounted, CallFails, Refused, Enter, Leave
<1>2. PICK label \in {"idle", "inside"} : Finish(p, label)
  BY <1>1
<1>3. UNCHANGED <<layers, base, roots, disturbed>>
  BY DEF Mounted, Unmounted, CallFails, Refused, Enter, Leave, shared
<1>4. /\ \A q \in Process \ {p} : Unmoved(q)
      /\ pc'[p] \in {"idle", "inside"} /\ ~AtWork(p)'
  BY <1>2, FinishMoves DEF Inv
<1> QED BY <1>3, <1>4, SteadyIdle, RestKeeps

\* A layer that is mounted is entered: it stays, as the command relies on it.
LEMMA InvReadyToEnter ==
    ASSUME Inv, TypeInv', NEW p \in Process,
           ProbeForChroot(p) \/ (Mounted(p) /\ cmd[p].op = "chroot")
    PROVE  Inv'
<1>1. /\ Finish(p, "enter") /\ cmd[p].op = "chroot" /\ AtWork(p)
      /\ UNCHANGED <<layers, base, roots, disturbed>>
  BY DEF ProbeForChroot, Mounted, AtWork, shared
<1>2. /\ \A q \in Process \ {p} : Unmoved(q)
      /\ pc'[p] = "enter" /\ cmd'[p] = cmd[p] /\ needs'[p] = needs[p]
  BY <1>1, FinishMoves DEF Inv
<1>3. Planned(p) /\ Relied(p)
  BY DEF Inv, Steady
<1>4. Planned(p)'
  BY <1>1, <1>2, <1>3 DEF Planned, AtWork, Mounts
<1>5. Relied(p)'
  BY <1>1, <1>2, <1>3 DEF Relied, AtWork, Reads
<1>6. Under(p)' /\ Cleared(p)'
  BY <1>1, <1>2 DEF Under, Cleared
<1> QED BY <1>1, <1>2, <1>4, <1>5, <1>6, RestKeeps DEF Steady

LEMMA InvScan ==
    ASSUME Inv, TypeInv', NEW p \in Process, List(p) \/ Look(p) \/ Scanned(p)
    PROVE  Inv'
<1>1. /\ pc[p] \in {"list", "scan"} /\ AtWork(p) /\ \E label \in {"scan", "probe"} : Goto(p, label)
      /\ UNCHANGED <<layers, base, roots, disturbed, cmd, needs, tree, todo, calls>>
  BY ScanSteps DEF shared, AtWork, Inv
<1>2. pc'[p] \in {"scan", "probe"} /\ \A q \in Process \ {p} : pc'[q] = pc[q]
  BY <1>1 DEF Inv, TypeInv, TypeOK, Goto
<1>3. \A q \in Process \ {p} : Unmoved(q)
  BY <1>1, <1>2 DEF Unmoved
<1>4. Planned(p) /\ Relied(p) /\ Cleared(p)
  BY DEF Inv, Steady
<1>5. Planned(p)'
  BY <1>1, <1>2, <1>4 DEF Planned, AtWork, Origin
<1>6. Relied(p)'
  BY <1>1, <1>2, <1>4 DEF Relied, AtWork, Reads
<1>7. Under(p)'
  BY <1>2 DEF Under
<1>8. Cleared(p)'
  <2>1. /\ Free(cmd[p].on)' <=> Free(cmd[p].on)
        /\ OwnChildren(p, cmd[p].on)' = OwnChildren(p, cmd[p].on)
    BY <1>1 DEF Free, Overlain, OwnChildren
  <2> QED BY <1>1, <1>2, <1>4, <2>1 DEF Cleared, AtWork
<1> QED BY <1>1, <1>3, <1>5, <1>6, <1>7, <1>8, RestKeeps DEF Steady

-----------------------------------------------------------------------------
(* The reading and the checks.                                             *)

\* With a layer all that derives from it is disturbed: the others still make a
\* tree.
LEMMA DerivedKeepsTree ==
    ASSUME Inv, NEW S
    PROVE  Inheritable(layers \ (disturbed \cup DerivedFrom(S)), base)
<1> DEFINE L == layers \ disturbed
           D == DerivedFrom(S)
           M == layers \ (disturbed \cup D)
<1>1. Closed(L, base) /\ Acyclic(L, base) /\ M \subseteq L
  BY DEF Inv, TreeInheritable, Inheritable
<1>2. Closed(M, base)
  <2> SUFFICES ASSUME NEW l \in M, base[l] \in D PROVE l \in D
    BY <1>1 DEF Closed
  <2>1. l \in layers /\ l \in Layer /\ base[l] \in layers
    <3>1. l \in layers \ disturbed /\ base[l] \in Layer
      BY DEF DerivedFrom
    <3> QED BY <3>1, BaseUndisturbed, NoBaseAssumption
  <2>2. Chain(l) = {l} \cup Chain(base[l]) /\ base[l] \in Chain(base[l])
    BY <2>1, ChainUnfold, ChainSelf DEF Chain
  <2> QED BY <2>1, <2>2 DEF DerivedFrom
<1>3. Acyclic(M, base)
  BY <1>1 DEF Acyclic
<1> QED BY <1>2, <1>3 DEF Inheritable

\* Nothing is mounted on what is no layer, or over it.
LEMMA NoLayerFree ==
    ASSUME Inv, NEW x \in Layer \ (layers \cup disturbed)
    PROVE  Free(x)
<1>1. Len(roots[x]) = 1
  <2> DEFINE n == Len(roots[x])
  <2>1. n \in Nat \ {0} /\ DOMAIN roots[x] = 1 .. n
    BY StackType DEF Inv
  <2> HIDE DEF n
  <2>2. n \in DOMAIN roots[x]
    BY <2>1
  <2>3. ~(n > 1)
    BY <2>2 DEF Inv, OverlaysFollowTree
  <2>4. n = 1
    BY <2>1, <2>3
  <2> QED BY <2>4 DEF n
<1>2. ~Overlain(x)
  BY NoBaseAssumption DEF Overlain, Inv, LowerKnown
<1> QED BY <1>1, <1>2 DEF Free

LEMMA InvBegin ==
    ASSUME Inv, TypeInv', NEW p \in Process, NEW c \in Command, Begin(p, c)
    PROVE  Inv'
<1> DEFINE t == [layers |-> layers, base |-> base]
           n == Needs(c)
           D == DerivedFrom(Raced(c))
<1>1. /\ pc[p] = "idle" /\ pc' = [pc EXCEPT ![p] = "list"]
      /\ cmd' = [cmd EXCEPT ![p] = c] /\ tree' = [tree EXCEPT ![p] = t]
      /\ needs' = [needs EXCEPT ![p] = n] /\ disturbed' = disturbed \cup D
      /\ UNCHANGED <<layers, base, roots, todo, calls>>
      /\ (c.op = "add" <=> c.on \notin layers) /\ Inheritable(layers, base)
      /\ c.to \in IF c.op \in {"add", "rebase"} THEN layers \cup {NoBase} ELSE {NoBase}
  BY DEF Begin, Goto
<1>2. /\ pc'[p] = "list" /\ cmd'[p] = c /\ tree'[p] = t /\ needs'[p] = n
      /\ \A q \in Process \ {p} : Unmoved(q)
  <2> HIDE DEF Command, t, n
  <2> QED BY <1>1 DEF Inv, TypeInv, TypeOK, Unmoved
<1>3. \A q \in Process \ {p} : Steady(q)'
  BY <1>1, <1>2, OthersRest
<1>4. c.on \in Layer /\ layers \subseteq Layer /\ NoBase \notin layers
  BY NoBaseAssumption DEF Command, Inv, TypeInv, TypeOK
<1>5. n \subseteq layers /\ \A a \in n : base[a] \in n \cup {NoBase}
  <2> SUFFICES ASSUME NEW y \in layers
               PROVE  Chain(y) \subseteq layers /\ \A a \in Chain(y) : base[a] \in Chain(y) \cup {NoBase}
    BY DEF Needs, Chain
  <2>1. Chain(y) = AncestorsAndSelf(layers, base, y) /\ Chain(y) \subseteq layers
    BY ChainSelf DEF Chain
  <2> QED BY <1>1, <2>1, ChainStep DEF Inheritable, Closed
<1>6. Planned(p)'
  <2>1. c.op \in Mounts => c.on \in n
    BY <1>1, ChainSelf DEF Needs, Chain, Mounts
  <2>2. c.op \in {"add", "rebase"} =>
           c.to \in n \cup {NoBase} /\ (c.op = "add" => c.on \notin n)
    BY <1>1, <1>5, ChainSelf DEF Needs, Chain, Mounts
  <2>3. n # {} => LET o == IF c.op \in Mounts THEN c.on ELSE c.to
                  IN  o \in layers /\ n = AncestorsAndSelf(layers, base, o)
    BY <1>1 DEF Needs, Chain, Mounts
  <2>4. Origin(p)' = IF c.op \in Mounts THEN c.on ELSE c.to
    BY <1>2 DEF Origin
  <2>5. t.layers = layers /\ t.base = base
    OBVIOUS
  <2> HIDE DEF t, n
  <2> QED BY <1>2, <2>1, <2>2, <2>3, <2>4, <2>5 DEF Planned
<1>7. Relied(p)'
  <2> HIDE DEF n
  <2> QED BY <1>1, <1>2, <1>5 DEF Relied
<1>8. Under(p)'
  BY <1>2 DEF Under
<1>9. Cleared(p)'
  <2>1. c.op = "add" /\ c.on \notin disturbed => Free(c.on)
    BY <1>1, <1>4, NoLayerFree
  <2>2. Children(layers, base, c.on)' = OwnChildren(p, c.on)'
    BY <1>1, <1>2 DEF OwnChildren
  <2>3. Free(cmd[p].on)' <=> Free(c.on)
    BY <1>1, <1>2 DEF Free, Overlain
  <2> QED BY <1>1, <1>2, <2>1, <2>2, <2>3 DEF Cleared
<1>10. Apart'
  <2> SUFFICES ASSUME NEW q \in Process, NEW r \in Process, q # r, AtWork(q)', AtWork(r)'
               PROVE  Alters(cmd'[q]) \cap needs'[r] \subseteq disturbed'
    BY DEF Apart, Alters
  <2>1. \A s \in Process \ {p} : AtWork(s)' => AtWork(s) /\ cmd'[s] = cmd[s] /\ needs'[s] = needs[s]
    BY <1>2 DEF Unmoved, AtWork
  <2>2. \A S : S \cap Layer \subseteq DerivedFrom(S)
    BY DEF DerivedFrom
  <2>3. CASE q = p
    <3>1. Alters(c) \cap needs[r] \subseteq Raced(c)
      BY <2>1, <2>3 DEF Raced
    <3>2. needs[r] \subseteq Layer
      BY DEF Inv, TypeInv, TypeOK
    <3> QED BY <1>1, <1>2, <2>1, <2>2, <2>3, <3>1, <3>2
  <2>4. CASE r = p
    <3>1. Alters(cmd[q]) \cap n \subseteq Raced(c)
      BY <2>1, <2>4 DEF Raced
    <3>2. n \subseteq Layer
      BY <1>4, <1>5
    <3> QED BY <1>1, <1>2, <2>1, <2>2, <2>4, <3>1, <3>2
  <2>5. CASE q # p /\ r # p
    BY <1>1, <2>1, <2>5 DEF Inv, Apart
  <2> QED BY <2>3, <2>4, <2>5
<1>11. TreeInheritable'
  BY <1>1, DerivedKeepsTree DEF TreeInheritable
<1>12. OverlaysFollowTree' /\ MountedOnMounted' /\ LowerKnown'
  <2> HIDE DEF D
  <2> QED BY <1>1 DEF Inv, OverlaysFollowTree, MountedOnMounted, LowerKnown, OverlayOn, Top, Last
<1>13. Steady(p)'
  BY <1>6, <1>7, <1>8, <1>9 DEF Steady
<1> QED BY <1>3, <1>10, <1>11, <1>12, <1>13 DEF Inv

LEMMA InvProbeForUnmount ==
    ASSUME Inv, TypeInv', NEW p \in Process, ProbeForUnmount(p)
    PROVE  Inv'
<1> DEFINE l == cmd[p].on
           cs == UnmountCalls(l)
<1>1. /\ pc[p] = "probe" /\ cmd[p].op = "umount" /\ ~Overlain(l) /\ AtWork(p)
      /\ calls' = [calls EXCEPT ![p] = cs] /\ tree' = [tree EXCEPT ![p] = EmptyTree]
      /\ pc' = [pc EXCEPT ![p] = "calls"]
      /\ UNCHANGED <<layers, base, roots, disturbed, cmd, needs, todo>>
  BY DEF ProbeForUnmount, MountsBusy, Forget, Goto, shared, AtWork
<1>2. l \in Layer
  BY <1>1, CommandType DEF Inv
<1>3. \A k \in DOMAIN cs : cs[k].do = "umount" /\ cs[k].on = l
  BY <1>2, UnmountCallsType DEF Inv
<1> HIDE DEF cs
<1>4. /\ pc'[p] = "calls" /\ calls'[p] = cs /\ cmd'[p] = cmd[p] /\ needs'[p] = needs[p]
      /\ \A q \in Process \ {p} : Unmoved(q)
  <2> HIDE DEF EmptyTree
  <2> QED BY <1>1 DEF Inv, TypeInv, TypeOK, Unmoved
<1>5. Planned(p)'
  BY <1>1, <1>3, <1>4 DEF Planned, Mounts
<1>6. Relied(p)'
  <2>1. Relied(p)
    BY DEF Inv, Steady
  <2> QED BY <1>1, <1>4, <2>1 DEF Relied, Reads, Mounts
<1>7. Under(p)' /\ Cleared(p)'
  BY <1>1, <1>4 DEF Under, Cleared, Mounts, Overlain
<1> QED BY <1>1, <1>4, <1>5, <1>6, <1>7, RestKeeps DEF Steady

\* The check of a rebase has made sure that the layer is not in the chain of the
\* new base, as it has read it.
LEMMA RebaseChecked ==
    ASSUME Inv, NEW p \in Process, pc[p] = "probe", cmd[p].op = "rebase",
           MayRebase(p, cmd[p].on, cmd[p].to)
    PROVE  cmd[p].on \notin needs[p]
<1> DEFINE x == cmd[p].on
           y == cmd[p].to
           L == tree[p].layers
           b == tree[p].base
<1> SUFFICES ASSUME needs[p] # {} PROVE x \notin needs[p]
  OBVIOUS
<1>1. y \in L /\ needs[p] = AncestorsAndSelf(L, b, y)
  BY DEF Inv, Steady, Planned, AtWork, Origin, Mounts
<1>2. /\ L \in SUBSET Layer /\ b \in [Layer -> Layer \cup {NoBase}] /\ x \in L
      /\ Inheritable(L, [b EXCEPT ![x] = y])
  BY DEF Inv, TypeInv, TypeOK, Tree, Phase, MayRebase
<1> HIDE DEF L, b, x, y
<1>3. x \notin AncestorsAndSelf(L, b, y)
  BY <1>1, <1>2, InheritableOnlyIf
<1> QED BY <1>1, <1>3

LEMMA InvProbeForWrite ==
    ASSUME Inv, TypeInv', NEW p \in Process, ProbeForWrite(p)
    PROVE  Inv'
<1>1. /\ pc[p] = "probe" /\ cmd[p].op \in Writes /\ MayWrite(p) /\ Finish(p, "write")
      /\ UNCHANGED <<layers, base, roots, disturbed>> /\ AtWork(p)
  BY DEF ProbeForWrite, shared, AtWork
<1>2. /\ pc'[p] = "write" /\ cmd'[p] = cmd[p] /\ needs'[p] = needs[p]
      /\ \A q \in Process \ {p} : Unmoved(q)
  BY <1>1, FinishMoves DEF Inv
<1>3. cmd[p].on \in Layer /\ Planned(p) /\ Relied(p) /\ Cleared(p)
  BY <1>1, CommandType DEF Inv, Steady
<1>4. ~Busy(p, cmd[p].on) => Free(cmd[p].on)
  BY <1>3, StackType DEF Busy, HasMounts, Free, Inv
<1>5. cmd[p].op = "rebase" => cmd[p].on \notin needs[p] /\ Free(cmd[p].on)
  BY <1>1, <1>4, RebaseChecked DEF MayWrite, MayRebase
<1>6. cmd[p].op = "remove" => OwnChildren(p, cmd[p].on) = {} /\ Free(cmd[p].on)
  BY <1>1, <1>4 DEF MayWrite, MayRemove
<1>7. Planned(p)'
  BY <1>1, <1>2, <1>3, <1>5 DEF Planned, Mounts, Writes
<1>8. Relied(p)'
  BY <1>1, <1>2, <1>3 DEF Relied, Reads
<1>9. Cleared(p)'
  <2>1. Free(cmd[p].on)' <=> Free(cmd[p].on)
    BY <1>1, <1>2 DEF Free, Overlain
  <2>2. Free(cmd[p].on) \/ cmd[p].on \in disturbed
    BY <1>1, <1>3, <1>5, <1>6 DEF Cleared, Writes
  <2> QED BY <1>1, <1>2, <1>3, <1>6, <2>1, <2>2 DEF Cleared, Writes
<1>10. Under(p)'
  BY <1>2 DEF Under
<1> QED BY <1>1, <1>2, <1>7, <1>8, <1>9, <1>10, RestKeeps DEF Steady

-----------------------------------------------------------------------------
(* Mount.                                                                  *)

\* The command goes on with the layers of a list in which nothing is missing
\* that is still to be mounted, and every layer comes after its base.
LEMMA MountNextKeeps ==
    ASSUME Inv, TypeInv', NEW p \in Process, AtWork(p), Reads(p), cmd[p].op \in Mounts,
           NEW chain \in Seq(Layer), chain # <<>>,
           \A k \in DOMAIN chain : chain[k] \in needs[p],
           \A k, j \in DOMAIN chain : k <= j => tree[p].base[chain[k]] # chain[j],
           \A a \in needs[p] : tree[p].base[a] \in needs[p] \cup {NoBase},
           \A a \in needs[p] \ disturbed : base[a] # NoBase /\ OverlayOn(a) = NoBase =>
               \E k \in DOMAIN chain : chain[k] = a,
           MountNext(p, chain),
           UNCHANGED <<layers, base, roots, disturbed, cmd, needs, tree>>
    PROVE  Inv'
<1> DEFINE l == Head(chain)
           td == Tail(chain)
           cs == MountCalls(p, l)
           b == tree[p].base
<1>1. /\ pc' = [pc EXCEPT ![p] = "calls"] /\ calls' = [calls EXCEPT ![p] = cs]
      /\ todo' = [todo EXCEPT ![p] = td]
  BY DEF MountNext, Goto
<1>2. /\ l = chain[1] /\ 1 \in DOMAIN chain /\ l \in Layer
      /\ \A k \in DOMAIN td : td[k] = chain[k + 1] /\ k + 1 \in DOMAIN chain /\ 1 <= k + 1
      /\ \A k \in DOMAIN chain : k # 1 => k - 1 \in DOMAIN td /\ td[k - 1] = chain[k]
  OBVIOUS
<1>3. /\ \A k \in DOMAIN cs : /\ cs[k].do = "mount" /\ cs[k].on = l
                              /\ cs[k].at = "overlay" =>
                                    k = 1 /\ OwnBase(p, l) # NoBase /\ OverlayOn(l) = NoBase
      /\ OwnBase(p, l) # NoBase /\ OverlayOn(l) = NoBase =>
            cs # <<>> /\ cs[1].at = "overlay"
      /\ cs \in Seq(Call)
  BY <1>2, MountCallsType DEF Inv
<1>4. l \in needs[p] /\ OwnBase(p, l) = b[l]
  BY <1>2 DEF OwnBase
<1>5. Planned(p) /\ Relied(p)
  BY DEF Inv, Steady
<1> HIDE DEF cs, td, l, b
<1>6. /\ pc'[p] = "calls" /\ calls'[p] = cs /\ todo'[p] = td /\ tree'[p].base = b
      /\ cmd'[p] = cmd[p] /\ needs'[p] = needs[p]
      /\ \A q \in Process \ {p} : Unmoved(q)
  <2> HIDE DEF Call
  <2> QED BY <1>1 DEF Inv, TypeInv, TypeOK, Unmoved, b
<1>7. Planned(p)'
  <2>1. \A k \in DOMAIN cs : cs[k].do = "mount" /\ cs[k].on \in needs[p]
    BY <1>3, <1>4
  <2>2. \A k \in DOMAIN cs : cs[k].at = "overlay" =>
           /\ k = 1 /\ b[cs[k].on] # cs[k].on
           /\ \A j \in DOMAIN td : td[j] # b[cs[k].on]
    <3>1. b[l] # l /\ \A j \in DOMAIN td : td[j] # b[l]
      BY <1>2 DEF b
    <3> QED BY <1>3, <3>1
  <2>3. \A k \in DOMAIN td : td[k] \in needs[p]
    BY <1>2
  <2>4. \A k, j \in DOMAIN td : k <= j => b[td[k]] # td[j]
    <3> SUFFICES ASSUME NEW k \in DOMAIN td, NEW j \in DOMAIN td, k <= j
                 PROVE  b[td[k]] # td[j]
      OBVIOUS
    <3>1. k + 1 <= j + 1
      BY DEF td
    <3> QED BY <1>2, <3>1 DEF b
  <2>5. \A a \in needs[p] : b[a] \in needs[p] \cup {NoBase}
    BY DEF b
  <2>6. CallsPlanned(p)'
    BY <1>6, <2>1, <2>2, <2>3, <2>4, <2>5 DEF CallsPlanned
  <2> QED BY <1>5, <1>6, <2>6 DEF Planned, AtWork, Mounts
<1>8. Relied(p)'
  BY <1>5, <1>6 DEF Relied
<1>9. Under(p)'
  <2>1. \A a : OverlayOn(a)' = OverlayOn(a)
    BY DEF OverlayOn, Top, Last
  <2>2. ASSUME NEW a \in needs[p] \ disturbed, base[a] # NoBase, OverlayOn(a) = NoBase
        PROVE  \/ \E k \in DOMAIN td : td[k] = a
               \/ cs # <<>> /\ cs[1].on = a /\ cs[1].at = "overlay"
    <3>1. PICK k \in DOMAIN chain : chain[k] = a
      BY <2>2
    <3>2. CASE k = 1
      <4>1. l = a /\ b[l] = base[a]
        BY <1>2, <1>5, <3>1, <3>2 DEF Relied, b
      <4>2. cs # <<>> /\ cs[1].at = "overlay"
        BY <1>3, <1>4, <2>2, <4>1
      <4>3. 1 \in DOMAIN cs
        BY <1>3, <4>2
      <4> QED BY <1>3, <4>1, <4>2, <4>3
    <3>3. CASE k # 1
      BY <1>2, <3>1, <3>3
    <3> QED BY <3>2, <3>3
  <2> QED BY <1>6, <2>1, <2>2 DEF Under
<1>10. Cleared(p)'
  BY <1>6 DEF Cleared, Mounts
<1> QED BY <1>6, <1>7, <1>8, <1>9, <1>10, RestKeeps DEF Steady

LEMMA InvProbeForMount ==
    ASSUME Inv, TypeInv', NEW p \in Process, ProbeForMount(p)
    PROVE  Inv'
<1> DEFINE l == cmd[p].on
           L == tree[p].layers
           b == tree[p].base
           s == OwnChain(p, l)
<1>1. /\ pc[p] = "probe" /\ cmd[p].op \in Mounts /\ MountNext(p, s) /\ AtWork(p) /\ Reads(p)
      /\ UNCHANGED <<layers, base, roots, disturbed, cmd, needs, tree>>
  BY DEF ProbeForMount, AtWork, Reads, shared
<1>2. needs[p] = AncestorsAndSelf(L, b, l)
  BY <1>1 DEF Inv, Steady, Planned, Origin
<1>3. /\ IsFiniteSet(L) /\ Inheritable(L, b) /\ l \in L /\ NoBase \notin L
      /\ L \subseteq Layer /\ s = GetAncestorsAndSelf(L, b, l)
  BY <1>1, NoBaseAssumption DEF Inv, TypeInv, TypeOK, Phase, Tree, Mounts, OwnChain
<1>4. s \in Seq(Layer) /\ s # <<>> /\ PartOfChain(L, b, l, s) /\ b[s[1]] = NoBase
  BY <1>1, OwnChainType DEF Inv, Mounts
<1> HIDE DEF L, b, l, s
<1>5. {s[k] : k \in DOMAIN s} = needs[p]
  BY <1>2, <1>3, WalkIsComplete
<1>6. \A a \in needs[p] : b[a] \in needs[p] \cup {NoBase}
  <2>1. needs[p] \subseteq L
    BY <1>2, <1>3, ChainSelf
  <2> QED BY <1>2, <1>3, <2>1, ChainStep DEF Inheritable, Closed
<1>7. \A k, j \in DOMAIN s : k <= j => b[s[k]] # s[j]
  <2> SUFFICES ASSUME NEW k \in DOMAIN s, NEW j \in DOMAIN s, k <= j, b[s[k]] = s[j]
               PROVE  FALSE
    OBVIOUS
  <2>1. s[j] \in Layer
    BY <1>4
  <2>2. CASE k = 1
    BY <1>4, <2>1, <2>2, NoBaseAssumption
  <2>3. CASE k # 1
    <3>1. k \in 2 .. Len(s) /\ k - 1 \in DOMAIN s /\ k - 1 # j
      BY <1>4, <2>3
    <3>2. b[s[k]] = s[k - 1]
      BY <1>4, <3>1 DEF PartOfChain
    <3>3. k - 1 = j
      BY <1>3, <1>4, <3>1, <3>2, PartHasNoRepeats
    <3> QED BY <3>1, <3>3
  <2> QED BY <2>2, <2>3
<1>8. \A a \in needs[p] : \E k \in DOMAIN s : s[k] = a
  BY <1>5
<1>9. \A k \in DOMAIN s : s[k] \in needs[p]
  BY <1>5
<1> QED BY <1>1, <1>4, <1>6, <1>7, <1>8, <1>9, MountNextKeeps DEF b

LEMMA InvRefresh ==
    ASSUME Inv, TypeInv', NEW p \in Process, Refresh(p)
    PROVE  Inv'
<1>1. /\ pc[p] = "calls" /\ cmd[p].op \in Mounts /\ calls[p] = <<>> /\ todo[p] # <<>>
      /\ MountNext(p, todo[p]) /\ AtWork(p) /\ Reads(p)
      /\ UNCHANGED <<layers, base, roots, disturbed, cmd, needs, tree>>
  BY DEF Refresh, AtWork, Reads, shared
<1>2. CallsPlanned(p) /\ Under(p)
  BY <1>1 DEF Inv, Steady, Planned
<1>3. todo[p] \in Seq(Layer)
  BY DEF Inv, TypeInv, TypeOK
<1>4. /\ \A k \in DOMAIN todo[p] : todo[p][k] \in needs[p]
      /\ \A k, j \in DOMAIN todo[p] : k <= j => tree[p].base[todo[p][k]] # todo[p][j]
      /\ \A a \in needs[p] : tree[p].base[a] \in needs[p] \cup {NoBase}
  BY <1>2 DEF CallsPlanned
<1>5. \A a \in needs[p] \ disturbed : base[a] # NoBase /\ OverlayOn(a) = NoBase =>
         \E k \in DOMAIN todo[p] : todo[p][k] = a
  BY <1>1, <1>2 DEF Under
<1> QED BY <1>1, <1>3, <1>4, <1>5, MountNextKeeps


-----------------------------------------------------------------------------
(* The system calls.                                                       *)

\* What is mounted on an undisturbed layer stands on the layer's base.
LEMMA OverlayStands ==
    ASSUME Inv, NEW x \in Layer \ disturbed, OverlayOn(x) # NoBase
    PROVE  /\ x \in layers /\ OverlayOn(x) = base[x]
           /\ base[x] \in Layer \ disturbed /\ base[x] \in layers
<1> DEFINE n == Len(roots[x])
<1>1. /\ n \in Nat \ {0} /\ DOMAIN roots[x] = 1 .. n /\ OverlayOn(x) = roots[x][n].lower
      /\ n # 1 /\ OverlayOn(x) \in Layer \cup {NoBase}
  BY StackType DEF Inv, OverlayOn
<1> HIDE DEF n
<1>2. n \in DOMAIN roots[x] /\ n > 1
  BY <1>1
<1>3. x \in layers /\ roots[x][n].lower = base[x]
  BY <1>2 DEF Inv, OverlaysFollowTree
<1> QED BY <1>1, <1>3, BaseUndisturbed

\* A mount is made by a command that mounts, for a layer that it relies on, and
\* an unmount by one that unmounts, of its own layer.
LEMMA CallsWithin ==
    ASSUME Inv, NEW p \in Process, pc[p] = "calls", calls[p] # <<>>
    PROVE  /\ Head(calls[p]).do = "umount" => cmd[p].op = "umount" /\ Head(calls[p]).on = cmd[p].on
           /\ Head(calls[p]).do = "mount" =>
                 cmd[p].op \in Mounts /\ Head(calls[p]).on \in needs[p] /\ CallsPlanned(p)
<1>1. Head(calls[p]) = calls[p][1] /\ 1 \in DOMAIN calls[p]
  BY HeadCall DEF Inv
<1>2. cmd[p].op \in Mounts \cup {"umount"} /\ Planned(p) /\ AtWork(p)
  BY DEF Inv, TypeInv, Phase, Steady, AtWork
<1>3. CASE cmd[p].op \in Mounts
  <2>1. CallsPlanned(p)
    BY <1>2, <1>3 DEF Planned
  <2>2. calls[p][1].do = "mount" /\ calls[p][1].on \in needs[p]
    BY <1>1, <2>1 DEF CallsPlanned
  <2> QED BY <1>1, <1>3, <2>1, <2>2
<1>4. CASE cmd[p].op = "umount"
  <2>1. calls[p][1].do = "umount" /\ calls[p][1].on = cmd[p].on
    BY <1>1, <1>2, <1>4 DEF Planned
  <2> QED BY <1>1, <1>4, <2>1
<1> QED BY <1>2, <1>3, <1>4

LEMMA CalledMoves ==
    ASSUME TypeInv, NEW p \in Process, pc[p] = "calls", calls[p] # <<>>,
           NEW rs, Called(p, rs)
    PROVE  LET l == Head(calls[p]).on
           IN  /\ l \in Layer /\ l = calls[p][1].on /\ 1 \in DOMAIN calls[p] /\ AtWork(p)
               /\ \A q \in Process \ {p} : Unmoved(q)
               /\ UNCHANGED <<layers, base, disturbed, pc, cmd, needs, tree, todo>>
               /\ \A k \in DOMAIN calls'[p] : /\ k + 1 \in DOMAIN calls[p] /\ k + 1 # 1
                                              /\ calls'[p][k] = calls[p][k + 1]
               /\ roots'[l] = rs /\ \A x \in Layer \ {l} : roots'[x] = roots[x]
<1> DEFINE l == Head(calls[p]).on
           c == calls[p]
<1>1. /\ UNCHANGED <<layers, base, disturbed, pc, cmd, needs, tree, todo>>
      /\ roots' = [roots EXCEPT ![l] = rs]
      /\ calls' = [calls EXCEPT ![p] = Tail(c)]
  BY DEF Called
<1>2. l \in Layer /\ l = c[1].on /\ 1 \in DOMAIN c
  BY HeadCall
<1>3. c \in Seq(Call) /\ DOMAIN calls = Process /\ DOMAIN roots = Layer
  BY DEF TypeInv, TypeOK
<1> HIDE DEF c, l, Call
<1>4. /\ \A q \in Process \ {p} : calls'[q] = calls[q]
      /\ calls'[p] = Tail(c)
  BY <1>1, <1>3
<1>5. \A k \in DOMAIN Tail(c) : k + 1 \in DOMAIN c /\ k + 1 # 1 /\ Tail(c)[k] = c[k + 1]
  BY <1>2, <1>3
<1>6. roots'[l] = rs /\ \A x \in Layer \ {l} : roots'[x] = roots[x]
  BY <1>1, <1>2, <1>3
<1>7. AtWork(p)
  BY DEF AtWork
<1> QED BY <1>1, <1>2, <1>4, <1>5, <1>6, <1>7 DEF Unmoved, c, l

\* What remains to be shown of each system call.
LEMMA CallKeeps ==
    ASSUME Inv, TypeInv', NEW p \in Process, pc[p] = "calls", calls[p] # <<>>,
           NEW rs, Called(p, rs), CallEffect(p), Steady(p)', OverlaysFollowTree',
           MountedOnMounted', LowerKnown'
    PROVE  Inv'
<1>1. /\ \A q \in Process \ {p} : Unmoved(q)
      /\ UNCHANGED <<layers, base, disturbed, pc, cmd, needs>> /\ AtWork(p)
  BY CalledMoves DEF Inv
<1>2. \A q \in Process : Steady(q)'
  BY <1>1, OthersCalled
<1>3. Apart'
  BY <1>1, ApartKept DEF AtWork
<1>4. TreeInheritable'
  BY <1>1 DEF Inv, TreeInheritable
<1> QED BY <1>2, <1>3, <1>4 DEF Inv

\* A mount that succeeds takes a command that mounts a step further.
LEMMA MountsOn ==
    ASSUME Inv, NEW p \in Process, pc[p] = "calls", calls[p] # <<>>,
           cmd[p].op \in Mounts, NEW rs, Called(p, rs),
           \A a \in Layer : OverlayOn(a)' = NoBase => OverlayOn(a) = NoBase,
           \A a \in Layer : a = Head(calls[p]).on /\ Head(calls[p]).at = "overlay" =>
               OverlayOn(a)' # NoBase
    PROVE  Steady(p)'
<1> DEFINE l == Head(calls[p]).on
<1>1. /\ l \in Layer /\ l = calls[p][1].on /\ 1 \in DOMAIN calls[p] /\ AtWork(p)
      /\ UNCHANGED <<layers, base, disturbed, pc, cmd, needs, tree, todo>>
      /\ \A k \in DOMAIN calls'[p] : /\ k + 1 \in DOMAIN calls[p] /\ k + 1 # 1
                                     /\ calls'[p][k] = calls[p][k + 1]
  BY CalledMoves DEF Inv
<1>2. Head(calls[p]) = calls[p][1]
  BY HeadCall DEF Inv
<1> HIDE DEF l
<1>3. Planned(p) /\ Relied(p) /\ Under(p) /\ CallsPlanned(p)
  BY <1>1 DEF Inv, Steady, Planned
<1>4. needs[p] \subseteq Layer
  BY DEF Inv, TypeInv, TypeOK
<1>5. CallsPlanned(p)'
  <2>1. \A k \in DOMAIN calls'[p] : /\ calls'[p][k].do = "mount" /\ calls'[p][k].on \in needs[p]
                                    /\ calls'[p][k].at # "overlay"
    BY <1>1, <1>3 DEF CallsPlanned
  <2>2. /\ \A a \in needs[p] : tree[p].base[a] \in needs[p] \cup {NoBase}
        /\ \A k \in DOMAIN todo[p] : todo[p][k] \in needs[p]
        /\ \A k, j \in DOMAIN todo[p] : k <= j => tree[p].base[todo[p][k]] # todo[p][j]
    BY <1>3 DEF CallsPlanned
  <2> QED BY <1>1, <2>1, <2>2 DEF CallsPlanned
<1>6. Planned(p)'
  BY <1>1, <1>3, <1>5 DEF Planned, AtWork, Mounts
<1>7. Relied(p)'
  BY <1>1, <1>3 DEF Relied, AtWork, Reads
<1>8. Under(p)'
  <2>1. ASSUME NEW a \in needs[p] \ disturbed, base[a] # NoBase, OverlayOn(a)' = NoBase
        PROVE  \E k \in DOMAIN todo[p] : todo[p][k] = a
    <3>1. OverlayOn(a) = NoBase /\ a \in Layer
      BY <1>4, <2>1
    <3>2. ~(l = a /\ calls[p][1].at = "overlay")
      BY <1>2, <2>1, <3>1 DEF l
    <3> QED BY <1>1, <1>3, <2>1, <3>1, <3>2 DEF Under
  <2> QED BY <1>1, <2>1 DEF Under
<1>9. Cleared(p)'
  BY <1>1 DEF Cleared, Mounts
<1> QED BY <1>6, <1>7, <1>8, <1>9 DEF Steady

\* An unmount that succeeds brings no overlay over the layer.
LEMMA UnmountsOn ==
    ASSUME Inv, NEW p \in Process, pc[p] = "calls", calls[p] # <<>>,
           cmd[p].op = "umount", NEW rs, Called(p, rs),
           ~Overlain(cmd[p].on) => ~Overlain(cmd[p].on)'
    PROVE  Steady(p)'
<1>1. /\ UNCHANGED <<layers, base, disturbed, pc, cmd, needs, tree, todo>>
      /\ \A k \in DOMAIN calls'[p] : /\ k + 1 \in DOMAIN calls[p]
                                     /\ calls'[p][k] = calls[p][k + 1]
  BY CalledMoves DEF Inv
<1>2. Planned(p) /\ Relied(p) /\ Cleared(p)
  BY DEF Inv, Steady
<1>3. Planned(p)'
  BY <1>1, <1>2 DEF Planned, AtWork, Mounts
<1>4. Relied(p)'
  BY <1>1, <1>2 DEF Relied, AtWork, Reads
<1>5. Under(p)'
  BY <1>1 DEF Under, Mounts
<1>6. Cleared(p)'
  BY <1>1, <1>2 DEF Cleared, AtWork, Overlain
<1> QED BY <1>3, <1>4, <1>5, <1>6 DEF Steady

LEMMA InvMountOverlay ==
    ASSUME Inv, TypeInv', NEW p \in Process, MountOverlay(p)
    PROVE  Inv'
<1>0. PICK l \in Layer : l = Head(calls[p]).on
  BY HeadCall DEF Inv, MountOverlay, NextCallIs
<1> DEFINE low == OwnBase(p, l)
           r == [Directory EXCEPT !.lower = low]
           rs == Append(roots[l], r)
           n == Len(roots[l])
<1>1. /\ pc[p] = "calls" /\ calls[p] # <<>> /\ Head(calls[p]).do = "mount"
      /\ Head(calls[p]).at = "overlay" /\ l \in layers /\ low \in layers
      /\ Called(p, rs)
  BY <1>0 DEF MountOverlay, NextCallIs
<1>2. /\ l \in Layer /\ l = calls[p][1].on /\ 1 \in DOMAIN calls[p] /\ AtWork(p)
      /\ UNCHANGED <<layers, base, disturbed, pc, cmd, needs, tree, todo>>
      /\ roots'[l] = rs /\ \A x \in Layer \ {l} : roots'[x] = roots[x]
  BY <1>0, <1>1, CalledMoves DEF Inv
<1>3. Head(calls[p]) = calls[p][1]
  BY <1>1, HeadCall DEF Inv
<1>4. cmd[p].op \in Mounts /\ l \in needs[p] /\ CallsPlanned(p)
  BY <1>0, <1>1, CallsWithin
<1>5. low \in needs[p] /\ low # NoBase
  <2>1. low \in needs[p] \cup {NoBase}
    BY <1>4 DEF CallsPlanned, OwnBase
  <2>2. low # NoBase
    BY <1>1, NoBaseAssumption DEF Inv, TypeInv, TypeOK
  <2> QED BY <2>1, <2>2
<1>6. l \notin disturbed => low = base[l]
  BY <1>1, <1>2, <1>4 DEF Inv, Steady, Relied, Reads, OwnBase
<1>7. low # l /\ \A j \in DOMAIN todo[p] : todo[p][j] # low
  BY <1>1, <1>2, <1>3, <1>4 DEF CallsPlanned, OwnBase
<1>8. /\ n \in Nat /\ DOMAIN roots[l] = 1 .. n /\ DOMAIN roots'[l] = 1 .. n + 1
      /\ Len(roots'[l]) = n + 1
      /\ \A k \in 1 .. n : roots'[l][k] = roots[l][k]
      /\ roots'[l][n + 1].lower = low
  <2>1. roots[l] \in Seq(Root) /\ n \in Nat
    BY <1>2, StackType DEF Inv
  <2>2. r.lower = low
    BY DEF Directory
  <2> HIDE DEF r, Root
  <2>3. /\ Len(rs) = n + 1 /\ DOMAIN rs = 1 .. n + 1 /\ rs[n + 1] = r
        /\ \A k \in 1 .. n : rs[k] = roots[l][k]
    BY <2>1, AppendAt
  <2>4. DOMAIN roots[l] = 1 .. n
    BY <2>1
  <2> HIDE DEF rs, n
  <2> QED BY <1>2, <2>1, <2>2, <2>3, <2>4
<1> HIDE DEF low, r, rs, n
<1>9. OverlayOn(l)' = low /\ \A x \in Layer \ {l} : OverlayOn(x)' = OverlayOn(x)
  BY <1>2, <1>8 DEF OverlayOn, Top, Last
<1>10. \A a \in Layer : OverlayOn(a)' = NoBase => OverlayOn(a) = NoBase
  BY <1>5, <1>9
<1>11. Steady(p)'
  BY <1>0, <1>1, <1>4, <1>5, <1>9, <1>10, MountsOn
<1>12. \A x \in Layer : \A k \in DOMAIN roots'[x] :
          \/ x = l /\ k = n + 1
          \/ k \in DOMAIN roots[x] /\ roots'[x][k] = roots[x][k]
  <2> SUFFICES ASSUME NEW x \in Layer, NEW k \in DOMAIN roots'[x], ~(x = l /\ k = n + 1)
               PROVE  k \in DOMAIN roots[x] /\ roots'[x][k] = roots[x][k]
    OBVIOUS
  <2>1. CASE x = l
    <3>1. k \in 1 .. n
      BY <1>8, <2>1
    <3> QED BY <1>8, <2>1, <3>1
  <2>2. CASE x # l
    BY <1>2, <2>2
  <2> QED BY <2>1, <2>2
<1>13. CallEffect(p)
  <2> SUFFICES ASSUME NEW x \in Layer
               PROVE  /\ x \notin needs[p] /\ Len(roots[x]) = 1 => Len(roots'[x]) = 1
                      /\ x \notin needs[p] /\ ~Overlain(x) => ~Overlain(x)'
    BY <1>10 DEF CallEffect
  <2>1. x \notin needs[p] /\ Len(roots[x]) = 1 => Len(roots'[x]) = 1
    BY <1>2, <1>4
  <2>2. ASSUME x \notin needs[p], Overlain(x)' PROVE Overlain(x)
    <3>1. PICK c \in Layer : \E k \in DOMAIN roots'[c] : roots'[c][k].lower = x
      BY <2>2 DEF Overlain
    <3>2. PICK k \in DOMAIN roots'[c] : roots'[c][k].lower = x
      BY <3>1
    <3>3. ~(c = l /\ k = n + 1)
      BY <1>5, <1>8, <2>2, <3>2
    <3> QED BY <1>12, <3>2, <3>3 DEF Overlain
  <2> QED BY <2>1, <2>2
<1>14. OverlaysFollowTree'
  <2> SUFFICES ASSUME NEW x \in Layer \ disturbed, NEW k \in DOMAIN roots'[x], k > 1
               PROVE  x \in layers /\ roots'[x][k].lower = base[x]
    BY <1>2 DEF OverlaysFollowTree
  <2>1. CASE x = l /\ k = n + 1
    BY <1>1, <1>6, <1>8, <2>1
  <2>2. CASE k \in DOMAIN roots[x] /\ roots'[x][k] = roots[x][k]
    BY <2>2 DEF Inv, OverlaysFollowTree
  <2> QED BY <1>12, <2>1, <2>2
<1>15. LowerKnown'
  <2> SUFFICES ASSUME NEW c \in Layer, NEW k \in DOMAIN roots'[c]
               PROVE  roots'[c][k].lower \in layers \cup disturbed \cup {NoBase}
    BY <1>2 DEF LowerKnown
  <2>1. CASE c = l /\ k = n + 1
    BY <1>1, <1>8, <2>1
  <2>2. CASE k \in DOMAIN roots[c] /\ roots'[c][k] = roots[c][k]
    BY <2>2 DEF Inv, LowerKnown
  <2> QED BY <1>12, <2>1, <2>2
<1>16. MountedOnMounted'
  <2> SUFFICES ASSUME NEW x \in Layer \ disturbed, OverlayOn(x)' # NoBase, base[base[x]] # NoBase
               PROVE  OverlayOn(base[x])' # NoBase
    BY <1>2 DEF MountedOnMounted, OverlayOn
  <2>1. base[x] \in Layer /\ OverlayOn(base[x]) # NoBase
    <3>1. CASE x = l
      <4>1. base[l] \in needs[p] \ disturbed /\ base[l] \in Layer /\ base[l] = low
        BY <1>1, <1>5, <1>6, <3>1, BaseUndisturbed
      <4> SUFFICES ASSUME OverlayOn(base[l]) = NoBase PROVE FALSE
        BY <3>1, <4>1
      <4>2. \/ \E k \in DOMAIN todo[p] : todo[p][k] = low
            \/ calls[p][1].on = low
        BY <1>1, <1>4, <3>1, <4>1 DEF Inv, Steady, Under
      <4> QED BY <1>2, <1>7, <4>2
    <3>2. CASE x # l
      <4>1. OverlayOn(x) # NoBase
        BY <1>9, <3>2
      <4> QED BY <4>1, OverlayStands DEF Inv, MountedOnMounted
    <3> QED BY <3>1, <3>2
  <2>2. PICK z \in Layer : z = base[x]
    BY <2>1
  <2>3. OverlayOn(z)' # NoBase
    BY <1>10, <2>1, <2>2
  <2>4. OverlayOn(base[x])' = OverlayOn(z)'
    BY <1>2, <2>2 DEF OverlayOn, Top
  <2> QED BY <2>3, <2>4
<1> QED BY <1>1, <1>11, <1>13, <1>14, <1>15, <1>16, CallKeeps

\* An import comes or goes: the overlays stay.
LEMMA InvImport ==
    ASSUME Inv, TypeInv', NEW p \in Process, MountImport(p) \/ UnmountImport(p)
    PROVE  Inv'
<1>0. PICK l \in Layer : l = Head(calls[p]).on
  BY HeadCall DEF Inv, MountImport, UnmountImport, NextCallIs
<1>1. /\ pc[p] = "calls" /\ calls[p] # <<>> /\ Head(calls[p]).at \in Import
      /\ Head(calls[p]) = calls[p][1] /\ 1 \in DOMAIN calls[p]
  BY HeadCall DEF Inv, MountImport, UnmountImport, NextCallIs
<1>3. PICK n \in Nat : Called(p, WithBound(l, Head(calls[p]).at, n))
  BY <1>0, ImportCalled DEF Inv
<1> DEFINE rs == WithBound(l, Head(calls[p]).at, n)
<1>4. /\ Len(rs) = Len(roots[l]) /\ DOMAIN rs = DOMAIN roots[l]
      /\ \A k \in DOMAIN roots[l] : rs[k].lower = roots[l][k].lower
  BY <1>1, WithBoundType DEF Inv
<1> HIDE DEF rs
<1>5. Called(p, rs)
  BY <1>3 DEF rs
<1>6. /\ AtWork(p) /\ UNCHANGED <<layers, base, disturbed, cmd, needs>>
      /\ roots'[l] = rs /\ \A x \in Layer \ {l} : roots'[x] = roots[x]
  BY <1>0, <1>1, <1>5, CalledMoves DEF Inv
<1>7. \A x \in Layer : /\ Len(roots'[x]) = Len(roots[x]) /\ DOMAIN roots'[x] = DOMAIN roots[x]
                       /\ \A k \in DOMAIN roots[x] : roots'[x][k].lower = roots[x][k].lower
  BY <1>4, <1>6
<1>8. \A x \in Layer : OverlayOn(x)' = OverlayOn(x)
  <2> SUFFICES ASSUME NEW x \in Layer PROVE OverlayOn(x)' = OverlayOn(x)
    OBVIOUS
  <2>1. Len(roots[x]) \in DOMAIN roots[x]
    BY StackType DEF Inv
  <2> QED BY <1>7, <2>1 DEF OverlayOn, Top, Last
<1>9. \A x \in Layer : Overlain(x)' <=> Overlain(x)
  BY <1>7 DEF Overlain
<1>10. CallEffect(p)
  BY <1>7, <1>8, <1>9 DEF CallEffect
<1>11. OverlaysFollowTree' /\ LowerKnown'
  BY <1>6, <1>7 DEF Inv, OverlaysFollowTree, LowerKnown
<1>12. MountedOnMounted'
  <2> SUFFICES ASSUME NEW x \in Layer \ disturbed, OverlayOn(x)' # NoBase, base[base[x]] # NoBase
               PROVE  OverlayOn(base[x])' # NoBase
    BY <1>6 DEF MountedOnMounted, OverlayOn
  <2>1. OverlayOn(x) # NoBase /\ OverlayOn(base[x]) # NoBase
    BY <1>8 DEF Inv, MountedOnMounted
  <2>2. PICK z \in Layer : z = base[x]
    BY <2>1, OverlayStands
  <2>3. OverlayOn(z)' # NoBase
    BY <1>8, <2>1, <2>2
  <2>4. OverlayOn(base[x])' = OverlayOn(z)'
    BY <1>6, <2>2 DEF OverlayOn, Top
  <2> QED BY <2>3, <2>4
<1>13. Steady(p)'
  <2>1. CASE cmd[p].op \in Mounts
    <3>1. Head(calls[p]).at # "overlay"
      BY <1>1, ImportsAssumption DEF Import
    <3> QED BY <1>1, <1>5, <1>8, <2>1, <3>1, MountsOn
  <2>2. CASE cmd[p].op = "umount"
    <3>1. PICK x \in Layer : x = cmd[p].on
      BY <1>1, CommandType DEF Inv
    <3>2. Overlain(cmd[p].on)' <=> Overlain(x)'
      BY <1>6, <3>1 DEF Overlain
    <3> QED BY <1>1, <1>5, <1>9, <2>2, <3>1, <3>2, UnmountsOn
  <2> QED BY <1>1, <2>1, <2>2 DEF Inv, TypeInv, Phase
<1> QED BY <1>1, <1>5, <1>10, <1>11, <1>12, <1>13, CallKeeps

\* An overlay goes: none that is undisturbed stands on it.
LEMMA InvUnmountOverlay ==
    ASSUME Inv, TypeInv', NEW p \in Process, UnmountOverlay(p)
    PROVE  Inv'
<1>0. PICK l \in Layer : l = Head(calls[p]).on
  BY HeadCall DEF Inv, UnmountOverlay, NextCallIs
<1> DEFINE rs == SubSeq(roots[l], 1, Len(roots[l]) - 1)
<1>1. /\ pc[p] = "calls" /\ calls[p] # <<>> /\ Head(calls[p]).do = "umount"
      /\ OverlayOn(l) # NoBase /\ Called(p, rs)
      /\ Head(calls[p]) = calls[p][1] /\ 1 \in DOMAIN calls[p]
  BY <1>0, HeadCall DEF Inv, UnmountOverlay, NextCallIs
<1>2. /\ AtWork(p) /\ UNCHANGED <<layers, base, disturbed, cmd, needs>>
      /\ roots'[l] = rs /\ \A x \in Layer \ {l} : roots'[x] = roots[x]
  BY <1>0, <1>1, CalledMoves DEF Inv
<1>3. DOMAIN rs \subseteq DOMAIN roots[l] /\ \A k \in DOMAIN rs : rs[k] = roots[l][k]
  BY <1>1, LowerRoots DEF Inv
<1> HIDE DEF rs
<1>4. cmd[p].op = "umount" /\ cmd[p].on = l
  BY <1>0, <1>1, CallsWithin
<1>5. l \notin disturbed => ~Overlain(l)
  BY <1>1, <1>2, <1>4 DEF Inv, Steady, Cleared
<1>6. \A x \in Layer : \A k \in DOMAIN roots'[x] :
         k \in DOMAIN roots[x] /\ roots'[x][k] = roots[x][k]
  BY <1>2, <1>3
<1>7. \A x \in Layer : ~Overlain(x) => ~Overlain(x)'
  BY <1>6 DEF Overlain
<1>8. \A x \in Layer \ {l} : OverlayOn(x)' = OverlayOn(x)
  BY <1>2 DEF OverlayOn, Top
<1>9. CallEffect(p)
  <2> SUFFICES ASSUME NEW x \in Layer
               PROVE  /\ x \notin Alters(cmd[p]) /\ OverlayOn(x) # NoBase => OverlayOn(x)' # NoBase
                      /\ Len(roots[x]) = 1 => Len(roots'[x]) = 1
    BY <1>7 DEF CallEffect
  <2>1. x \notin Alters(cmd[p]) => x # l
    BY <1>4 DEF Alters, Mounts
  <2>2. Len(roots[x]) = 1 => x # l
    BY <1>1, StackType DEF Inv
  <2> QED BY <1>2, <1>8, <2>1, <2>2
<1>10. OverlaysFollowTree' /\ LowerKnown'
  BY <1>2, <1>6 DEF Inv, OverlaysFollowTree, LowerKnown
<1>11. MountedOnMounted'
  <2> SUFFICES ASSUME NEW x \in Layer \ disturbed, OverlayOn(x)' # NoBase, base[base[x]] # NoBase
               PROVE  OverlayOn(base[x])' # NoBase
    BY <1>2 DEF MountedOnMounted, OverlayOn
  <2>1. OverlayOn(x) # NoBase
    BY <1>1, <1>8
  <2>2. Len(roots[x]) \in DOMAIN roots[x] /\ OverlayOn(x) = roots[x][Len(roots[x])].lower
    BY StackType DEF Inv, OverlayOn
  <2>3. OverlayOn(x) = base[x] /\ base[x] \in Layer \ disturbed
    BY <2>1, OverlayStands
  <2>4. base[x] # l
    BY <1>5, <2>2, <2>3 DEF Overlain
  <2>5. OverlayOn(base[x]) # NoBase
    BY <2>1 DEF Inv, MountedOnMounted
  <2>6. roots'[base'[x]] = roots[base[x]]
    BY <1>2, <2>3, <2>4
  <2> QED BY <2>5, <2>6 DEF OverlayOn, Top
<1>12. Steady(p)'
  <2>1. Overlain(cmd[p].on)' <=> Overlain(l)'
    BY <1>2, <1>4 DEF Overlain
  <2> QED BY <1>1, <1>4, <1>7, <2>1, UnmountsOn
<1> QED BY <1>1, <1>9, <1>10, <1>11, <1>12, CallKeeps

-----------------------------------------------------------------------------
(* The writes.                                                             *)

\* A layer is written or removed that is disturbed or on which, and over which,
\* nothing is mounted.
LEMMA WriteKeeps ==
    ASSUME Inv, TypeInv', NEW p \in Process, AtWork(p), cmd[p].op \in Writes,
           Finish(p, "idle"), roots' = roots, disturbed \subseteq disturbed',
           Free(cmd[p].on) \/ cmd[p].on \in disturbed, ChangedAt(cmd[p].on),
           cmd[p].on \in layers' =>
               cmd[p].op \in {"add", "rebase"} /\ base'[cmd[p].on] = cmd[p].to,
           TreeInheritable'
    PROVE  Inv'
<1>1. PICK x \in Layer : x = cmd[p].on
  BY CommandType DEF Inv, AtWork
<1>2. pc'[p] = "idle" /\ \A q \in Process \ {p} : Unmoved(q)
  BY FinishMoves DEF Inv
<1>3. \A q \in Process \ {p} : Steady(q)'
  BY <1>2, OthersWrite
<1>4. Steady(p)'
  BY <1>2, SteadyIdle
<1>5. Apart'
  BY <1>2, ApartKept DEF AtWork, Unmoved
<1>6. \A z \in Layer \ {x} : (z \in layers' <=> z \in layers) /\ base'[z] = base[z]
  BY <1>1 DEF ChangedAt
<1>7. x \notin disturbed => DOMAIN roots[x] = {1} /\ Len(roots[x]) = 1 /\ ~Overlain(x)
  BY <1>1, StackType DEF Inv, Free
<1>8. OverlaysFollowTree'
  <2> SUFFICES ASSUME NEW z \in Layer \ disturbed', NEW k \in DOMAIN roots[z], k > 1
               PROVE  z \in layers' /\ roots[z][k].lower = base'[z]
    BY DEF OverlaysFollowTree
  <2>1. z \notin disturbed /\ z # x
    BY <1>7
  <2> QED BY <1>6, <2>1 DEF Inv, OverlaysFollowTree
<1>9. MountedOnMounted'
  <2> SUFFICES ASSUME NEW z \in Layer \ disturbed', OverlayOn(z) # NoBase, base'[base'[z]] # NoBase
               PROVE  OverlayOn(base'[z]) # NoBase
    BY DEF MountedOnMounted, OverlayOn, Top
  <2>1. z \in Layer \ disturbed
    OBVIOUS
  <2>2. Len(roots[z]) \in DOMAIN roots[z] /\ OverlayOn(z) = roots[z][Len(roots[z])].lower
    BY StackType DEF Inv, OverlayOn
  <2>3. OverlayOn(z) = base[z] /\ base[z] \in Layer \ disturbed
    BY <2>1, OverlayStands
  <2>4. z # x
    BY <1>7, <2>1, StackType DEF Inv
  <2>5. base[z] # x
    BY <1>7, <2>2, <2>3 DEF Overlain
  <2>6. base'[z] = base[z] /\ base'[base[z]] = base[base[z]]
    BY <1>6, <2>3, <2>4, <2>5
  <2> QED BY <2>1, <2>6 DEF Inv, MountedOnMounted
<1>10. LowerKnown'
  <2> SUFFICES ASSUME NEW c \in Layer, NEW k \in DOMAIN roots[c],
                      roots[c][k].lower \in Layer \ disturbed
               PROVE  roots[c][k].lower \in layers'
    BY DEF Inv, LowerKnown, TypeInv, TypeOK
  <2>1. roots[c][k].lower \in layers
    BY NoBaseAssumption DEF Inv, LowerKnown
  <2>2. roots[c][k].lower # x
    BY <1>7 DEF Overlain
  <2> QED BY <1>6, <2>1, <2>2
<1> QED BY <1>3, <1>4, <1>5, <1>8, <1>9, <1>10 DEF Inv

\* A tree does not depend on what is the base of a layer outside of it.
LEMMA InheritableSame ==
    ASSUME NEW L, NEW b, NEW c, Inheritable(L, b), \A l \in L : c[l] = b[l]
    PROVE  Inheritable(L, c)
BY DEF Inheritable, Closed, Acyclic

LEMMA InvWriteLayer ==
    ASSUME Inv, TypeInv', NEW p \in Process, WriteLayer(p)
    PROVE  Inv'
<1> DEFINE x == cmd[p].on
           y == cmd[p].to
           L == layers \ disturbed
<1>1. /\ pc[p] = "write" /\ cmd[p].op \in {"add", "rebase"} /\ Finish(p, "idle")
      /\ layers' = layers \cup {x} /\ base' = [base EXCEPT ![x] = y]
      /\ disturbed' = IF y \in disturbed THEN disturbed \cup DerivedFrom({x}) ELSE disturbed
      /\ roots' = roots /\ AtWork(p)
  BY DEF WriteLayer, AtWork
<1>2. x \in Layer /\ layers \subseteq Layer /\ base \in [Layer -> Layer \cup {NoBase}]
  BY <1>1, CommandType DEF Inv, TypeInv, TypeOK
<1>3. Planned(p) /\ Relied(p) /\ Cleared(p)
  BY DEF Inv, Steady
<1>4. y \in needs[p] \cup {NoBase} /\ x \notin needs[p] /\ (Free(x) \/ x \in disturbed)
  BY <1>1, <1>3 DEF Planned, Cleared
<1>5. \A a \in needs[p] \ disturbed : a \in layers /\ base[a] \in needs[p] \cup {NoBase}
  BY <1>1, <1>3 DEF Relied
<1>6. ChangedAt(x) /\ base'[x] = y /\ disturbed \subseteq disturbed'
  BY <1>1, <1>2 DEF ChangedAt
<1>7. Inheritable(L, base) /\ L \subseteq Layer /\ NoBase \notin L
  BY <1>2, NoBaseAssumption DEF Inv, TreeInheritable
<1> HIDE DEF x, y
<1>8. TreeInheritable'
  <2>1. CASE y \in disturbed
    <3> DEFINE M == layers \ (disturbed \cup DerivedFrom({x}))
    <3>1. Inheritable(M, base)
      BY DerivedKeepsTree
    <3>2. x \in DerivedFrom({x})
      BY <1>2 DEF DerivedFrom
    <3>3. layers' \ disturbed' = M /\ \A l \in M : base'[l] = base[l]
      BY <1>1, <1>2, <2>1, <3>2
    <3> QED BY <3>1, <3>3, InheritableSame DEF TreeInheritable
  <2>2. CASE y \notin disturbed /\ x \in disturbed
    <3>1. layers' \ disturbed' = L /\ \A l \in L : base'[l] = base[l]
      BY <1>1, <1>2, <2>2
    <3> QED BY <1>7, <3>1, InheritableSame DEF TreeInheritable
  <2>3. CASE y \notin disturbed /\ x \notin disturbed
    <3>1. y \in L \cup {NoBase}
      BY <1>4, <1>5, <2>3
    <3>2. ASSUME y \in L PROVE x \notin AncestorsAndSelf(L, base, y)
      <4> DEFINE S == L \cap needs[p]
      <4>1. S \in SUBSET L /\ y \in S /\ \A d \in S : base[d] \in L => base[d] \in S
        BY <1>4, <1>5, <1>7, <3>2
      <4> HIDE DEF S
      <4>2. AncestorsAndSelf(L, base, y) \subseteq S
        BY <4>1, ChainLeast
      <4> QED BY <1>4, <4>2 DEF S
    <3> HIDE DEF L
    <3>3. Inheritable(L \cup {x}, [base EXCEPT ![x] = y])
      BY <1>2, <1>7, <3>1, <3>2, InheritableWrite
    <3>4. layers' \ disturbed' = L \cup {x}
      BY <1>1, <2>3 DEF L
    <3> QED BY <1>1, <3>3, <3>4 DEF TreeInheritable
  <2> QED BY <2>1, <2>2, <2>3
<1> QED BY <1>1, <1>4, <1>6, <1>8, WriteKeeps DEF x, y, Writes

LEMMA InvRemoveLayer ==
    ASSUME Inv, TypeInv', NEW p \in Process, RemoveLayer(p)
    PROVE  Inv'
<1> DEFINE x == cmd[p].on
           L == layers \ disturbed
<1>1. /\ pc[p] = "write" /\ cmd[p].op = "remove" /\ Finish(p, "idle")
      /\ layers' = layers \ {x} /\ base' = [base EXCEPT ![x] = NoBase]
      /\ roots' = roots /\ disturbed' = disturbed /\ AtWork(p)
  BY DEF RemoveLayer, AtWork
<1>2. x \in Layer /\ layers \subseteq Layer /\ base \in [Layer -> Layer \cup {NoBase}]
  BY <1>1, CommandType DEF Inv, TypeInv, TypeOK
<1>3. x \in disturbed \/ (Children(layers, base, x) = {} /\ Free(x))
  BY <1>1 DEF Inv, Steady, Cleared
<1>4. ChangedAt(x) /\ x \notin layers'
  BY <1>1, <1>2 DEF ChangedAt
<1>5. Inheritable(L, base) /\ L \subseteq Layer
  BY <1>2 DEF Inv, TreeInheritable
<1> HIDE DEF x
<1>6. TreeInheritable'
  <2>1. CASE x \in L
    <3>1. Children(L, base, x) = {}
      BY <1>3, <2>1 DEF Children
    <3>2. layers' \ disturbed' = L \ {x}
      BY <1>1
    <3> HIDE DEF L
    <3>3. Inheritable(L \ {x}, [base EXCEPT ![x] = NoBase])
      BY <1>2, <1>5, <2>1, <3>1, InheritableRemove
    <3> QED BY <1>1, <3>2, <3>3 DEF TreeInheritable
  <2>2. CASE x \notin L
    <3>1. layers' \ disturbed' = L /\ \A l \in L : base'[l] = base[l]
      BY <1>1, <1>2, <2>2
    <3> QED BY <1>5, <3>1, InheritableSame DEF TreeInheritable
  <2> QED BY <2>1, <2>2
<1> QED BY <1>1, <1>3, <1>4, <1>6, WriteKeeps DEF x, Writes

-----------------------------------------------------------------------------
(* The invariant.                                                          *)

LEMMA InvInit == Init => Inv
<1> SUFFICES ASSUME Init PROVE Inv
  OBVIOUS
<1>1. TypeInv
  BY TypeInit
<1>2. PICK t \in Start : layers = t.layers /\ base = t.base
  BY DEF Init
<1>3. TreeInheritable
  <2>1. layers \ disturbed = layers
    BY DEF Init
  <2> QED BY <1>2, <2>1, StartAssumption DEF TreeInheritable
<1>4. \A l \in Layer : /\ roots[l] = Bare /\ Len(roots[l]) = 1 /\ DOMAIN roots[l] = {1}
                       /\ roots[l][1].lower = NoBase
  BY DEF Init, Bare, Directory
<1>5. OverlaysFollowTree /\ MountedOnMounted /\ LowerKnown
  BY <1>1, <1>4, StackType DEF OverlaysFollowTree, MountedOnMounted, LowerKnown
<1>6. \A p \in Process : ~AtWork(p) /\ pc[p] = "idle"
  BY DEF Init, AtWork
<1>7. \A p \in Process : Steady(p)
  BY <1>6 DEF Steady, Planned, Relied, Under, Cleared
<1> QED BY <1>1, <1>3, <1>5, <1>6, <1>7 DEF Inv, Apart

LEMMA InvNext ==
    ASSUME Inv, [Next]_vars
    PROVE  Inv'
<1>1. TypeInv'
  BY TypeNext DEF Inv
<1>2. ASSUME NEW p \in Process, Step(p) PROVE Inv'
  <2>1. CASE \E c \in Command : Begin(p, c) BY <1>1, <2>1, InvBegin
  <2>2. CASE List(p) \/ Look(p) \/ Scanned(p) BY <1>1, <2>2, InvScan
  <2>3. CASE ProbeForMount(p) BY <1>1, <2>3, InvProbeForMount
  <2>4. CASE ProbeForChroot(p) BY <1>1, <2>4, InvReadyToEnter
  <2>5. CASE ProbeForUnmount(p) BY <1>1, <2>5, InvProbeForUnmount
  <2>6. CASE ProbeForWrite(p) BY <1>1, <2>6, InvProbeForWrite
  <2>7. CASE MountOverlay(p) BY <1>1, <2>7, InvMountOverlay
  <2>8. CASE MountImport(p) \/ UnmountImport(p) BY <1>1, <2>8, InvImport
  <2>9. CASE UnmountOverlay(p) BY <1>1, <2>9, InvUnmountOverlay
  <2>10. CASE Refresh(p) BY <1>1, <2>10, InvRefresh
  <2>11. CASE Mounted(p) BY <1>1, <2>11, InvEnds, InvReadyToEnter
  <2>12. CASE Unmounted(p) \/ CallFails(p) \/ Refused(p) \/ Enter(p) \/ Leave(p)
    BY <1>1, <2>12, InvEnds
  <2>13. CASE WriteLayer(p) BY <1>1, <2>13, InvWriteLayer
  <2>14. CASE RemoveLayer(p) BY <1>1, <2>14, InvRemoveLayer
  <2> QED BY <1>2, <2>1, <2>2, <2>3, <2>4, <2>5, <2>6, <2>7, <2>8, <2>9, <2>10, <2>11,
             <2>12, <2>13, <2>14 DEF Step
<1>3. CASE UNCHANGED vars
  <2>1. UNCHANGED <<layers, base, roots, disturbed>> /\ \A q \in Process : Unmoved(q)
    BY <1>3 DEF vars, shared, local, Unmoved
  <2>2. \A q \in Process : Steady(q)'
    BY <2>1, OthersRest
  <2>3. Apart'
    BY <2>1, ApartKept DEF Unmoved, AtWork
  <2>4. TreeInheritable' /\ OverlaysFollowTree' /\ MountedOnMounted' /\ LowerKnown'
    BY <2>1 DEF Inv, TreeInheritable, OverlaysFollowTree, MountedOnMounted, LowerKnown,
                OverlayOn, Top
  <2> QED BY <1>1, <2>2, <2>3, <2>4 DEF Inv
<1> QED BY <1>2, <1>3 DEF Next

\* The chain of an undisturbed layer is undisturbed, and it is mounted when the
\* layer is, as each overlay stands on one, down to the base layer.
LEMMA ChainClean ==
    ASSUME Inv, NEW l \in layers \ disturbed
    PROVE  Chain(l) \subseteq layers \ disturbed
<1> DEFINE S == layers \ disturbed
<1>1. S \in SUBSET layers /\ l \in S /\ \A d \in S : base[d] \in layers => base[d] \in S
  BY BaseUndisturbed
<1> HIDE DEF S
<1>2. AncestorsAndSelf(layers, base, l) \subseteq S
  BY <1>1, ChainLeast
<1> QED BY <1>2 DEF Chain, S

LEMMA ChainsStand == Inv => ChainsMounted
<1> SUFFICES ASSUME Inv, NEW l \in Layer \ disturbed, OverlayOn(l) # NoBase,
                    NEW a \in Chain(l), base[a] # NoBase
             PROVE  OverlayOn(a) # NoBase
  BY DEF ChainsMounted
<1> DEFINE S == {z \in layers \ disturbed : base[z] # NoBase => OverlayOn(z) # NoBase}
<1>1. S \in SUBSET layers /\ l \in S
  BY OverlayStands
<1>2. \A d \in S : base[d] \in layers => base[d] \in S
  <2> SUFFICES ASSUME NEW d \in S, base[d] \in layers, base[base[d]] # NoBase
               PROVE  base[d] \in layers \ disturbed /\ OverlayOn(base[d]) # NoBase
    BY BaseUndisturbed
  <2>1. d \in Layer \ disturbed /\ base[d] # NoBase /\ base[d] \notin disturbed
    BY BaseUndisturbed, NoBaseAssumption DEF Inv, TypeInv, TypeOK
  <2> QED BY <2>1 DEF Inv, MountedOnMounted
<1> HIDE DEF S
<1>3. AncestorsAndSelf(layers, base, l) \subseteq S
  BY <1>1, <1>2, ChainLeast
<1>4. a \in S
  BY <1>3 DEF Chain
<1> QED BY <1>4 DEF S

\* The invariant holds for any number of commands at work at the same time.
LEMMA AlwaysInv == Spec => []Inv
<1>1. Inv /\ [Next]_vars => Inv'
  BY InvNext
<1> QED BY <1>1, InvInit, PTL DEF Spec

\* No two rebases, and no add with a remove, leave a tree that checkInheritance
\* refuses, but for the layers that they have disturbed, although each command
\* has only checked the tree that it has read.
THEOREM TreeStaysInheritable == Spec => []TreeInheritable
<1>1. Inv => TreeInheritable
  BY DEF Inv
<1> QED BY <1>1, AlwaysInv, PTL

\* A mount command that has read the mount table before another mounts, unmounts
\* or writes still gives every overlay of an undisturbed layer the base that its
\* layerconfig names.
THEOREM OverlaysFollow == Spec => []OverlaysFollowTree
<1>1. Inv => OverlaysFollowTree
  BY DEF Inv
<1> QED BY <1>1, AlwaysInv, PTL

\* However the system calls of mount and umount commands mix, no undisturbed
\* layer is mounted on one that is not.
THEOREM ChainsStayMounted == Spec => []ChainsMounted
<1>1. Inv => ChainsMounted
  BY ChainsStand
<1> QED BY <1>1, AlwaysInv, PTL

-----------------------------------------------------------------------------
(* What a shell has in its root and below.                                 *)

\* The layer is mounted, if it is a derived one.
Stands(l) == l \in layers /\ (base[l] # NoBase => OverlayOn(l) # NoBase)

\* Process q has yet to look at the shell p, or has found it.
Finds(q, p) == \/ pc[q] = "list"
               \/ pc[q] = "scan" /\ (p \in listed[q] \/ cmd[p].on \in users[q])
               \/ pc[q] = "probe" /\ cmd[p].on \in users[q]

\* A command that has found the layer mounted, or has mounted it, is about to
\* enter it.  While the shell is there, every command that would alter the
\* layer has yet to look at the shell, or has found it.
Entering(p) == pc[p] = "enter" =>
    cmd[p].op \in Mounts /\ (cmd[p].on \notin disturbed => Stands(cmd[p].on))
Shell(p) == pc[p] = "inside" /\ cmd[p].on \notin disturbed =>
    /\ Stands(cmd[p].on)
    /\ \A q \in Process : AtWork(q) /\ cmd[q].op \notin Mounts /\ cmd[q].on = cmd[p].on =>
          cmd[q].op # "add" /\ Finds(q, p)
ShellInv == \A p \in Process : Entering(p) /\ Shell(p)

\* Whoever moves, the other processes stay where they are.
LEMMA OthersStay ==
    ASSUME TypeInv, NEW p \in Process, NEW q \in Process \ {p}, Step(p)
    PROVE  /\ pc'[q] = pc[q] /\ cmd'[q] = cmd[q] /\ needs'[q] = needs[q]
           /\ users'[q] = users[q] /\ inside'[q] = inside[q] /\ calls'[q] = calls[q]
           /\ \A s \in listed[q] : s # p => s \in listed'[q]
           /\ disturbed \subseteq disturbed'
<1>1. /\ q \in DOMAIN pc /\ q \in DOMAIN cmd /\ q \in DOMAIN needs /\ q \in DOMAIN users
      /\ q \in DOMAIN inside /\ q \in DOMAIN calls /\ q \in DOMAIN listed /\ q # p
  BY DEF TypeInv, TypeOK
<1>2. CASE \E c \in Command : Begin(p, c)
  BY <1>1, <1>2 DEF Begin, Goto
<1>3. CASE List(p) \/ Look(p) \/ Scanned(p)
  BY <1>1, <1>3 DEF List, Look, Scanned, Goto, shared, local
<1>4. CASE /\ \E chain : MountNext(p, chain)
           /\ UNCHANGED <<disturbed, cmd, needs, listed, inside>>
  BY <1>1, <1>4 DEF MountNext, Goto
<1>5. CASE ProbeForUnmount(p)
  BY <1>1, <1>5 DEF ProbeForUnmount, Forget, Goto, shared
<1>6. CASE /\ \E label : Finish(p, label)
           /\ UNCHANGED inside \/ \E n : inside' = [inside EXCEPT ![p] = n]
           /\ disturbed \subseteq disturbed'
  <2>1. PICK label : Finish(p, label)
    BY <1>6
  <2>2. inside'[q] = inside[q]
    BY <1>1, <1>6
  <2>3. /\ pc' = [pc EXCEPT ![p] = label]
        /\ cmd' = IF label = "idle" THEN [cmd EXCEPT ![p] = NoCommand] ELSE cmd
        /\ needs' = IF label \in {"idle", "inside"} THEN [needs EXCEPT ![p] = {}] ELSE needs
        /\ listed'[q] = listed[q] \ {p}
        /\ users' = [users EXCEPT ![p] = {}] /\ calls' = [calls EXCEPT ![p] = <<>>]
    BY <1>1, <2>1 DEF Finish, Leaves, Forget, Goto
  <2> QED BY <1>1, <1>6, <2>2, <2>3
<1>7. CASE \E rs : Called(p, rs)
  BY <1>1, <1>7 DEF Called
<1>8. \/ \E c \in Command : Begin(p, c)
      \/ List(p) \/ Look(p) \/ Scanned(p)
      \/ /\ \E chain : MountNext(p, chain)
         /\ UNCHANGED <<disturbed, cmd, needs, listed, inside>>
      \/ ProbeForUnmount(p)
      \/ /\ \E label : Finish(p, label)
         /\ UNCHANGED inside \/ \E n : inside' = [inside EXCEPT ![p] = n]
         /\ disturbed \subseteq disturbed'
      \/ \E rs : Called(p, rs)
  <2>1. CASE ProbeForMount(p) \/ Refresh(p)
    BY <2>1 DEF ProbeForMount, Refresh, shared
  <2>2. CASE Enter(p) \/ Leave(p)
    BY <2>2 DEF Enter, Leave, shared
  <2>3. CASE \/ ProbeForChroot(p) \/ Mounted(p) \/ Unmounted(p) \/ CallFails(p)
             \/ ProbeForWrite(p) \/ WriteLayer(p) \/ RemoveLayer(p) \/ Refused(p)
    BY <2>3 DEF ProbeForChroot, Mounted, Unmounted, CallFails, ProbeForWrite, WriteLayer,
                RemoveLayer, Refused, shared
  <2>4. CASE \/ MountOverlay(p) \/ MountImport(p) \/ UnmountImport(p) \/ UnmountOverlay(p)
    BY <2>4 DEF MountOverlay, MountImport, UnmountImport, UnmountOverlay
  <2> QED BY <2>1, <2>2, <2>3, <2>4 DEF Step
<1> QED BY <1>2, <1>3, <1>4, <1>5, <1>6, <1>7, <1>8

\* After a step, too, an overlay is on top when there are several roots.
LEMMA StackTypeNext ==
    ASSUME TypeInv', NEW l \in Layer
    PROVE  OverlayOn(l)' = NoBase <=> Len(roots'[l]) = 1
<1>1. roots'[l] \in Seq(Root) /\ roots'[l] # <<>>
  BY DEF TypeInv, TypeOK
<1> HIDE DEF Root
<1>2. Len(roots'[l]) \in DOMAIN roots'[l]
  BY <1>1
<1>3. Len(roots'[l]) = 1 <=> roots'[l][Len(roots'[l])].lower = NoBase
  BY <1>2 DEF TypeInv, Stacks
<1>4. OverlayOn(l)' = roots'[l][Len(roots'[l])].lower
  BY DEF OverlayOn, Top, Last
<1> QED BY <1>3, <1>4

\* A process unmounts layer l.
Unmounts(p, l) == pc[p] = "calls" /\ cmd[p].op = "umount" /\ cmd[p].on = l

\* The roots of a layer that the command does not unmount only grow.
LEMMA RootsGrow ==
    ASSUME Inv, NEW p \in Process, Step(p), NEW a \in Layer, ~Unmounts(p, a)
    PROVE  /\ Len(roots'[a]) >= Len(roots[a])
           /\ \A k \in DOMAIN roots[a], i \in Import : roots'[a][k].bound[i] >= roots[a][k].bound[i]
<1> DEFINE n == Len(roots[a])
<1>1. /\ roots[a] \in Seq(Root) /\ n \in Nat \ {0} /\ DOMAIN roots[a] = 1 .. n
      /\ \A k \in 1 .. n, i \in Import : roots[a][k].bound[i] \in Nat
  <2>1. roots[a] \in Seq(Root) /\ n \in Nat \ {0} /\ DOMAIN roots[a] = 1 .. n
    BY StackType DEF Inv
  <2>2. \A k \in 1 .. n : roots[a][k] \in Root
    <3> HIDE DEF Root
    <3> QED BY <2>1
  <2> QED BY <2>1, <2>2 DEF Root
<1> HIDE DEF Root
<1>2. CASE roots'[a] = roots[a]
  BY <1>1, <1>2
<1>3. CASE MountOverlay(p) /\ Head(calls[p]).on = a
  <2> DEFINE r == [Directory EXCEPT !.lower = OwnBase(p, a)]
  <2>1. roots'[a] = Append(roots[a], r)
    BY <1>3, CalledMoves DEF MountOverlay, NextCallIs, Inv
  <2> HIDE DEF r
  <2>2. Len(roots'[a]) = n + 1 /\ \A k \in 1 .. n : roots'[a][k] = roots[a][k]
    BY <1>1, <2>1, AppendAt
  <2> HIDE DEF n
  <2> QED BY <1>1, <2>2
<1>4. CASE MountImport(p) /\ Head(calls[p]).on = a
  <2> DEFINE j == Head(calls[p]).at
             m == Top(a).bound[j] + 1
             rs == WithBound(a, j, m)
  <2>1. roots'[a] = rs /\ j \in Import /\ Top(a).bound[j] = roots[a][n].bound[j]
    BY <1>4, CalledMoves DEF MountImport, NextCallIs, Inv, Top, Last
  <2>2. m \in Nat /\ m >= roots[a][n].bound[j]
    <3>1. n \in 1 .. n
      BY <1>1
    <3>2. roots[a][n].bound[j] \in Nat
      BY <1>1, <2>1, <3>1
    <3> DEFINE x == roots[a][n].bound[j]
    <3>3. m = x + 1 /\ x \in Nat
      BY <2>1, <3>2
    <3> HIDE DEF m, x
    <3>4. m \in Nat /\ m >= x
      BY <3>3
    <3> QED BY <3>4 DEF x
  <2>3. Len(rs) = n
    BY <2>1, <2>2, WithBoundType DEF Inv
  <2>4. ASSUME NEW k \in 1 .. n, NEW i \in Import
        PROVE  rs[k].bound[i] >= roots[a][k].bound[i]
    <3>1. roots[a][n] \in Root
      BY <1>1
    <3>2. CASE k # n
      BY <1>1, <3>2 DEF WithBound
    <3>3. CASE k = n
      <4>1. rs[n].bound = [roots[a][n].bound EXCEPT ![j] = m]
        <5> HIDE DEF m, j
        <5> QED BY <1>1, <3>1 DEF WithBound, Root
      <4>2. roots[a][n].bound \in [Import -> Nat]
        BY <3>1 DEF Root
      <4> HIDE DEF m, j, rs
      <4> QED BY <2>1, <2>2, <3>3, <4>1, <4>2
    <3> QED BY <3>2, <3>3
  <2> HIDE DEF rs
  <2> QED BY <1>1, <2>1, <2>3, <2>4
<1>5. \/ roots'[a] = roots[a]
      \/ (MountOverlay(p) \/ MountImport(p)) /\ Head(calls[p]).on = a
  <2>1. CASE \/ MountOverlay(p) \/ MountImport(p) \/ UnmountImport(p) \/ UnmountOverlay(p)
    <3>1. /\ pc[p] = "calls" /\ calls[p] # <<>> /\ \E rs : Called(p, rs)
          /\ UnmountImport(p) \/ UnmountOverlay(p) => Head(calls[p]).do = "umount"
      BY <2>1 DEF MountOverlay, MountImport, UnmountImport, UnmountOverlay, NextCallIs
    <3>2. PICK rs : Called(p, rs)
      BY <3>1
    <3>3. Head(calls[p]).on # a => roots'[a] = roots[a]
      BY <3>1, <3>2, CalledMoves DEF Inv
    <3>4. UnmountImport(p) \/ UnmountOverlay(p) => Head(calls[p]).on # a
      BY <3>1, CallsWithin DEF Unmounts
    <3> QED BY <2>1, <3>3, <3>4
  <2>2. CASE ~(MountOverlay(p) \/ MountImport(p) \/ UnmountImport(p) \/ UnmountOverlay(p))
    BY <2>2 DEF Step, Begin, List, Look, Scanned, ProbeForMount, Refresh, ProbeForUnmount, ProbeForChroot,
         Mounted, Unmounted, CallFails, ProbeForWrite, WriteLayer, RemoveLayer, Refused,
         Enter, Leave, shared
  <2> QED BY <2>1, <2>2
<1> QED BY <1>2, <1>3, <1>4, <1>5

\* A layer that stands, and that no command unmounts or writes, stands.
LEMMA StandsOn ==
    ASSUME Inv, TypeInv', NEW p \in Process, Step(p), NEW x \in Layer, Stands(x),
           ~Unmounts(p, x),
           pc[p] = "write" => cmd[p].on # x
    PROVE  Stands(x)'
<1>1. OverlayOn(x) # NoBase => OverlayOn(x)' # NoBase
  <2>1. Len(roots[x]) \in Nat \ {0} /\ (OverlayOn(x) = NoBase <=> Len(roots[x]) = 1)
    BY StackType DEF Inv
  <2>2. Len(roots'[x]) >= Len(roots[x]) /\ (OverlayOn(x)' = NoBase <=> Len(roots'[x]) = 1)
    BY RootsGrow, StackTypeNext
  <2>3. Len(roots'[x]) \in Nat
    <3>1. roots'[x] \in Seq(Root)
      BY DEF TypeInv, TypeOK
    <3> HIDE DEF Root
    <3> QED BY <3>1
  <2>4. PICK m \in Nat, n \in Nat : m = Len(roots[x]) /\ n = Len(roots'[x])
    BY <2>1, <2>3
  <2>5. n >= m /\ m # 0
    BY <2>1, <2>2, <2>4
  <2>6. m # 1 => n # 1
    BY <2>5
  <2> QED BY <2>1, <2>2, <2>4, <2>6
<1>2. x \in layers' /\ base'[x] = base[x]
  <2>1. x \in layers /\ base \in [Layer -> Layer \cup {NoBase}]
    BY DEF Stands, Inv, TypeInv, TypeOK
  <2>2. CASE WriteLayer(p) \/ RemoveLayer(p)
    BY <2>1, <2>2 DEF WriteLayer, RemoveLayer
  <2>3. CASE ~(WriteLayer(p) \/ RemoveLayer(p))
    <3>1. UNCHANGED <<layers, base>>
      BY <2>3 DEF Step, Begin, List, Look, Scanned, ProbeForMount, Refresh, ProbeForUnmount, ProbeForChroot,
         Mounted, Unmounted, CallFails, ProbeForWrite, Refused, Enter, Leave, shared,
         MountOverlay, MountImport, UnmountImport, UnmountOverlay, Called
    <3> QED BY <2>1, <3>1
  <2> QED BY <2>2, <2>3
<1> QED BY <1>1, <1>2 DEF Stands

\* A command comes to its last step, and enters, by these steps only.
LEMMA WaysIn ==
    ASSUME TypeInv, NEW p \in Process, Step(p)
    PROVE  /\ pc'[p] = "enter" => ProbeForChroot(p) \/ (Mounted(p) /\ cmd[p].op = "chroot")
           /\ pc'[p] = "inside" => Enter(p)
<1>1. p \in DOMAIN pc
  BY DEF TypeInv, TypeOK
<1>2. CASE \/ \E c \in Command : Begin(p, c)
           \/ List(p) \/ Look(p) \/ Scanned(p) \/ ProbeForUnmount(p)
  BY <1>1, <1>2 DEF Begin, List, Look, Scanned, ProbeForUnmount, Goto
<1>3. CASE ProbeForMount(p) \/ Refresh(p)
  BY <1>1, <1>3 DEF ProbeForMount, Refresh, MountNext, Goto
<1>4. CASE Unmounted(p) \/ CallFails(p) \/ WriteLayer(p) \/ RemoveLayer(p) \/ Refused(p) \/ Leave(p)
  BY <1>1, <1>4 DEF Unmounted, CallFails, WriteLayer, RemoveLayer, Refused, Leave, Finish, Leaves, Goto
<1>5. CASE ProbeForWrite(p) \/ Mounted(p) \/ ProbeForChroot(p) \/ Enter(p)
  BY <1>1, <1>5 DEF ProbeForWrite, Mounted, ProbeForChroot, Enter, Finish, Leaves, Goto
<1>6. CASE MountOverlay(p) \/ MountImport(p) \/ UnmountImport(p) \/ UnmountOverlay(p)
  BY <1>1, <1>6 DEF MountOverlay, MountImport, UnmountImport, UnmountOverlay, Called, NextCallIs
<1> QED BY <1>2, <1>3, <1>4, <1>5, <1>6 DEF Step

\* A command that goes on is the one that was at work.
LEMMA StillAtWork ==
    ASSUME TypeInv, NEW p \in Process, Step(p), ~\E c \in Command : Begin(p, c),
           pc'[p] \notin {"idle", "inside"}
    PROVE  pc[p] \notin {"idle", "inside"} /\ cmd'[p] = cmd[p]
<1>1. p \in DOMAIN pc
  BY DEF TypeInv, TypeOK
<1>2. CASE List(p) \/ Look(p) \/ Scanned(p) \/ ProbeForUnmount(p) \/ ProbeForMount(p) \/ Refresh(p)
  BY <1>2 DEF List, Look, Scanned, local, ProbeForUnmount, ProbeForMount, Refresh
<1>3. CASE Unmounted(p) \/ CallFails(p) \/ WriteLayer(p) \/ RemoveLayer(p) \/ Refused(p) \/ Leave(p)
  BY <1>1, <1>3 DEF Unmounted, CallFails, WriteLayer, RemoveLayer, Refused, Leave, Finish, Leaves, Goto
<1>4. CASE ProbeForWrite(p) \/ Mounted(p) \/ ProbeForChroot(p) \/ Enter(p)
  BY <1>1, <1>4 DEF ProbeForWrite, Mounted, ProbeForChroot, Enter, Finish, Leaves, Goto
<1>5. CASE MountOverlay(p) \/ MountImport(p) \/ UnmountImport(p) \/ UnmountOverlay(p)
  BY <1>5 DEF MountOverlay, MountImport, UnmountImport, UnmountOverlay, Called, NextCallIs
<1> QED BY <1>2, <1>3, <1>4, <1>5 DEF Step

\* What a command relies on no other unmounts or writes, but for disturbed layers.
LEMMA NeededIsLeft ==
    ASSUME Inv, NEW p \in Process, NEW q \in Process \ {p}, AtWork(p),
           NEW x \in needs[p] \ disturbed
    PROVE  /\ AtWork(q) /\ cmd[q].op \notin Mounts => cmd[q].on # x
           /\ ~Unmounts(q, x) /\ (pc[q] = "write" => cmd[q].on # x)
<1>1. AtWork(q) /\ cmd[q].op \notin Mounts => cmd[q].on # x
  BY NotNeeded
<1>2. ~Unmounts(q, x)
  BY <1>1 DEF Unmounts, AtWork, Mounts
<1>3. pc[q] = "write" => cmd[q].on # x
  BY <1>1 DEF Inv, TypeInv, Phase, AtWork, Mounts, Writes
<1> QED BY <1>1, <1>2, <1>3

\* The layer that a mounting command is for is among those that it relies on.
LEMMA NeedsOwn ==
    ASSUME Inv, NEW p \in Process, AtWork(p), cmd[p].op \in Mounts
    PROVE  /\ cmd[p].on \in needs[p] /\ cmd[p].on \in Layer
           /\ cmd[p].on \notin disturbed => cmd[p].on \in layers
<1>1. cmd[p].on \in needs[p] /\ needs[p] \subseteq Layer
  BY DEF Inv, Steady, Planned, TypeInv, TypeOK
<1> QED BY <1>1 DEF Inv, Steady, Relied

LEMMA EnteringNext ==
    ASSUME Inv, TypeInv', NEW p \in Process, Entering(p), NEW q \in Process, Step(q)
    PROVE  Entering(p)'
<1> SUFFICES ASSUME pc'[p] = "enter"
             PROVE  cmd'[p].op \in Mounts /\ (cmd'[p].on \notin disturbed' => Stands(cmd[p].on)')
  BY DEF Entering
<1> DEFINE l == cmd[p].on
<1>1. CASE q = p
  <2>1. /\ ProbeForChroot(p) \/ (Mounted(p) /\ cmd[p].op = "chroot")
        /\ cmd[p].op = "chroot" /\ AtWork(p)
        /\ UNCHANGED <<layers, base, roots, disturbed>> /\ Finish(p, "enter")
    BY <1>1, WaysIn DEF Inv, ProbeForChroot, Mounted, AtWork, shared
  <2>2. cmd'[p] = cmd[p]
    BY <2>1, FinishMoves DEF Inv
  <2>3. l \in needs[p] /\ (l \notin disturbed => l \in layers)
    BY <2>1, NeedsOwn DEF Mounts
  <2>4. l \notin disturbed /\ base[l] # NoBase => OverlayOn(l) # NoBase
    <3>1. CASE ProbeForChroot(p)
      <4>1. l \notin disturbed => tree[p].base[l] = base[l]
        BY <2>1, <2>3, <3>1 DEF ProbeForChroot, Inv, Steady, Relied, Reads
      <4> QED BY <3>1, <4>1 DEF ProbeForChroot, CountsAsMounted, OwnBase
    <3>2. CASE Mounted(p)
      <4>1. Under(p) /\ calls[p] = <<>> /\ todo[p] = <<>> /\ pc[p] = "calls"
        BY <3>2 DEF Mounted, Inv, Steady
      <4>2. DOMAIN todo[p] = {}
        <5>1. DOMAIN <<>> = {}
          OBVIOUS
        <5> QED BY <4>1, <5>1
      <4> QED BY <2>1, <2>3, <4>1, <4>2 DEF Under, Mounts
    <3> QED BY <2>1, <3>1, <3>2
  <2> QED BY <2>1, <2>2, <2>3, <2>4 DEF Stands, Mounts, OverlayOn, Top
<1>2. CASE q # p
  <2>1. pc[p] = "enter" /\ cmd'[p] = cmd[p] /\ AtWork(p) /\ disturbed \subseteq disturbed'
    BY <1>2, OthersStay DEF Inv, AtWork
  <2>2. cmd[p].op \in Mounts
    BY <2>1 DEF Entering
  <2> SUFFICES ASSUME l \notin disturbed' PROVE Stands(cmd[p].on)'
    BY <2>1, <2>2
  <2>3. l \in Layer /\ l \in needs[p] \ disturbed /\ Stands(l)
    BY <2>1, <2>2, NeedsOwn DEF Entering
  <2>4. ~Unmounts(q, l) /\ (pc[q] = "write" => cmd[q].on # l)
    BY <1>2, <2>1, <2>3, NeededIsLeft
  <2>5. PICK x \in Layer : x = l
    BY <2>3
  <2>6. Stands(x)'
    BY <2>3, <2>4, <2>5, StandsOn
  <2>7. Stands(cmd[p].on)' <=> Stands(x)'
    BY <2>1, <2>5 DEF Stands, OverlayOn, Top
  <2> QED BY <2>6, <2>7
<1> QED BY <1>1, <1>2

LEMMA ShellNext ==
    ASSUME Inv, TypeInv', NEW p \in Process, Entering(p), Shell(p), NEW q \in Process, Step(q)
    PROVE  Shell(p)'
<1> SUFFICES ASSUME pc'[p] = "inside", cmd'[p].on \notin disturbed'
             PROVE  /\ Stands(cmd[p].on)'
                    /\ \A r \in Process :
                          AtWork(r)' /\ cmd'[r].op \notin Mounts /\ cmd'[r].on = cmd'[p].on =>
                             cmd'[r].op # "add" /\ Finds(r, p)'
  BY DEF Shell
<1> DEFINE l == cmd[p].on
<1>1. CASE q = p
  <2>1. /\ pc[p] = "enter" /\ Finish(p, "inside") /\ AtWork(p)
        /\ UNCHANGED <<layers, base, roots, disturbed>>
    BY <1>1, WaysIn DEF Inv, Enter, shared, AtWork
  <2>2. cmd'[p] = cmd[p]
    BY <2>1, FinishMoves DEF Inv
  <2>3. l \notin disturbed /\ Stands(l) /\ l \in needs[p] \ disturbed
    BY <2>1, <2>2, NeedsOwn DEF Entering
  <2>4. Stands(cmd[p].on)'
    BY <2>1, <2>2, <2>3 DEF Stands, OverlayOn, Top
  <2>5. ASSUME NEW r \in Process, AtWork(r)', cmd'[r].op \notin Mounts
        PROVE  cmd'[r].on # l
    <3>1. r # p
      BY <2>5 DEF AtWork
    <3>2. AtWork(r) /\ cmd'[r] = cmd[r]
      BY <1>1, <2>5, <3>1, OthersStay DEF Inv, AtWork
    <3> QED BY <2>1, <2>3, <2>5, <3>1, <3>2, NeededIsLeft
  <2> QED BY <2>2, <2>4, <2>5
<1>2. CASE q # p
  <2>1. /\ pc[p] = "inside" /\ cmd'[p] = cmd[p] /\ disturbed \subseteq disturbed'
        /\ l \notin disturbed
    BY <1>2, OthersStay DEF Inv
  <2>2. /\ Stands(l)
        /\ \A r \in Process : AtWork(r) /\ cmd[r].op \notin Mounts /\ cmd[r].on = l =>
              cmd[r].op # "add" /\ Finds(r, p)
    BY <2>1 DEF Shell
  <2>3. l \in Layer /\ l \in layers
    BY <2>2 DEF Stands, Inv, TypeInv, TypeOK
  <2>4. ~Unmounts(q, l) /\ (pc[q] = "write" => cmd[q].on # l)
    BY <2>2 DEF Unmounts, Finds, AtWork, Mounts, Writes, Inv, TypeInv, Phase
  <2>5. Stands(cmd[p].on)'
    <3>1. PICK x \in Layer : x = l
      BY <2>3
    <3>2. Stands(x)'
      BY <2>2, <2>4, <3>1, StandsOn
    <3> QED BY <2>1, <3>1, <3>2 DEF Stands, OverlayOn, Top
  <2>6. ASSUME NEW r \in Process, AtWork(r)', cmd'[r].op \notin Mounts, cmd'[r].on = l
        PROVE  cmd'[r].op # "add" /\ Finds(r, p)'
    <3>1. CASE r # q
      <4>1. /\ pc'[r] = pc[r] /\ cmd'[r] = cmd[r] /\ users'[r] = users[r]
            /\ p \in listed[r] => p \in listed'[r]
        BY <1>2, <3>1, OthersStay DEF Inv
      <4>2. cmd[r].op # "add" /\ Finds(r, p)
        BY <2>2, <2>6, <4>1 DEF AtWork
      <4> QED BY <2>1, <4>1, <4>2 DEF Finds
    <3>2. CASE r = q /\ \E c \in Command : Begin(q, c)
      <4>1. PICK c \in Command : Begin(q, c)
        BY <3>2
      <4>2. pc'[q] = "list" /\ cmd'[q] = c
        BY <4>1 DEF Begin, Goto, Inv, TypeInv, TypeOK
      <4>3. c.op # "add"
        BY <2>3, <2>6, <3>2, <4>1, <4>2 DEF Begin
      <4> QED BY <3>2, <4>2, <4>3 DEF Finds
    <3>3. CASE r = q /\ ~\E c \in Command : Begin(q, c)
      <4>1. AtWork(q) /\ cmd'[q] = cmd[q] /\ pc'[q] \notin {"idle", "inside"}
        BY <2>6, <3>3, StillAtWork DEF Inv, AtWork
      <4>2. /\ cmd[q].op \notin Mounts /\ cmd[q].on = l /\ cmd[q].op # "add"
            /\ Finds(q, p)
        BY <2>2, <2>6, <3>3, <4>1
      <4>3. CASE pc[q] \in {"list", "scan"}
        <5>1. List(q) \/ Look(q) \/ Scanned(q)
          <6>1. ~Refused(q)
            <7>1. Refused(q) => pc'[q] = "idle"
              BY FinishMoves DEF Refused, Inv
            <7> QED BY <4>1, <7>1
          <6> QED BY <3>3, <4>3, <6>1 DEF Step, ProbeForMount, Refresh, ProbeForUnmount,
             ProbeForChroot, Mounted, Unmounted, CallFails, ProbeForWrite, WriteLayer, RemoveLayer,
             Enter, Leave, MountOverlay, MountImport, UnmountImport, UnmountOverlay, NextCallIs
        <5>2. /\ q \in DOMAIN pc /\ q \in DOMAIN listed /\ q \in DOMAIN users
          BY DEF Inv, TypeInv, TypeOK
        <5>3. CASE List(q)
          <6>1. p \in {s \in Process : pc[s] = "inside"}
            BY <2>1
          <6>2. pc'[q] = "scan" /\ p \in listed'[q]
            BY <5>2, <5>3, <6>1 DEF List, Goto
          <6> QED BY <3>3, <4>1, <4>2, <6>2 DEF Finds
        <5>4. CASE Look(q)
          <6>1. /\ pc[q] = "scan" /\ pc' = pc
                /\ \E s \in listed[q] : /\ listed'[q] = listed[q] \ {s}
                                        /\ users'[q] = users[q] \cup {cmd[s].on}
            BY <5>2, <5>4 DEF Look
          <6> QED BY <2>1, <3>3, <4>1, <4>2, <6>1 DEF Finds
        <5>5. CASE Scanned(q)
          <6>1. /\ pc[q] = "scan" /\ listed[q] = {} /\ pc'[q] = "probe" /\ users' = users
            BY <5>2, <5>5 DEF Scanned, Goto, local
          <6> QED BY <2>1, <3>3, <4>1, <4>2, <6>1 DEF Finds
        <5> QED BY <3>3, <4>1, <4>2, <5>1, <5>3, <5>4, <5>5
      <4>4. CASE pc[q] = "probe" /\ l \in users[q]
        <5>1. Busy(q, cmd[q].on) /\ MountsBusy(q, cmd[q].on)
          BY <4>2, <4>4 DEF Busy, MountsBusy
        <5>2. cmd[q].op \in Writes => ~MayWrite(q)
          <6>1. ~MayRemove(q, cmd[q].on) /\ ~MayRebase(q, cmd[q].on, cmd[q].to)
            BY <5>1 DEF MayRemove, MayRebase
          <6>2. cmd[q].op \in Writes => cmd[q].op = "remove" \/ cmd[q].op = "rebase"
            BY <4>2 DEF Writes
          <6>3. cmd[q].op = "remove" => ~MayWrite(q)
            BY <6>1 DEF MayWrite
          <6>4. cmd[q].op = "rebase" => ~MayWrite(q)
            BY <6>1 DEF MayWrite
          <6> QED BY <6>2, <6>3, <6>4
        <5>3. Refused(q)
          BY <3>3, <4>2, <4>4, <5>1, <5>2 DEF Step, List, Look, Scanned, ProbeForMount, Refresh,
             ProbeForUnmount, ProbeForChroot, Mounted, Unmounted, CallFails, ProbeForWrite,
             WriteLayer, RemoveLayer, Enter, Leave, MountOverlay, MountImport, UnmountImport,
             UnmountOverlay, NextCallIs, Mounts
        <5>4. pc'[q] = "idle"
          BY <5>3, FinishMoves DEF Refused, Inv
        <5> QED BY <4>1, <5>4
      <4> QED BY <4>2, <4>3, <4>4 DEF Finds
    <3> QED BY <3>1, <3>2, <3>3
  <2> QED BY <2>1, <2>5, <2>6
<1> QED BY <1>1, <1>2

LEMMA ShellInvNext ==
    ASSUME Inv, ShellInv, [Next]_vars
    PROVE  ShellInv'
<1>1. TypeInv'
  BY TypeNext DEF Inv
<1>2. CASE Next
  <2>1. PICK q \in Process : Step(q)
    BY <1>2 DEF Next
  <2> QED BY <1>1, <2>1, EnteringNext, ShellNext DEF ShellInv
<1>3. CASE UNCHANGED vars
  BY <1>3 DEF ShellInv, Entering, Shell, Finds, Stands, OverlayOn, Top, AtWork, vars, shared, local
<1> QED BY <1>2, <1>3

\* The layers below one that stands are under overlays.
LEMMA BelowIsOverlain ==
    ASSUME Inv, NEW l \in layers \ disturbed, Stands(l), NEW a \in Chain(l), a # l
    PROVE  Overlain(a)
<1>1. /\ layers \subseteq Layer /\ Chain(l) = AncestorsAndSelf(layers, base, l)
      /\ Chain(l) \subseteq layers \ disturbed /\ l \in Layer
  BY ChainClean DEF Chain, Inv, TypeInv, TypeOK
<1>2. PICK z \in Chain(l) : base[z] = a
  BY <1>1, ChainChild
<1>3. OverlayOn(z) # NoBase
  <2>1. a # NoBase
    BY <1>1, NoBaseAssumption
  <2>2. CASE z = l
    BY <1>2, <2>1, <2>2 DEF Stands
  <2>3. CASE z # l
    <3>1. base[l] # NoBase
      BY <1>1, <2>3, ChainUnfold, NoBaseAssumption DEF Chain, Inv, TypeInv, TypeOK
    <3>2. OverlayOn(l) # NoBase
      BY <3>1 DEF Stands
    <3>3. ChainsMounted
      BY ChainsStand
    <3> QED BY <1>1, <1>2, <2>1, <3>2, <3>3 DEF ChainsMounted
  <2> QED BY <2>2, <2>3
<1>4. Len(roots[z]) \in DOMAIN roots[z] /\ OverlayOn(z) = roots[z][Len(roots[z])].lower
  BY <1>1, StackType DEF Inv, OverlayOn
<1>5. OverlayOn(z) = a
  BY <1>1, <1>2, <1>3, OverlayStands
<1> QED BY <1>1, <1>4, <1>5 DEF Overlain

\* What a step may not do to a shell.
LeftAlone == \A p \in Process :
    pc[p] = "inside" /\ pc'[p] = "inside" /\ cmd[p].on \notin disturbed =>
    \A a \in Chain(cmd[p].on) :
        /\ Len(roots'[a]) >= Len(roots[a])
        /\ \A k \in DOMAIN roots[a], i \in Import : roots'[a][k].bound[i] >= roots[a][k].bound[i]

\* No process that unmounts is at an undisturbed layer in which a shell is, or
\* below it.
LEMMA NotUnmounted ==
    ASSUME Inv, ShellInv, NEW p \in Process, pc[p] = "inside", cmd[p].on \notin disturbed,
           NEW a \in Chain(cmd[p].on), NEW q \in Process
    PROVE  ~Unmounts(q, a)
<1> SUFFICES ASSUME Unmounts(q, a) PROVE FALSE
  OBVIOUS
<1> DEFINE l == cmd[p].on
<1>1. Shell(p) /\ Stands(l) /\ l \in layers \ disturbed
  BY DEF ShellInv, Shell, Stands
<1>2. CASE a = l
  BY <1>1, <1>2 DEF Shell, Finds, Unmounts, AtWork, Mounts
<1>3. CASE a # l
  <2>1. Overlain(a) /\ a \notin disturbed
    BY <1>1, <1>3, BelowIsOverlain, ChainClean
  <2>2. Cleared(q) /\ AtWork(q)
    BY DEF Inv, Steady, Unmounts, AtWork
  <2> QED BY <2>1, <2>2 DEF Unmounts, Cleared
<1> QED BY <1>2, <1>3

LEMMA ShellsLeftAlone ==
    ASSUME Inv, ShellInv, [Next]_vars
    PROVE  [LeftAlone]_vars
<1> SUFFICES ASSUME Next PROVE LeftAlone
  OBVIOUS
<1>1. PICK q \in Process : Step(q)
  BY DEF Next
<1> SUFFICES ASSUME NEW p \in Process, pc[p] = "inside", cmd[p].on \notin disturbed,
                    NEW a \in Chain(cmd[p].on)
             PROVE  /\ Len(roots'[a]) >= Len(roots[a])
                    /\ \A k \in DOMAIN roots[a], i \in Import :
                          roots'[a][k].bound[i] >= roots[a][k].bound[i]
  BY DEF LeftAlone
<1>2. a \in Layer
  BY ChainSelf DEF Chain, Inv, TypeInv, TypeOK
<1>3. ~Unmounts(q, a)
  BY NotUnmounted
<1> QED BY <1>1, <1>2, <1>3, RootsGrow

\* While a shell is in an undisturbed layer no overlay and no import under it
\* goes, although the command that would take it away has looked at each process
\* only once, at its start, and a shell may come after that look.
THEOREM ShellsKeep == Spec => ShellsKeepMounts
<1>1. Init => ShellInv
  BY DEF Init, ShellInv, Entering, Shell
<1>2. Inv /\ ShellInv /\ [Next]_vars => ShellInv'
  BY ShellInvNext
<1>3. Inv /\ ShellInv /\ [Next]_vars => [LeftAlone]_vars
  BY ShellsLeftAlone
<1>4. Spec => []Inv
  BY AlwaysInv
<1>5. Spec => [][LeftAlone]_vars
  BY <1>1, <1>2, <1>3, <1>4, PTL DEF Spec
<1> QED BY <1>5, PTL DEF ShellsKeepMounts, LeftAlone

-----------------------------------------------------------------------------
(* What the mount commands leave, all together.                            *)

BeingUnmounted(l) == \E p \in Process : Unmounts(p, l)

\* Process p has yet to mount import i in the root of layer l that is on top.
Due(p, i, l) == /\ pc[p] = "calls" /\ cmd[p].op \in Mounts
                /\ calls[p] # <<>> /\ calls[p][1].at # "overlay"
                /\ \E k \in DOMAIN calls[p] : calls[p][k].on = l /\ calls[p][k].at = i

\* A layer that is being unmounted or disturbed, or on which a command has failed,
\* may have anything.  Any other has no import before its overlay, and in the root
\* on top each import is mounted or due.
Whole(l) == l \in layers \ (torn \cup disturbed) /\ ~BeingUnmounted(l) =>
    /\ base[l] # NoBase /\ OverlayOn(l) = NoBase => BoundOn(l) = {}
    /\ HasMounts(l) => \A i \in Import : Top(l).bound[i] > 0 \/ \E p \in Process : Due(p, i, l)

\* A command that brings an overlay, or the first mount, brings every import.
Ahead(p) == pc[p] = "calls" /\ cmd[p].op \in Mounts /\ calls[p] # <<>> =>
    LET l == calls[p][1].on
    IN  /\ \A k \in DOMAIN calls[p] : calls[p][k].on = l
        /\ l \notin disturbed =>
              /\ calls[p][1].at # "overlay" /\ base[l] # NoBase => OverlayOn(l) # NoBase
              /\ l \notin torn /\ (~HasMounts(l) \/ calls[p][1].at = "overlay") =>
                    \A i \in Import : \E k \in DOMAIN calls[p] : calls[p][k].at = i

\* What is about to be written has no mounts.
Clear(p) ==
    /\ AtWork(p) /\ cmd[p].on \notin disturbed
    /\ cmd[p].op = "add" \/ (cmd[p].op \in Writes /\ pc[p] = "write")
    => ~HasMounts(cmd[p].on)

\* What is no layer has no mounts.
Known(l) == l \notin layers \cup disturbed => ~HasMounts(l)

CompleteInv == /\ \A l \in Layer : Whole(l) /\ Known(l)
               /\ \A p \in Process : Ahead(p) /\ Clear(p)

\* The roots of a layer tell what is mounted there.
LEMMA SameRoots ==
    ASSUME NEW l, roots'[l] = roots[l]
    PROVE  /\ OverlayOn(l)' = OverlayOn(l) /\ BoundOn(l)' = BoundOn(l) /\ Top(l)' = Top(l)
           /\ HasMounts(l)' <=> HasMounts(l)
BY DEF OverlayOn, BoundOn, Top, HasMounts, Last

LEMMA BareHasNone ==
    ASSUME NEW l, roots[l] = Bare
    PROVE  ~HasMounts(l)
<1>1. DOMAIN Bare = {1} /\ Len(Bare) = 1 /\ Bare[1] = Directory
  BY DEF Bare
<1>2. OverlayOn(l) = NoBase
  BY <1>1 DEF OverlayOn, Top, Last, Directory
<1>3. BoundOn(l) = {}
  BY <1>1 DEF BoundOn, Directory
<1> QED BY <1>2, <1>3 DEF HasMounts

LEMMA BareHasNoneNext ==
    ASSUME NEW l, roots'[l] = Bare
    PROVE  ~HasMounts(l)'
<1>1. DOMAIN Bare = {1} /\ Len(Bare) = 1 /\ Bare[1] = Directory
  BY DEF Bare
<1>2. OverlayOn(l)' = NoBase
  BY <1>1 DEF OverlayOn, Top, Last, Directory
<1>3. BoundOn(l)' = {}
  BY <1>1 DEF BoundOn, Directory
<1> QED BY <1>2, <1>3 DEF HasMounts

\* How often an import is mounted in a root is a number.
LEMMA BoundType ==
    ASSUME TypeInv, NEW l \in Layer
    PROVE  /\ \A k \in DOMAIN roots[l], i \in Import : roots[l][k].bound[i] \in Nat
           /\ \A i \in Import : /\ Top(l).bound[i] \in Nat
                                /\ Top(l).bound[i] > 0 => i \in BoundOn(l)
<1>1. /\ roots[l] \in Seq(Root) /\ Len(roots[l]) \in Nat \ {0}
      /\ DOMAIN roots[l] = 1 .. Len(roots[l]) /\ Top(l) = roots[l][Len(roots[l])]
  BY StackType
<1>2. \A k \in DOMAIN roots[l] : roots[l][k] \in Root
  <2> HIDE DEF Root
  <2> QED BY <1>1
<1>3. Len(roots[l]) \in DOMAIN roots[l]
  BY <1>1
<1> QED BY <1>1, <1>2, <1>3 DEF Root, BoundOn

\* An overlay that the command does not unmount stays, and so does what is
\* mounted on its layer.
LEMMA MountsStay ==
    ASSUME Inv, TypeInv', NEW p \in Process, Step(p), NEW l \in Layer, ~Unmounts(p, l)
    PROVE  /\ OverlayOn(l) # NoBase => OverlayOn(l)' # NoBase
           /\ HasMounts(l) => HasMounts(l)'
<1>0. PICK m \in Nat, n \in Nat : m = Len(roots[l]) /\ n = Len(roots'[l])
  <2>1. roots[l] \in Seq(Root) /\ roots'[l] \in Seq(Root)
    BY DEF Inv, TypeInv, TypeOK
  <2> HIDE DEF Root
  <2> QED BY <2>1
<1>1. /\ n >= m /\ m # 0
      /\ \A k \in DOMAIN roots[l], i \in Import : roots'[l][k].bound[i] >= roots[l][k].bound[i]
  BY <1>0, RootsGrow, StackType DEF Inv
<1>2. OverlayOn(l) # NoBase => OverlayOn(l)' # NoBase
  <2>1. (OverlayOn(l) = NoBase <=> m = 1) /\ (OverlayOn(l)' = NoBase <=> n = 1)
    BY <1>0, StackType, StackTypeNext DEF Inv
  <2>2. m # 1 => n # 1
    BY <1>1
  <2> QED BY <2>1, <2>2
<1>3. BoundOn(l) # {} => BoundOn(l)' # {}
  <2> SUFFICES ASSUME NEW i \in Import, NEW k \in DOMAIN roots[l], roots[l][k].bound[i] > 0
               PROVE  i \in BoundOn(l)'
    BY DEF BoundOn
  <2>1. k \in DOMAIN roots'[l]
    <3>1. DOMAIN roots[l] = 1 .. m /\ DOMAIN roots'[l] = 1 .. n
      <4>1. roots[l] \in Seq(Root) /\ roots'[l] \in Seq(Root)
        BY DEF Inv, TypeInv, TypeOK
      <4> HIDE DEF Root
      <4> QED BY <1>0, <4>1
    <3> QED BY <1>1, <3>1
  <2>2. roots[l][k].bound[i] \in Nat /\ roots'[l][k].bound[i] \in Nat
    <3>1. roots'[l][k] \in Root
      <4>1. roots'[l] \in Seq(Root)
        BY DEF TypeInv, TypeOK
      <4> HIDE DEF Root
      <4> QED BY <2>1, <4>1
    <3> QED BY <3>1, BoundType DEF Inv, Root
  <2>3. PICK u \in Nat, v \in Nat : u = roots[l][k].bound[i] /\ v = roots'[l][k].bound[i]
    BY <2>2
  <2>4. v >= u /\ u > 0
    BY <1>1, <2>3
  <2>5. roots'[l][k].bound[i] > 0
    BY <2>3, <2>4
  <2> QED BY <2>1, <2>5 DEF BoundOn
<1> QED BY <1>2, <1>3 DEF HasMounts

\* The two calls that mount.
LEMMA OverlayMounted ==
    ASSUME Inv, NEW p \in Process, MountOverlay(p), NEW l, l = Head(calls[p]).on
    PROVE  OverlayOn(l)' # NoBase /\ HasMounts(l)'
<1> DEFINE r == [Directory EXCEPT !.lower = OwnBase(p, l)]
           rs == Append(roots[l], r)
<1>1. /\ OwnBase(p, l) \in layers /\ roots'[l] = rs /\ l \in Layer
  BY CalledMoves DEF MountOverlay, NextCallIs, Inv
<1>2. r.lower # NoBase
  BY <1>1, NoBaseAssumption DEF Directory, Inv, TypeInv, TypeOK
<1>3. roots[l] \in Seq(Root)
  BY <1>1, StackType DEF Inv
<1> HIDE DEF r, Root
<1>4. Len(rs) = Len(roots[l]) + 1 /\ rs[Len(roots[l]) + 1] = r
  BY <1>3, AppendAt
<1> HIDE DEF rs
<1>5. OverlayOn(l)' # NoBase
  BY <1>1, <1>2, <1>4 DEF OverlayOn, Top, Last
<1> QED BY <1>5 DEF HasMounts

LEMMA ImportMounted ==
    ASSUME Inv, NEW p \in Process, MountImport(p), NEW l, l = Head(calls[p]).on
    PROVE  /\ Top(l)'.bound[Head(calls[p]).at] > 0
           /\ \A i \in Import : Top(l).bound[i] > 0 => Top(l)'.bound[i] > 0
           /\ OverlayOn(l)' = OverlayOn(l) /\ HasMounts(l)'
<1> DEFINE j == Head(calls[p]).at
           m == Top(l).bound[j] + 1
           rs == WithBound(l, j, m)
           n == Len(roots[l])
<1>1. roots'[l] = rs /\ j \in Import /\ l \in Layer
  BY CalledMoves DEF MountImport, NextCallIs, Inv
<1>2. /\ roots[l] \in Seq(Root) /\ n \in Nat \ {0} /\ Top(l) = roots[l][n] /\ Top(l) \in Root
      /\ DOMAIN roots[l] = 1 .. n
  BY <1>1, StackType DEF Inv
<1>3. m \in Nat /\ m > 0
  <2>1. Top(l).bound[j] \in Nat
    BY <1>1, BoundType DEF Inv
  <2> QED BY <2>1
<1> HIDE DEF j, m
<1>4. Len(rs) = n /\ DOMAIN rs = 1 .. n /\ n \in 1 .. n
  BY <1>1, <1>2, <1>3, WithBoundType DEF Inv
<1> DEFINE root == [Top(l) EXCEPT !.bound[j] = m]
<1>5. rs[n] = root
  <2> DEFINE s == roots[l]
  <2>1. rs = [s EXCEPT ![n] = root]
    BY <1>2 DEF WithBound
  <2>2. n \in DOMAIN s
    BY <1>4, <1>2
  <2> HIDE DEF rs, s, root, n
  <2> QED BY <2>1, <2>2
<1>6. rs[n].bound = [Top(l).bound EXCEPT ![j] = m] /\ rs[n].lower = Top(l).lower
  <2> HIDE DEF rs, n
  <2>1. root.bound = [Top(l).bound EXCEPT ![j] = m] /\ root.lower = Top(l).lower
    BY <1>2 DEF Root
  <2> QED BY <1>5, <2>1
<1>7. Top(l).bound \in [Import -> Nat]
  BY <1>2 DEF Root
<1> HIDE DEF rs
<1>8. Top(l)' = rs[n]
  BY <1>1, <1>4 DEF Top, Last
<1>9. rs[n].bound[j] > 0 /\ \A i \in Import : Top(l).bound[i] > 0 => rs[n].bound[i] > 0
  BY <1>1, <1>3, <1>6, <1>7
<1>10. OverlayOn(l)' = OverlayOn(l)
  BY <1>6, <1>8 DEF OverlayOn
<1>11. HasMounts(l)'
  <2>1. n \in DOMAIN roots'[l] /\ roots'[l][n].bound[j] > 0
    BY <1>1, <1>4, <1>9
  <2> QED BY <1>1, <2>1 DEF HasMounts, BoundOn
<1> QED BY <1>8, <1>9, <1>10, <1>11 DEF j

\* What changes the roots of a layer.
LEMMA RootsChange ==
    ASSUME Inv, NEW p \in Process, Step(p), NEW l \in Layer, roots'[l] # roots[l]
    PROVE  /\ pc[p] = "calls" /\ calls[p] # <<>> /\ l = Head(calls[p]).on
           /\ \/ /\ Unmounts(p, l) /\ HasMounts(l)
                 /\ UnmountImport(p) \/ UnmountOverlay(p)
              \/ /\ cmd[p].op \in Mounts /\ l \in needs[p] /\ l \in layers
                 /\ MountOverlay(p) \/ MountImport(p)
<1>1. MountOverlay(p) \/ MountImport(p) \/ UnmountImport(p) \/ UnmountOverlay(p)
  BY DEF Step, Begin, List, Look, Scanned, ProbeForMount, Refresh, ProbeForUnmount, ProbeForChroot,
         Mounted, Unmounted, CallFails, ProbeForWrite, WriteLayer, RemoveLayer, Refused,
         Enter, Leave, shared
<1>2. /\ pc[p] = "calls" /\ calls[p] # <<>> /\ \E rs : Called(p, rs)
      /\ UnmountImport(p) \/ UnmountOverlay(p) => Head(calls[p]).do = "umount"
      /\ MountImport(p) \/ MountOverlay(p) =>
            Head(calls[p]).do = "mount" /\ Head(calls[p]).on \in layers
  BY <1>1 DEF MountOverlay, MountImport, UnmountImport, UnmountOverlay, NextCallIs
<1>3. l = Head(calls[p]).on
  <2>1. PICK rs : Called(p, rs)
    BY <1>2
  <2> QED BY <1>2, <2>1, CalledMoves DEF Inv
<1>4. UnmountImport(p) => HasMounts(l)
  <2> SUFFICES ASSUME UnmountImport(p) PROVE HasMounts(l)
    OBVIOUS
  <2>1. Head(calls[p]).at \in Import /\ Top(l).bound[Head(calls[p]).at] > 0
    BY <1>3 DEF UnmountImport, NextCallIs
  <2>2. Head(calls[p]).at \in BoundOn(l)
    BY <2>1, BoundType DEF Inv
  <2> QED BY <2>2 DEF HasMounts
<1>5. UnmountOverlay(p) => HasMounts(l)
  BY <1>3 DEF UnmountOverlay, HasMounts
<1> QED BY <1>1, <1>2, <1>3, <1>4, <1>5, CallsWithin DEF Unmounts

\* A layer that is disturbed remains so.
LEMMA DisturbedStays ==
    ASSUME NEW p \in Process, Step(p)
    PROVE  disturbed \subseteq disturbed'
BY DEF Step, Begin, List, Look, Scanned, ProbeForMount, Refresh, ProbeForUnmount, ProbeForChroot,
       Mounted, Unmounted, CallFails, ProbeForWrite, WriteLayer, RemoveLayer, Refused,
       Enter, Leave, MountOverlay, MountImport, UnmountImport, UnmountOverlay, Called, shared

\* Only who unmounts a layer makes it whole again.
LEMMA TornStays ==
    ASSUME Inv, NEW p \in Process, Step(p), NEW l \in torn, ~Unmounts(p, l)
    PROVE  l \in torn'
<1>1. CASE MountOverlay(p) \/ MountImport(p) \/ UnmountImport(p) \/ UnmountOverlay(p)
  <2>1. PICK rs : Called(p, rs)
    BY <1>1 DEF MountOverlay, MountImport, UnmountImport, UnmountOverlay
  <2> SUFFICES ASSUME l \notin torn' PROVE FALSE
    OBVIOUS
  <2>2. rs = Bare /\ l = Head(calls[p]).on /\ l \in Layer
    BY <2>1 DEF Called, Inv, TypeInv, TypeOK
  <2>3. roots'[l] = Bare
    BY <2>1, <2>2 DEF Called, Inv, TypeInv, TypeOK
  <2>4. ~(MountOverlay(p) \/ MountImport(p))
    BY <2>2, <2>3, BareHasNoneNext, OverlayMounted, ImportMounted
  <2>5. pc[p] = "calls" /\ calls[p] # <<>> /\ Head(calls[p]).do = "umount"
    BY <1>1, <2>4 DEF UnmountImport, UnmountOverlay, NextCallIs
  <2> QED BY <2>2, <2>5, CallsWithin DEF Unmounts
<1>2. CASE ~(MountOverlay(p) \/ MountImport(p) \/ UnmountImport(p) \/ UnmountOverlay(p))
  BY <1>2 DEF Step, Begin, List, Look, Scanned, ProbeForMount, Refresh, ProbeForUnmount, ProbeForChroot,
         Mounted, Unmounted, CallFails, ProbeForWrite, WriteLayer, RemoveLayer, Refused,
         Enter, Leave, shared
<1> QED BY <1>1, <1>2

\* On a layer without imports a mount command mounts them all.
LEMMA MountCallsAll ==
    ASSUME TypeInv, NEW p \in Process, NEW l \in Layer, BoundOn(l) = {}, NEW i \in Import
    PROVE  \E k \in DOMAIN MountCalls(p, l) : MountCalls(p, l)[k].at = i
<1> DEFINE lower == IF OwnBase(p, l) # NoBase /\ OverlayOn(l) = NoBase
                    THEN <<"overlay">> ELSE <<>>
           imports == Only(Imports, Import \ BoundOn(l))
           points == lower \o imports
<1>1. imports \in Seq(Import)
  BY ImportsType
<1>2. lower \in {<<>>, <<"overlay">>}
  OBVIOUS
<1>3. \E j \in DOMAIN imports : imports[j] = i
  <2>1. Imports \in Seq(Import)
    BY ImportsAssumption DEF Import
  <2>2. PICK m \in 1 .. Len(Imports) : Imports[m] = i
    <3>1. DOMAIN Imports = 1 .. Len(Imports)
      BY <2>1
    <3> QED BY <3>1 DEF Import
  <2>3. Imports[m] \in Import \ BoundOn(l)
    BY <2>2
  <2> HIDE DEF Import
  <2> QED BY <2>1, <2>2, <2>3, OnlyComplete
<1>4. PICK j \in DOMAIN imports : imports[j] = i
  BY <1>3
<1> HIDE DEF lower, imports, Import
<1>5. lower \in Seq({"overlay"} \cup Import) /\ imports \in Seq({"overlay"} \cup Import)
  <2> DEFINE P == {"overlay"} \cup Import
  <2>1. "overlay" \in P /\ Import \subseteq P
    OBVIOUS
  <2> HIDE DEF P
  <2>2. <<>> \in Seq(P) /\ <<"overlay">> \in Seq(P)
    BY <2>1
  <2>3. lower \in Seq(P)
    BY <1>2, <2>2
  <2>4. imports \in Seq(P)
    BY <1>1, <2>1
  <2> QED BY <2>3, <2>4 DEF P
<1>6. points \in Seq({"overlay"} \cup Import) /\ \E k \in DOMAIN points : points[k] = i
  <2>1. points \in Seq({"overlay"} \cup Import)
    BY <1>5
  <2>2. Len(lower) + j \in DOMAIN points /\ points[Len(lower) + j] = i
    BY <1>4, <1>5
  <2> QED BY <2>1, <2>2
<1>7. MountCalls(p, l) = CallsOn(l, "mount", points)
  BY DEF MountCalls, lower, imports
<1> HIDE DEF points
<1>8. /\ DOMAIN MountCalls(p, l) = DOMAIN points
      /\ \A k \in DOMAIN points : MountCalls(p, l)[k] = [do |-> "mount", on |-> l, at |-> points[k]]
  BY <1>6, <1>7, CallsType
<1> QED BY <1>6, <1>8

\* A layer on which a command has yet to make calls that mount.
LEMMA MountsNeeded ==
    ASSUME Inv, NEW p \in Process, pc[p] = "calls", cmd[p].op \in Mounts, calls[p] # <<>>
    PROVE  /\ 1 \in DOMAIN calls[p] /\ calls[p][1].on \in needs[p] /\ calls[p][1].on \in Layer
           /\ AtWork(p) /\ Head(calls[p]) = calls[p][1] /\ Head(calls[p]).do = "mount"
           /\ Head(calls[p]).at \in {"overlay"} \cup Import
           /\ \A k \in DOMAIN calls[p] : calls[p][k].at = "overlay" => k = 1
<1>1. AtWork(p) /\ Head(calls[p]) = calls[p][1] /\ 1 \in DOMAIN calls[p] /\ Head(calls[p]) \in Call
  BY HeadCall DEF Inv, AtWork
<1>2. CallsPlanned(p)
  BY <1>1 DEF Inv, Steady, Planned
<1> QED BY <1>1, <1>2 DEF CallsPlanned, Call

\* The rest of a sequence of calls.
LEMMA CallsLeft ==
    ASSUME TypeInv, NEW p \in Process, pc[p] = "calls", calls[p] # <<>>, NEW rs, Called(p, rs)
    PROVE  \A k \in DOMAIN calls[p] : k # 1 =>
              k - 1 \in DOMAIN calls'[p] /\ calls'[p][k - 1] = calls[p][k] /\ calls'[p] # <<>>
<1>1. calls[p] \in Seq(Call) /\ calls'[p] = Tail(calls[p])
  BY DEF TypeInv, TypeOK, Called
<1> HIDE DEF Call
<1>2. PICK c \in Seq(Call) : c = calls[p]
  BY <1>1
<1>3. \A k \in DOMAIN c : k # 1 => k - 1 \in DOMAIN Tail(c) /\ Tail(c)[k - 1] = c[k] /\ Tail(c) # <<>>
  <2> SUFFICES ASSUME NEW k \in DOMAIN c, k # 1
               PROVE  k - 1 \in DOMAIN Tail(c) /\ Tail(c)[k - 1] = c[k] /\ Tail(c) # <<>>
    OBVIOUS
  <2>1. k \in 2 .. Len(c) /\ Len(c) \in Nat
    OBVIOUS
  <2>2. Tail(c) \in Seq(Call) /\ Len(Tail(c)) = Len(c) - 1 /\ k - 1 \in 1 .. Len(c) - 1
    BY <2>1
  <2>3. DOMAIN Tail(c) = 1 .. Len(c) - 1
    BY <2>2
  <2>4. Tail(c)[k - 1] = c[k]
    BY <2>1
  <2>5. Len(Tail(c)) # 0
    BY <2>1, <2>2
  <2> QED BY <2>2, <2>3, <2>4, <2>5
<1> QED BY <1>1, <1>2, <1>3

\* The map changes only at a layer that its command writes.
LEMMA FilesChange ==
    ASSUME Inv, NEW p \in Process, Step(p), NEW x \in Layer,
           ~((x \in layers' <=> x \in layers) /\ base'[x] = base[x])
    PROVE  /\ pc[p] = "write" /\ cmd[p].on = x /\ cmd[p].op \in Writes
           /\ WriteLayer(p) \/ RemoveLayer(p)
<1>1. WriteLayer(p) \/ RemoveLayer(p)
  BY DEF Step, Begin, List, Look, Scanned, ProbeForMount, Refresh, ProbeForUnmount, ProbeForChroot,
         Mounted, Unmounted, CallFails, ProbeForWrite, Refused, Enter, Leave, shared,
         MountOverlay, MountImport, UnmountImport, UnmountOverlay, Called
<1>2. base \in [Layer -> Layer \cup {NoBase}]
  BY DEF Inv, TypeInv, TypeOK
<1> QED BY <1>1, <1>2 DEF WriteLayer, RemoveLayer, Writes

LEMMA AheadOther ==
    ASSUME Inv, TypeInv', NEW p \in Process, Step(p), NEW q \in Process \ {p}, Ahead(q)
    PROVE  Ahead(q)'
<1>1. pc'[q] = pc[q] /\ cmd'[q] = cmd[q] /\ calls'[q] = calls[q] /\ disturbed \subseteq disturbed'
  BY OthersStay DEF Inv
<1> SUFFICES ASSUME pc[q] = "calls", cmd[q].op \in Mounts, calls[q] # <<>>
             PROVE  Ahead(q)'
  BY <1>1 DEF Ahead
<1>2. PICK l \in Layer : l = calls[q][1].on /\ l \in needs[q] /\ AtWork(q)
  BY MountsNeeded
<1>3. \A k \in DOMAIN calls[q] : calls[q][k].on = l
  BY <1>2 DEF Ahead
<1>4. ASSUME l \notin disturbed'
      PROVE  /\ calls[q][1].at # "overlay" /\ base'[l] # NoBase => OverlayOn(l)' # NoBase
             /\ l \notin torn' /\ (~HasMounts(l)' \/ calls[q][1].at = "overlay") =>
                   \A i \in Import : \E k \in DOMAIN calls[q] : calls[q][k].at = i
  <2>1. ~Unmounts(p, l) /\ (pc[p] = "write" => cmd[p].on # l)
    BY <1>1, <1>2, <1>4, NeededIsLeft
  <2>2. base'[l] = base[l]
    BY <2>1, FilesChange
  <2>3. /\ OverlayOn(l) # NoBase => OverlayOn(l)' # NoBase
        /\ HasMounts(l) => HasMounts(l)'
        /\ l \in torn => l \in torn'
    BY <2>1, MountsStay, TornStays
  <2>4. /\ calls[q][1].at # "overlay" /\ base[l] # NoBase => OverlayOn(l) # NoBase
        /\ l \notin torn /\ (~HasMounts(l) \/ calls[q][1].at = "overlay") =>
              \A i \in Import : \E k \in DOMAIN calls[q] : calls[q][k].at = i
    BY <1>1, <1>2, <1>4 DEF Ahead
  <2> QED BY <2>2, <2>3, <2>4
<1>5. (OverlayOn(calls[q][1].on)' = OverlayOn(l)') /\ (HasMounts(calls[q][1].on)' <=> HasMounts(l)')
  BY <1>1, <1>2 DEF OverlayOn, HasMounts, Top, BoundOn
<1> QED BY <1>1, <1>2, <1>3, <1>4, <1>5 DEF Ahead

\* The command goes on with the next layer.
LEMMA AheadNew ==
    ASSUME Inv, Inv', CompleteInv, NEW p \in Process, ProbeForMount(p) \/ Refresh(p)
    PROVE  Ahead(p)'
<1> SUFFICES ASSUME calls'[p] # <<>> PROVE Ahead(p)'
  BY DEF Ahead
<1>1. /\ pc[p] \in {"probe", "calls"} /\ cmd[p].op \in Mounts /\ AtWork(p)
      /\ UNCHANGED <<layers, base, roots, torn, disturbed, cmd, needs, tree>>
      /\ \E chain \in Seq(Layer) \ {<<>>} : MountNext(p, chain)
  <2>1. CASE ProbeForMount(p)
    <3>1. OwnChain(p, cmd[p].on) \in Seq(Layer) \ {<<>>}
      BY <2>1, OwnChainType DEF ProbeForMount, Inv, Mounts
    <3> QED BY <2>1, <3>1 DEF ProbeForMount, AtWork, shared
  <2>2. CASE Refresh(p)
    <3>1. todo[p] \in Seq(Layer) \ {<<>>}
      BY <2>2 DEF Refresh, Inv, TypeInv, TypeOK
    <3> QED BY <2>2, <3>1 DEF Refresh, AtWork, shared
  <2> QED BY <2>1, <2>2
<1>2. PICK l \in Layer : calls'[p] = MountCalls(p, l) /\ pc'[p] = "calls"
  <2>1. PICK chain \in Seq(Layer) \ {<<>>} : MountNext(p, chain)
    BY <1>1
  <2>2. Head(chain) \in Layer
    OBVIOUS
  <2> QED BY <2>1, <2>2 DEF MountNext, Goto, Inv, TypeInv, TypeOK
<1>3. /\ \A k \in DOMAIN calls'[p] : /\ calls'[p][k].on = l
                                     /\ calls'[p][k].at = "overlay" =>
                                           OwnBase(p, l) # NoBase /\ OverlayOn(l) = NoBase
      /\ OwnBase(p, l) # NoBase /\ OverlayOn(l) = NoBase => calls'[p][1].at = "overlay"
      /\ calls'[p] \in Seq(Call)
  BY <1>2, MountCallsType DEF Inv
<1>4. 1 \in DOMAIN calls'[p]
  <2> HIDE DEF Call
  <2> QED BY <1>3
<1>5. calls'[p][1].on = l
  BY <1>3, <1>4
<1>6. l \in needs[p] /\ (l \notin disturbed => OwnBase(p, l) = base[l] /\ l \in layers)
  <2>1. Planned(p)' /\ Relied(p)' /\ AtWork(p)' /\ Reads(p)'
    BY <1>1, <1>2 DEF Inv, Steady, AtWork, Reads
  <2>2. CallsPlanned(p)'
    BY <1>1, <1>2, <2>1 DEF Planned
  <2>3. l \in needs[p]
    BY <1>1, <1>4, <1>5, <2>2 DEF CallsPlanned
  <2> QED BY <1>1, <2>1, <2>3 DEF Relied, OwnBase
<1>7. l \notin disturbed => ~BeingUnmounted(l)
  <2>1. ~Unmounts(p, l)
    BY <1>1 DEF Unmounts, Mounts
  <2>2. l \notin disturbed => \A q \in Process \ {p} : ~Unmounts(q, l)
    BY <1>1, <1>6, NeededIsLeft
  <2> QED BY <2>1, <2>2 DEF BeingUnmounted
<1>8. ASSUME l \notin torn \cup disturbed, ~HasMounts(l) \/ calls'[p][1].at = "overlay",
             NEW i \in Import
      PROVE  \E k \in DOMAIN calls'[p] : calls'[p][k].at = i
  <2>1. BoundOn(l) = {}
    <3>1. CASE ~HasMounts(l)
      BY <3>1 DEF HasMounts
    <3>2. CASE calls'[p][1].at = "overlay"
      <4>1. base[l] # NoBase /\ OverlayOn(l) = NoBase
        BY <1>3, <1>4, <1>6, <1>8, <3>2
      <4> QED BY <1>6, <1>7, <1>8, <4>1 DEF CompleteInv, Whole
    <3> QED BY <1>8, <3>1, <3>2
  <2> QED BY <1>2, <2>1, MountCallsAll DEF Inv
<1>9. OverlayOn(l)' = OverlayOn(l) /\ (HasMounts(l)' <=> HasMounts(l))
  BY <1>1, SameRoots
<1>10. (OverlayOn(calls[p][1].on)' = OverlayOn(l)') /\ (HasMounts(calls[p][1].on)' <=> HasMounts(l)')
  BY <1>5 DEF OverlayOn, HasMounts, Top, BoundOn
<1> QED BY <1>1, <1>3, <1>5, <1>6, <1>8, <1>9, <1>10 DEF Ahead

\* A call that mounts is made.
LEMMA AheadCalled ==
    ASSUME Inv, TypeInv', NEW p \in Process, Ahead(p), Step(p), MountOverlay(p) \/ MountImport(p)
    PROVE  Ahead(p)'
<1> SUFFICES ASSUME calls'[p] # <<>> PROVE Ahead(p)'
  BY DEF Ahead
<1>1. /\ pc[p] = "calls" /\ calls[p] # <<>> /\ \E rs : Called(p, rs)
      /\ Head(calls[p]).do = "mount"
  BY DEF MountOverlay, MountImport, NextCallIs
<1>2. cmd[p].op \in Mounts
  BY <1>1, CallsWithin
<1>3. PICK l \in Layer : l = calls[p][1].on /\ l = Head(calls[p]).on /\ Head(calls[p]) = calls[p][1]
  BY <1>1, <1>2, MountsNeeded
<1>4. /\ UNCHANGED <<layers, base, disturbed, pc, cmd>>
      /\ \A k \in DOMAIN calls'[p] : /\ k + 1 \in DOMAIN calls[p] /\ k + 1 # 1
                                     /\ calls'[p][k] = calls[p][k + 1]
  BY <1>1, CalledMoves DEF Inv
<1>5. \A k \in DOMAIN calls'[p] : calls'[p][k].on = l /\ calls'[p][k].at # "overlay"
  BY <1>1, <1>2, <1>3, <1>4, MountsNeeded DEF Ahead
<1>6. 1 \in DOMAIN calls'[p]
  <2>1. calls'[p] \in Seq(Call)
    BY DEF TypeInv, TypeOK
  <2> HIDE DEF Call
  <2> QED BY <2>1
<1>7. HasMounts(l)' /\ (l \notin disturbed /\ base[l] # NoBase => OverlayOn(l)' # NoBase)
  <2>1. CASE MountOverlay(p)
    BY <1>3, <2>1, OverlayMounted
  <2>2. CASE MountImport(p)
    <3>1. HasMounts(l)' /\ OverlayOn(l)' = OverlayOn(l)
      BY <1>3, <2>2, ImportMounted
    <3>2. calls[p][1].at # "overlay"
      BY <1>3, <2>2, ImportsAssumption DEF MountImport, NextCallIs, Import
    <3> QED BY <1>1, <1>2, <1>3, <3>1, <3>2 DEF Ahead
  <2> QED BY <2>1, <2>2
<1>8. (OverlayOn(calls[p][1].on)' = OverlayOn(l)') /\ (HasMounts(calls[p][1].on)' <=> HasMounts(l)')
  BY <1>5, <1>6 DEF OverlayOn, HasMounts, Top, BoundOn
<1> QED BY <1>4, <1>5, <1>6, <1>7, <1>8 DEF Ahead

LEMMA AheadNext ==
    ASSUME Inv, Inv', CompleteInv, NEW p \in Process, Step(p), NEW q \in Process
    PROVE  Ahead(q)'
<1>1. Ahead(q) /\ TypeInv'
  BY DEF CompleteInv, Inv
<1>2. CASE q # p
  BY <1>1, <1>2, AheadOther
<1>3. CASE q = p /\ (ProbeForMount(p) \/ Refresh(p))
  BY <1>3, AheadNew
<1>4. CASE q = p /\ (MountOverlay(p) \/ MountImport(p))
  BY <1>1, <1>4, AheadCalled
<1>5. CASE q = p /\ (UnmountOverlay(p) \/ UnmountImport(p))
  <2>1. /\ pc[p] = "calls" /\ calls[p] # <<>> /\ Head(calls[p]).do = "umount"
        /\ UNCHANGED cmd
    BY <1>5 DEF UnmountOverlay, UnmountImport, NextCallIs, Called
  <2>2. cmd[p].op = "umount"
    BY <2>1, CallsWithin
  <2> QED BY <1>5, <2>1, <2>2 DEF Ahead, Mounts
<1>6. CASE q = p /\ ProbeForUnmount(p)
  BY <1>6 DEF Ahead, ProbeForUnmount, Mounts
<1>7. CASE q = p /\ ((\E c \in Command : Begin(p, c)) \/ List(p) \/ Look(p) \/ Scanned(p))
  <2>0. TypeInv /\ p \in DOMAIN pc
    <3>1. TypeInv
      BY DEF Inv
    <3> QED BY <3>1 DEF TypeInv, TypeOK
  <2>1. CASE \E c \in Command : Begin(p, c)
    BY <1>7, <2>0, <2>1 DEF Begin, Goto, Ahead
  <2>2. CASE List(p) \/ Look(p) \/ Scanned(p)
    <3>1. PICK label \in {"scan", "probe"} : Goto(p, label)
      BY <2>0, <2>2, ScanSteps
    <3> QED BY <2>0, <3>1, <1>7 DEF Goto, Ahead
  <2> QED BY <1>7, <2>1, <2>2
<1>8. CASE q = p /\ \E label \in {"idle", "write", "enter", "inside"} : Finish(p, label)
  <2>1. pc'[p] # "calls"
    BY <1>8, FinishMoves DEF Inv
  <2> QED BY <1>8, <2>1 DEF Ahead
<1>9. \/ ProbeForMount(p) \/ Refresh(p) \/ MountOverlay(p) \/ MountImport(p)
      \/ UnmountOverlay(p) \/ UnmountImport(p) \/ ProbeForUnmount(p)
      \/ (\E c \in Command : Begin(p, c)) \/ List(p) \/ Look(p) \/ Scanned(p)
      \/ \E label \in {"idle", "write", "enter", "inside"} : Finish(p, label)
  BY DEF Step, ProbeForChroot, Mounted, Unmounted, CallFails, ProbeForWrite, WriteLayer,
         RemoveLayer, Refused, Enter, Leave
<1> QED BY <1>2, <1>3, <1>4, <1>5, <1>6, <1>7, <1>8, <1>9

\* A layer is mounted only by a command that relies on it.
LEMMA NoneComes ==
    ASSUME Inv, NEW p \in Process, Step(p), NEW l \in Layer, ~HasMounts(l),
           ~(l \in layers /\ AtWork(p) /\ cmd[p].op \in Mounts /\ l \in needs[p])
    PROVE  ~HasMounts(l)'
<1> SUFFICES ASSUME roots'[l] # roots[l] PROVE FALSE
  BY SameRoots
<1>1. pc[p] = "calls" /\ cmd[p].op \in Mounts /\ l \in needs[p] /\ l \in layers
  BY RootsChange DEF Unmounts
<1> QED BY <1>1 DEF AtWork

\* A command comes to its write only by its checks.
LEMMA WritesBegin ==
    ASSUME TypeInv, NEW p \in Process, Step(p), pc'[p] = "write"
    PROVE  ProbeForWrite(p)
<1>1. p \in DOMAIN pc
  BY DEF TypeInv, TypeOK
<1>2. CASE \/ \E c \in Command : Begin(p, c)
           \/ List(p) \/ Look(p) \/ Scanned(p) \/ ProbeForUnmount(p)
  BY <1>1, <1>2 DEF Begin, List, Look, Scanned, ProbeForUnmount, Goto
<1>3. CASE ProbeForMount(p) \/ Refresh(p)
  BY <1>1, <1>3 DEF ProbeForMount, Refresh, MountNext, Goto
<1>4. CASE Unmounted(p) \/ CallFails(p) \/ WriteLayer(p) \/ RemoveLayer(p) \/ Refused(p) \/ Leave(p)
  BY <1>1, <1>4 DEF Unmounted, CallFails, WriteLayer, RemoveLayer, Refused, Leave, Finish, Leaves, Goto
<1>5. CASE Mounted(p) \/ ProbeForChroot(p) \/ Enter(p)
  BY <1>1, <1>5 DEF Mounted, ProbeForChroot, Enter, Finish, Leaves, Goto
<1>6. CASE MountOverlay(p) \/ MountImport(p) \/ UnmountImport(p) \/ UnmountOverlay(p)
  BY <1>1, <1>6 DEF MountOverlay, MountImport, UnmountImport, UnmountOverlay, Called, NextCallIs
<1> QED BY <1>2, <1>3, <1>4, <1>5, <1>6 DEF Step

LEMMA ClearNext ==
    ASSUME Inv, CompleteInv, NEW p \in Process, Step(p), NEW q \in Process
    PROVE  Clear(q)'
<1> SUFFICES ASSUME AtWork(q)', cmd'[q].on \notin disturbed',
                    cmd'[q].op = "add" \/ (cmd'[q].op \in Writes /\ pc'[q] = "write")
             PROVE  ~HasMounts(cmd[q].on)'
  BY DEF Clear
<1>1. /\ Clear(q) /\ \A l \in Layer : Known(l)
      /\ cmd'[q].op \notin Mounts /\ disturbed \subseteq disturbed'
  BY DisturbedStays DEF CompleteInv, Mounts, Writes
<1>2. ASSUME NEW l \in Layer, l = cmd'[q].on, ~HasMounts(l)'
      PROVE  ~HasMounts(cmd[q].on)'
  BY <1>2 DEF HasMounts, OverlayOn, BoundOn, Top
<1>3. CASE q # p
  <2>1. pc'[q] = pc[q] /\ cmd'[q] = cmd[q] /\ AtWork(q)
    BY <1>3, OthersStay DEF Inv, AtWork
  <2>2. PICK l \in Layer : l = cmd[q].on
    BY <2>1, CommandType DEF Inv, AtWork
  <2>3. ~HasMounts(l)
    BY <1>1, <2>1, <2>2 DEF Clear
  <2>4. AtWork(p) => l \notin needs[p]
    BY <1>1, <1>3, <2>1, <2>2, NotNeeded
  <2>5. ~HasMounts(l)'
    BY <2>3, <2>4, NoneComes
  <2> QED BY <1>2, <2>1, <2>2, <2>5
<1>4. CASE q = p /\ \E c \in Command : Begin(p, c)
  <2>1. PICK c \in Command : Begin(p, c)
    BY <1>4
  <2>2. pc'[p] = "list" /\ cmd'[p] = c /\ roots' = roots
    BY <2>1 DEF Begin, Goto, Inv, TypeInv, TypeOK
  <2>3. PICK l \in Layer : l = c.on
    BY DEF Command
  <2>4. l \notin layers
    BY <1>4, <2>1, <2>2, <2>3 DEF Begin
  <2>5. ~HasMounts(l)'
    BY <1>1, <1>4, <2>2, <2>3, <2>4, SameRoots DEF Known
  <2> QED BY <1>2, <1>4, <2>2, <2>3, <2>5
<1>5. CASE q = p /\ ~\E c \in Command : Begin(p, c)
  <2>1. cmd'[p] = cmd[p] /\ AtWork(p)
    BY <1>5, StillAtWork DEF Inv, AtWork
  <2>2. PICK l \in Layer : l = cmd[p].on
    BY <2>1, CommandType DEF Inv, AtWork
  <2>3. ~HasMounts(l)
    <3>1. CASE cmd[p].op = "add"
      BY <1>1, <1>5, <2>1, <2>2, <3>1 DEF Clear
    <3>2. CASE cmd[p].op # "add"
      <4>1. ProbeForWrite(p)
        BY <1>5, <2>1, <3>2, WritesBegin DEF Inv
      <4>2. ~Busy(p, l)
        BY <2>2, <3>2, <4>1 DEF ProbeForWrite, MayWrite, MayRemove, MayRebase, Writes
      <4> QED BY <4>2 DEF Busy
    <3> QED BY <3>1, <3>2
  <2>4. cmd[p].op \notin Mounts
    BY <1>1, <1>5, <2>1
  <2>5. ~HasMounts(l)'
    BY <2>3, <2>4, NoneComes
  <2> QED BY <1>2, <1>5, <2>1, <2>2, <2>5
<1> QED BY <1>3, <1>4, <1>5

LEMMA KnownNext ==
    ASSUME Inv, CompleteInv, NEW p \in Process, Step(p), NEW l \in Layer
    PROVE  Known(l)'
<1> SUFFICES ASSUME l \notin layers' \cup disturbed' PROVE ~HasMounts(l)'
  BY DEF Known
<1>0. l \notin disturbed
  BY DisturbedStays
<1>1. CASE l \notin layers
  <2>1. ~HasMounts(l)
    BY <1>0, <1>1 DEF CompleteInv, Known
  <2> QED BY <1>1, <2>1, NoneComes
<1>2. CASE l \in layers
  <2>1. pc[p] = "write" /\ cmd[p].on = l /\ cmd[p].op \in Writes /\ AtWork(p)
    BY <1>2, FilesChange DEF AtWork
  <2>2. ~HasMounts(l)
    BY <1>0, <2>1 DEF CompleteInv, Clear
  <2> QED BY <2>1, <2>2, NoneComes DEF Mounts, Writes
<1> QED BY <1>1, <1>2

-----------------------------------------------------------------------------
(* Whole layers stay whole.                                                *)

\* Nothing is asked of a layer without mounts.
LEMMA EmptyIsWhole ==
    ASSUME NEW l, ~HasMounts(l)'
    PROVE  Whole(l)'
BY DEF Whole, HasMounts

\* A step that is not about the layer.
LEMMA WholeKept ==
    ASSUME NEW l, Whole(l), roots'[l] = roots[l], base'[l] = base[l],
           l \in layers' \ (torn' \cup disturbed') => l \in layers \ (torn \cup disturbed),
           BeingUnmounted(l) => BeingUnmounted(l)',
           \A q \in Process, i \in Import : Due(q, i, l) => Due(q, i, l)'
    PROVE  Whole(l)'
<1>1. /\ OverlayOn(l)' = OverlayOn(l) /\ BoundOn(l)' = BoundOn(l) /\ Top(l)' = Top(l)
      /\ HasMounts(l)' <=> HasMounts(l)
  BY SameRoots
<1> SUFFICES ASSUME l \in layers' \ (torn' \cup disturbed'), ~BeingUnmounted(l)'
             PROVE  /\ base[l] # NoBase /\ OverlayOn(l) = NoBase => BoundOn(l) = {}
                    /\ HasMounts(l) => \A i \in Import :
                          Top(l).bound[i] > 0 \/ \E q \in Process : Due(q, i, l)'
  BY <1>1 DEF Whole
<1>2. l \in layers \ (torn \cup disturbed) /\ ~BeingUnmounted(l)
  OBVIOUS
<1> QED BY <1>2 DEF Whole

\* What another process has yet to mount or unmount it still has.
LEMMA OthersDue ==
    ASSUME TypeInv, NEW p \in Process, Step(p), NEW q \in Process \ {p}, NEW l
    PROVE  /\ Unmounts(q, l) => Unmounts(q, l)'
           /\ \A i : Due(q, i, l) => Due(q, i, l)'
BY OthersStay DEF Unmounts, Due

\* Process p makes no calls on the layer, nor begins to.
LEMMA WholeElsewhere ==
    ASSUME Inv, CompleteInv, NEW p \in Process, Step(p), NEW l \in Layer,
           roots'[l] = roots[l], ~(pc[p] = "write" /\ cmd[p].on = l),
           l \in torn => l \in torn',
           Unmounts(p, l) => Unmounts(p, l)',
           \A i \in Import : Due(p, i, l) => Due(p, i, l)'
    PROVE  Whole(l)'
<1>1. (l \in layers' <=> l \in layers) /\ base'[l] = base[l] /\ disturbed \subseteq disturbed'
  BY FilesChange, DisturbedStays
<1>2. BeingUnmounted(l) => BeingUnmounted(l)'
  BY OthersDue DEF BeingUnmounted, Inv
<1>3. \A q \in Process, i \in Import : Due(q, i, l) => Due(q, i, l)'
  BY OthersDue DEF Inv
<1>4. Whole(l)
  BY DEF CompleteInv
<1> QED BY <1>1, <1>2, <1>3, <1>4, WholeKept

\* All that a command has yet to mount is on one layer.
LEMMA DueThere ==
    ASSUME CompleteInv, NEW p \in Process, NEW i, NEW l, Due(p, i, l)
    PROVE  l = calls[p][1].on
BY DEF Due, CompleteInv, Ahead

\* After a call that mounts the others of the sequence are due.
LEMMA DueAfter ==
    ASSUME Inv, TypeInv', NEW p \in Process, pc[p] = "calls", calls[p] # <<>>,
           cmd[p].op \in Mounts, NEW rs, Called(p, rs),
           NEW k \in DOMAIN calls[p], k # 1, NEW l, l = calls[p][k].on, NEW i, i = calls[p][k].at
    PROVE  Due(p, i, l)'
<1>1. /\ k - 1 \in DOMAIN calls'[p] /\ calls'[p][k - 1] = calls[p][k] /\ calls'[p] # <<>>
      /\ UNCHANGED <<pc, cmd>>
  BY CallsLeft, CalledMoves DEF Inv
<1>2. 1 \in DOMAIN calls'[p]
  <2>1. calls'[p] \in Seq(Call)
    BY DEF TypeInv, TypeOK
  <2> HIDE DEF Call
  <2> QED BY <1>1, <2>1
<1>3. calls'[p][1].at # "overlay"
  <2>1. /\ 1 + 1 \in DOMAIN calls[p] /\ 1 + 1 # 1 /\ calls'[p][1] = calls[p][1 + 1]
    BY <1>2, CalledMoves DEF Inv
  <2> QED BY <2>1, MountsNeeded
<1> QED BY <1>1, <1>3 DEF Due

LEMMA WholeMountOverlay ==
    ASSUME Inv, TypeInv', CompleteInv, NEW p \in Process, Step(p), MountOverlay(p),
           NEW l \in Layer, l = Head(calls[p]).on
    PROVE  Whole(l)'
<1> SUFFICES ASSUME l \notin torn' \cup disturbed', NEW i \in Import
             PROVE  OverlayOn(l)' # NoBase /\ Due(p, i, l)'
  <2>1. OverlayOn(l)' # NoBase
    BY OverlayMounted
  <2> QED BY <2>1 DEF Whole
<1>1. /\ pc[p] = "calls" /\ calls[p] # <<>> /\ \E rs : Called(p, rs)
      /\ Head(calls[p]).do = "mount" /\ Head(calls[p]).at = "overlay"
  BY DEF MountOverlay, NextCallIs
<1>2. cmd[p].op \in Mounts /\ Head(calls[p]) = calls[p][1]
  BY <1>1, CallsWithin, MountsNeeded
<1>3. l \notin torn /\ l \notin disturbed
  BY <1>2, TornStays, DisturbedStays DEF Unmounts, Mounts
<1>4. Ahead(p)
  BY DEF CompleteInv
<1>5. PICK k \in DOMAIN calls[p] : calls[p][k].at = i /\ calls[p][k].on = l
  BY <1>1, <1>2, <1>3, <1>4 DEF Ahead
<1>6. k # 1
  BY <1>1, <1>2, <1>5, ImportsAssumption DEF Import
<1>7. Due(p, i, l)'
  BY <1>1, <1>2, <1>5, <1>6, DueAfter
<1> QED BY <1>7, OverlayMounted

LEMMA WholeMountImport ==
    ASSUME Inv, TypeInv', CompleteInv, NEW p \in Process, Step(p), MountImport(p),
           NEW l \in Layer, l = Head(calls[p]).on
    PROVE  Whole(l)'
<1> DEFINE j == Head(calls[p]).at
<1>1. /\ pc[p] = "calls" /\ calls[p] # <<>> /\ \E rs : Called(p, rs)
      /\ Head(calls[p]).do = "mount" /\ j \in Import /\ l \in layers
  BY DEF MountImport, NextCallIs
<1>2. /\ cmd[p].op \in Mounts /\ Head(calls[p]) = calls[p][1] /\ l \in needs[p] /\ AtWork(p)
      /\ l = calls[p][1].on /\ calls[p][1].at = j
  BY <1>1, CallsWithin, MountsNeeded
<1>3. j # "overlay" /\ Ahead(p) /\ Whole(l) /\ ~Unmounts(p, l)
  BY <1>1, <1>2, ImportsAssumption DEF Import, CompleteInv, Unmounts, Mounts
<1>4. /\ Top(l)'.bound[j] > 0 /\ OverlayOn(l)' = OverlayOn(l)
      /\ \A i \in Import : Top(l).bound[i] > 0 => Top(l)'.bound[i] > 0
  BY ImportMounted
<1>5. base'[l] = base[l] /\ disturbed \subseteq disturbed'
  BY <1>1, <1>2, FilesChange, DisturbedStays
<1>6. l \notin disturbed /\ base[l] # NoBase => OverlayOn(l) # NoBase
  BY <1>1, <1>2, <1>3 DEF Ahead
<1> SUFFICES ASSUME l \notin torn' \cup disturbed', NEW i \in Import
             PROVE  Top(l)'.bound[i] > 0 \/ \E q \in Process : Due(q, i, l)'
  BY <1>4, <1>5, <1>6 DEF Whole
<1>7. l \notin torn /\ l \notin disturbed
  BY <1>3, <1>5, TornStays
<1>8. ~BeingUnmounted(l)
  BY <1>2, <1>3, <1>7, NeededIsLeft DEF BeingUnmounted
<1>9. ASSUME NEW k \in DOMAIN calls[p], calls[p][k].at = i, i # j
      PROVE  Due(p, i, l)'
  <2>1. k # 1 /\ calls[p][k].on = l
    BY <1>1, <1>2, <1>3, <1>9 DEF Ahead
  <2> QED BY <1>1, <1>2, <1>9, <2>1, DueAfter
<1>10. CASE i = j
  BY <1>4, <1>10
<1>11. CASE i # j /\ ~HasMounts(l)
  <2>1. \E k \in DOMAIN calls[p] : calls[p][k].at = i
    BY <1>1, <1>2, <1>3, <1>7, <1>11 DEF Ahead
  <2> QED BY <1>9, <1>11, <2>1
<1>12. CASE i # j /\ HasMounts(l)
  <2>1. Top(l).bound[i] > 0 \/ \E q \in Process : Due(q, i, l)
    BY <1>1, <1>3, <1>7, <1>8, <1>12 DEF Whole
  <2>2. ASSUME NEW q \in Process, Due(q, i, l) PROVE Due(q, i, l)'
    <3>1. CASE q = p
      BY <1>9, <1>12, <2>2, <3>1 DEF Due
    <3>2. CASE q # p
      BY <2>2, <3>2, OthersDue DEF Inv
    <3> QED BY <3>1, <3>2
  <2> QED BY <1>4, <2>1, <2>2
<1> QED BY <1>10, <1>11, <1>12

\* A call on another layer.
LEMMA WholeBesideCall ==
    ASSUME Inv, CompleteInv, NEW p \in Process, Step(p), NEW l \in Layer,
           pc[p] = "calls", calls[p] # <<>>, l # Head(calls[p]).on
    PROVE  Whole(l)'
<1>1. roots'[l] = roots[l]
  BY RootsChange
<1>2. Head(calls[p]).do \in {"mount", "umount"} /\ Head(calls[p]) = calls[p][1]
  BY HeadCall DEF Inv, Call
<1>3. ~Unmounts(p, l)
  BY <1>2, CallsWithin DEF Unmounts, Mounts
<1>4. l \in torn => l \in torn'
  BY <1>3, TornStays
<1>5. \A i : ~Due(p, i, l)
  BY <1>2, DueThere
<1> QED BY <1>1, <1>3, <1>4, <1>5, WholeElsewhere

\* A call on the layer fails, or what unmounts the layer ends.
LEMMA WholeAfterError ==
    ASSUME Inv, CompleteInv, NEW p \in Process, Step(p), NEW l \in Layer,
           \/ CallFails(p) /\ l = Head(calls[p]).on
           \/ Unmounted(p)
    PROVE  Whole(l)'
<1>1. pc[p] = "calls" /\ roots' = roots
  BY DEF CallFails, Unmounted
<1>2. CASE l \in torn'
  BY <1>2 DEF Whole
<1>3. CASE roots[l] = Bare
  <2>1. ~HasMounts(l)'
    BY <1>1, <1>3, BareHasNoneNext
  <2> QED BY <2>1, EmptyIsWhole
<1>4. CASE l \notin torn' /\ roots[l] # Bare /\ CallFails(p)
  <2>1. /\ calls[p] # <<>> /\ l = Head(calls[p]).on /\ torn' = torn
        /\ Head(calls[p]).do = "mount" /\ Head(calls[p]).at = "overlay"
    BY <1>4 DEF CallFails, Unmounted
  <2>2. cmd[p].op \in Mounts /\ Head(calls[p]) = calls[p][1]
    BY <1>1, <2>1, CallsWithin, HeadCall DEF Inv
  <2>3. ~Unmounts(p, l) /\ \A i : ~Due(p, i, l)
    BY <2>1, <2>2 DEF Unmounts, Due, Mounts
  <2> QED BY <1>1, <2>1, <2>3, WholeElsewhere
<1>5. CASE l \notin torn' /\ roots[l] # Bare /\ Unmounted(p)
  <2>1. /\ cmd[p].op = "umount" /\ cmd[p].on # l /\ (l \in torn => l \in torn')
    BY <1>5 DEF Unmounted
  <2>2. ~Unmounts(p, l) /\ \A i : ~Due(p, i, l)
    BY <2>1 DEF Unmounts, Due, Mounts
  <2> QED BY <1>1, <2>1, <2>2, WholeElsewhere
<1> QED BY <1>2, <1>3, <1>4, <1>5

LEMMA WholeNext ==
    ASSUME Inv, TypeInv', CompleteInv, NEW p \in Process, Step(p), NEW l \in Layer
    PROVE  Whole(l)'
<1>1. CASE pc[p] = "calls" /\ calls[p] # <<>> /\ l # Head(calls[p]).on
  BY <1>1, WholeBesideCall
<1>2. CASE MountOverlay(p) /\ l = Head(calls[p]).on
  BY <1>2, WholeMountOverlay
<1>3. CASE MountImport(p) /\ l = Head(calls[p]).on
  BY <1>3, WholeMountImport
<1>4. CASE (UnmountImport(p) \/ UnmountOverlay(p)) /\ l = Head(calls[p]).on
  <2>1. /\ pc[p] = "calls" /\ calls[p] # <<>> /\ Head(calls[p]).do = "umount"
        /\ UNCHANGED <<pc, cmd>>
    BY <1>4 DEF UnmountImport, UnmountOverlay, NextCallIs, Called
  <2>2. Unmounts(p, l)
    BY <1>4, <2>1, CallsWithin DEF Unmounts
  <2>3. BeingUnmounted(l)'
    BY <2>1, <2>2 DEF BeingUnmounted, Unmounts
  <2> QED BY <2>3 DEF Whole
<1>5. CASE (CallFails(p) /\ l = Head(calls[p]).on) \/ Unmounted(p)
  BY <1>5, WholeAfterError
<1>6. CASE pc[p] = "write"
  <2>1. cmd[p].op \in Writes /\ AtWork(p)
    BY <1>6 DEF Inv, TypeInv, Phase, AtWork
  <2>2. roots'[l] = roots[l]
    BY <1>6, RootsChange
  <2>3. CASE cmd[p].on = l
    <3>1. l \in disturbed \/ ~HasMounts(l)
      BY <1>6, <2>1, <2>3 DEF CompleteInv, Clear
    <3>2. CASE l \in disturbed
      BY <3>2, DisturbedStays DEF Whole
    <3> QED BY <2>2, <3>1, <3>2, SameRoots, EmptyIsWhole
  <2>4. CASE cmd[p].on # l
    <3>1. ~Unmounts(p, l) /\ \A i : ~Due(p, i, l)
      BY <1>6 DEF Unmounts, Due
    <3>2. l \in torn => l \in torn'
      BY <3>1, TornStays
    <3> QED BY <2>2, <2>4, <3>1, <3>2, WholeElsewhere
  <2> QED BY <2>3, <2>4
<1>7. CASE pc[p] # "calls" /\ pc[p] # "write"
  <2>1. ~Unmounts(p, l) /\ \A i : ~Due(p, i, l)
    BY <1>7 DEF Unmounts, Due
  <2>2. roots'[l] = roots[l]
    BY <1>7, RootsChange
  <2>3. l \in torn => l \in torn'
    BY <2>1, TornStays
  <2> QED BY <1>7, <2>1, <2>2, <2>3, WholeElsewhere
<1>8. CASE Refresh(p) \/ Mounted(p)
  <2>1. ~Unmounts(p, l) /\ (\A i : ~Due(p, i, l)) /\ pc[p] = "calls" /\ calls[p] = <<>>
    BY <1>8 DEF Unmounts, Due, Refresh, Mounted, Mounts
  <2>2. roots'[l] = roots[l]
    BY <2>1, RootsChange
  <2>3. l \in torn => l \in torn'
    BY <2>1, TornStays
  <2> QED BY <2>1, <2>2, <2>3, WholeElsewhere
<1>9. pc[p] = "calls" =>
         \/ MountOverlay(p) \/ MountImport(p) \/ UnmountImport(p) \/ UnmountOverlay(p)
         \/ CallFails(p) \/ Unmounted(p) \/ Refresh(p) \/ Mounted(p)
  BY DEF Step, Begin, List, Look, Scanned, ProbeForMount, ProbeForUnmount, ProbeForChroot,
         ProbeForWrite, WriteLayer, RemoveLayer, Refused, Enter, Leave
<1>10. MountOverlay(p) \/ MountImport(p) \/ UnmountImport(p) \/ UnmountOverlay(p) \/ CallFails(p)
         => pc[p] = "calls" /\ calls[p] # <<>>
  BY DEF MountOverlay, MountImport, UnmountImport, UnmountOverlay, CallFails, NextCallIs
<1> QED BY <1>1, <1>2, <1>3, <1>4, <1>5, <1>6, <1>7, <1>8, <1>9, <1>10

LEMMA CompleteNext ==
    ASSUME Inv, Inv', CompleteInv, [Next]_vars
    PROVE  CompleteInv'
<1>1. CASE Next
  <2>1. PICK p \in Process : Step(p)
    BY <1>1 DEF Next
  <2>2. TypeInv'
    BY DEF Inv
  <2>3. \A l \in Layer : Whole(l)' /\ Known(l)'
    BY <2>1, <2>2, WholeNext, KnownNext
  <2>4. \A q \in Process : Ahead(q)' /\ Clear(q)'
    BY <2>1, AheadNext, ClearNext
  <2> QED BY <2>3, <2>4 DEF CompleteInv
<1>2. CASE UNCHANGED vars
  <2>1. UNCHANGED <<layers, base, roots, torn, disturbed, pc, cmd, calls>>
    BY <1>2 DEF vars, shared, local
  <2>2. \A l : Whole(l)' <=> Whole(l)
    BY <2>1 DEF Whole, BeingUnmounted, Unmounts, Due, OverlayOn, BoundOn, HasMounts, Top
  <2>3. \A l : Known(l)' <=> Known(l)
    BY <2>1 DEF Known, OverlayOn, BoundOn, HasMounts, Top
  <2>4. \A q \in Process : (Ahead(q)' <=> Ahead(q)) /\ (Clear(q)' <=> Clear(q))
    BY <2>1 DEF Ahead, Clear, AtWork, OverlayOn, BoundOn, HasMounts, Top
  <2> QED BY <2>2, <2>3, <2>4 DEF CompleteInv
<1> QED BY <1>1, <1>2

LEMMA CompleteInit == Init => CompleteInv
<1> SUFFICES ASSUME Init PROVE CompleteInv
  OBVIOUS
<1>1. \A l \in Layer : ~HasMounts(l)
  <2>1. \A l \in Layer : roots[l] = Bare
    BY DEF Init
  <2> QED BY <2>1, BareHasNone
<1>2. \A p \in Process : pc[p] = "idle"
  BY DEF Init
<1> QED BY <1>1, <1>2 DEF CompleteInv, Whole, Known, Ahead, Clear, AtWork, HasMounts

\* However the calls of mount commands mix that have read the mount table at
\* different times, once no command is at work on an undisturbed mounted layer
\* every import is mounted in the root that a shell would get, unless a call has
\* failed there.
THEOREM MountsComplete == Spec => []MountedIsComplete
<1>1. Inv /\ CompleteInv => MountedIsComplete
  <2> SUFFICES ASSUME Inv, CompleteInv, NEW l \in layers \ (torn \cup disturbed), HasMounts(l),
                      Resting(l), NEW i \in Import
               PROVE  Top(l).bound[i] > 0
    BY DEF MountedIsComplete
  <2>1. Whole(l)
    BY DEF CompleteInv, Inv, TypeInv, TypeOK
  <2>2. ~BeingUnmounted(l)
    BY DEF BeingUnmounted, Unmounts, Resting
  <2>3. ASSUME NEW p \in Process, Due(p, i, l) PROVE FALSE
    <3>1. l = calls[p][1].on
      BY <2>3, DueThere
    <3>2. l \in needs[p]
      BY <2>3, <3>1, MountsNeeded DEF Due
    <3> QED BY <2>3, <3>2 DEF Due, Resting, Mounts
  <2> QED BY <2>1, <2>2, <2>3 DEF Whole
<1>2. Inv /\ Inv' /\ CompleteInv /\ [Next]_vars => CompleteInv'
  BY CompleteNext
<1> QED BY <1>1, <1>2, CompleteInit, AlwaysInv, PTL DEF Spec
=============================================================================
