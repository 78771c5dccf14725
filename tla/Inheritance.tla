---------------------------- MODULE Inheritance ----------------------------
(***************************************************************************)
(* The inheritance relation of layers.  A layer's layerconfig file names   *)
(* at most one base layer; readLayerFiles collects the layers into a map   *)
(* and every later step of a command walks that map from a layer to its    *)
(* ultimate base (src/manage/probe.go, layerinfo.go, normalizeOrder.go).   *)
(*                                                                         *)
(* A map is given by the set L of layers that have a readable layerconfig  *)
(* and a function b that takes each of them to its base, or to NoBase.     *)
(* The first half defines what the walks are for; the second half is the   *)
(* walks themselves, which LayerMap compares with the first half.          *)
(***************************************************************************)
EXTENDS Naturals, FiniteSets, Sequences

CONSTANTS Layer,   \* the legal layer names
          NoBase   \* the base of a base layer (the empty string in the code)

ASSUME NoBaseAssumption == NoBase \notin Layer

-----------------------------------------------------------------------------
(* What the walks are for. *)

\* Every base that a layerconfig names is itself a layer.
Closed(L, b) == \A l \in L : b[l] \in L \cup {NoBase}

\* No layer is its own ancestor: no set of layers goes round in itself.  (In a
\* finite map this says that walks end.)
Acyclic(L, b) == ~\E S \in SUBSET L : S # {} /\ \A l \in S : b[l] \in S

\* The maps that checkInheritance accepts.
Inheritable(L, b) == Closed(L, b) /\ Acyclic(L, b)

\* The layers whose layerconfig names l as their base.
Children(L, b, l) == {c \in L : b[c] = l}

\* l and the layers it derives from, directly or not: what no set of layers
\* with l in it leaves out, unless it leaves out the base of a member.
AncestorsAndSelf(L, b, l) ==
    {a \in L : \A S \in SUBSET L :
        l \in S /\ a \notin S => \E d \in S : b[d] \in L \ S}

\* The base layer at the end of l's chain.
RootOf(L, b, l) ==
    CHOOSE a \in AncestorsAndSelf(L, b, l) : b[a] = NoBase

\* The map after a layer is renamed and its children's layerconfig patched.
RenamedBase(b, old, new) ==
    [l \in Layer |->
        IF l = new THEN b[old]
        ELSE IF l = old THEN NoBase
        ELSE IF b[l] = old THEN new ELSE b[l]]

-----------------------------------------------------------------------------
(* The walks.  Each is a loop over the map; n counts its iterations.       *)

\* Mutation: a walk that takes a missing base for the end of the chain.
CheckWalkMissingIsEnd(L, b, l) ==
    LET step(s) ==
          IF s.failed \/ s.base \notin L THEN s
          ELSE IF s.base \in s.visited
               THEN [s EXCEPT !.failed = TRUE]
               ELSE [base    |-> b[s.base],
                     visited |-> s.visited \cup {s.base},
                     failed  |-> FALSE]
        walk[n \in 0 .. Cardinality(L)] ==
          IF n = 0
          THEN [base |-> b[l], visited |-> {l}, failed |-> FALSE]
          ELSE step(walk[n-1])
    IN  walk[Cardinality(L)]

\* checkInheritance's inner loop from layer l: the base it looks at next,
\* the names visited and whether it has returned an error.
CheckWalk(L, b, l) ==
    LET step(s) ==
          IF s.failed \/ s.base = NoBase THEN s
          ELSE IF s.base \notin L \/ s.base \in s.visited
               THEN [s EXCEPT !.failed = TRUE]
               ELSE [base    |-> b[s.base],
                     visited |-> s.visited \cup {s.base},
                     failed  |-> FALSE]
        walk[n \in 0 .. Cardinality(L)] ==
          IF n = 0
          THEN [base |-> b[l], visited |-> {l}, failed |-> FALSE]
          ELSE step(walk[n-1])
    IN  walk[Cardinality(L)]

\* checkInheritance returns no error.
CheckInheritance(L, b) == \A l \in L : ~CheckWalk(L, b, l).failed

\* Mutation: the chain filled from the front, the layer itself first.
AncestorsSelfFirst(L, b, l) ==
    LET chain[n \in 1 .. Cardinality(L)] ==
          IF n = 1 THEN <<l>>
          ELSE IF b[chain[n-1][Len(chain[n-1])]] = NoBase THEN chain[n-1]
               ELSE Append(chain[n-1], b[chain[n-1][Len(chain[n-1])]])
    IN  chain[Cardinality(L)]

\* getAncestorsAndSelf: l's chain, the ultimate base first.  The slice is as
\* long as the map; a chain that overruns it indexes below zero and panics.
GetAncestorsAndSelf(L, b, l) ==
    LET chain[n \in 1 .. Cardinality(L)] ==
          IF n = 1 THEN <<l>>
          ELSE IF b[Head(chain[n-1])] = NoBase THEN chain[n-1]
               ELSE <<b[Head(chain[n-1])]>> \o chain[n-1]
    IN  chain[Cardinality(L)]

\* findLayerBase: the first layer of that chain.
FindLayerBase(L, b, l) == Head(GetAncestorsAndSelf(L, b, l))
=============================================================================
