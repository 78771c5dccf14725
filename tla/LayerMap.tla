------------------------------ MODULE LayerMap ------------------------------
(***************************************************************************)
(* The layer map as a command has it from the layerconfig files, or as the *)
(* files have it themselves, and what the walks over it must do in every   *)
(* state of a system that has one.  The modules that say how the map comes *)
(* to be extend this one.                                                  *)
(***************************************************************************)
EXTENDS Inheritance

VARIABLES layers,   \* the layers
          base      \* the base of each layer, NoBase elsewhere

\* checkInheritance (probe.go) accepts a map exactly when every base exists
\* and no layer is its own ancestor.
CheckInheritanceIsExact ==
    CheckInheritance(layers, base) <=> Inheritable(layers, base)

\* On an accepted map getAncestorsAndSelf (layerinfo.go) returns the layer's
\* ancestors and itself, without repeats, each after its base, and
\* findLayerBase returns the only one of them that has no base.
ChainIsComplete ==
    Inheritable(layers, base) => \A l \in layers :
        LET chain == GetAncestorsAndSelf(layers, base, l) IN
        /\ {chain[i] : i \in DOMAIN chain} = AncestorsAndSelf(layers, base, l)
        /\ Len(chain) = Cardinality(AncestorsAndSelf(layers, base, l))
        /\ \A i \in 2 .. Len(chain) : base[chain[i]] = chain[i-1]
        /\ {a \in AncestorsAndSelf(layers, base, l) : base[a] = NoBase}
             = {FindLayerBase(layers, base, l)}
=============================================================================
