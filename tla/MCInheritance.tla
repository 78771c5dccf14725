--------------------------- MODULE MCInheritance ---------------------------
(***************************************************************************)
(* Compares the walks of module Inheritance with what they are for, and the*)
(* order of the layers with the tree, over every map of four names.  The   *)
(* maps change one layerconfig at a time, as they do when a user writes,   *)
(* edits or removes the files by hand; a base may be missing, a layer may  *)
(* be its own ancestor.                                                    *)
(***************************************************************************)
EXTENDS NormalizedOrder, TLC

ASSUME FiniteAssumption == IsFiniteSet(Layer)

vars == <<layers, base>>

\* Names are spelled over three characters in their byte order: the hyphen,
\* which sorts before the separator "/", the separator, and a letter.
Hyphen == 1
Slash == 2   \* which is the separator
Letter == 3

\* Four spellings, among them a name that is a prefix of another and one
\* that goes on with a hyphen.
Spellings == {<<Letter>>, <<Letter, Hyphen>>, <<Letter, Hyphen, Letter>>,
              <<Letter, Letter>>}
Spelled == CHOOSE f \in [Layer -> Spellings] :
               \A k, l \in Layer : k # l => f[k] # f[l]

Init == layers = {} /\ base = [l \in Layer |-> NoBase]

\* A user writes the layerconfig of l, with any base line.
WriteLayerconfig(l, b) ==
    /\ layers' = layers \cup {l}
    /\ base' = [base EXCEPT ![l] = b]

\* A user removes the layer directory of l.
RemoveLayerconfig(l) ==
    /\ l \in layers
    /\ layers' = layers \ {l}
    /\ base' = [base EXCEPT ![l] = NoBase]

Next == \E l \in Layer :
            \/ \E b \in Layer \cup {NoBase} : WriteLayerconfig(l, b)
            \/ RemoveLayerconfig(l)

Spec == Init /\ [][Next]_vars
=============================================================================
