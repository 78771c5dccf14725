----------------------------- MODULE LayerTree -----------------------------
(***************************************************************************)
(* What the layer commands promise about the layer tree, leaving aside how *)
(* the layers are stored, mounted and used: add, remove, rename and rebase *)
(* each take one tree to another, and the tree can always be inherited     *)
(* from.  A tree that cannot (a base that is missing, a cycle) makes       *)
(* FindLayers fail, and with it every command there is to repair it.       *)
(* Module Layercake implements this specification.                         *)
(***************************************************************************)
EXTENDS LayerMap

vars == <<layers, base>>

TypeOK == /\ layers \subseteq Layer
          /\ base \in [Layer -> Layer \cup {NoBase}]

Init == /\ layers = {}
        /\ base = [l \in Layer |-> NoBase]

\* A new layer derives from an existing one or from none.
Add(l, b) == /\ l \notin layers
             /\ b \in layers \cup {NoBase}
             /\ layers' = layers \cup {l}
             /\ base' = [base EXCEPT ![l] = b]

\* Only a layer without children goes.
Remove(l) == /\ l \in layers
             /\ Children(layers, base, l) = {}
             /\ layers' = layers \ {l}
             /\ base' = [base EXCEPT ![l] = NoBase]

\* The children follow their base to its new name.
Rename(old, new) == /\ old \in layers
                    /\ new \notin layers
                    /\ layers' = (layers \ {old}) \cup {new}
                    /\ base' = RenamedBase(base, old, new)

\* A layer may be put on any other base that leaves a tree.
Rebase(l, b) == /\ l \in layers
                /\ b \in layers \cup {NoBase}
                /\ base' = [base EXCEPT ![l] = b]
                /\ Inheritable(layers, base')
                /\ UNCHANGED layers

Next == \/ \E l \in Layer, b \in Layer \cup {NoBase} : Add(l, b) \/ Rebase(l, b)
        \/ \E l \in Layer : Remove(l)
        \/ \E old, new \in Layer : Rename(old, new)

Spec == Init /\ [][Next]_vars

\* Names that are not layers have no base.
Tidy == \A l \in Layer : l \notin layers => base[l] = NoBase
=============================================================================
