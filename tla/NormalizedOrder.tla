-------------------------- MODULE NormalizedOrder ---------------------------
(***************************************************************************)
(* The order in which a command goes over the layers (normalizeOrder.go):  *)
(* they are sorted by keys, strings made of the names in their chains.     *)
(***************************************************************************)
EXTENDS LayerMap, Strings

CONSTANTS Spelling,   \* the characters of each layer's name
          Separator   \* the slash

\* A layer name is the name of a directory: other layers have other names, and
\* there is no slash in it.
ASSUME SpellingAssumption ==
    /\ Separator \in Nat
    /\ Spelling \in [Layer -> Seq(Nat \ {Separator})]
    /\ \A k, l \in Layer : k # l => Spelling[k] # Spelling[l]

\* Mutation: the key of a layer is its base's name and its own, and no more.
SortKeyOneLevel(L, b, l) ==
    (IF b[l] = NoBase THEN <<>> ELSE <<Separator>> \o Spelling[b[l]])
        \o <<Separator>> \o Spelling[l]

\* The sort key of normalizeOrder: the names of the chain, each after a
\* separator.
SortKey(L, b, l) ==
    LET chain == GetAncestorsAndSelf(L, b, l)
    IN  Separated(Separator, [n \in DOMAIN chain |-> Spelling[chain[n]]])

\* l's place in normalizedOrder: how many layers sort.Sort puts before it.
NormalizedPlace(L, b, l) ==
    Cardinality({k \in L : Less(SortKey(L, b, k), SortKey(L, b, l))})

-----------------------------------------------------------------------------
\* On an accepted map the order of normalizeOrder (normalizeOrder.go) is
\* total, and every layer comes after its base: ProbeAllLayerstate reads the
\* base's state before the layer's, and umount -all visits a layer before
\* its base, whatever the names.
OrderIsTopological ==
    LET place(l) == NormalizedPlace(layers, base, l)
    IN  Inheritable(layers, base) => \A l \in layers :
            /\ \A k \in layers \ {l} : place(k) # place(l)
            /\ base[l] # NoBase => place(base[l]) < place(l)
=============================================================================
