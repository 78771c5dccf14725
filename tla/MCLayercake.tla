---------------------------- MODULE MCLayercake ----------------------------
(***************************************************************************)
(* Values of Layercake's constants for TLC, and a claim of the            *)
(* documentation that the code does not meet, checked in a run of its own  *)
(* that ends in a counterexample.                                          *)
(***************************************************************************)
EXTENDS Layercake, TLC

\* The names of layers are interchangeable.
Symmetry == Permutations(Layer)

\* A new base layer gets all imports.
FullConfig == {Import}

\* A layer is populated in one go, or its mountpoints come later.
FullInstall == {Content}
StagedInstalls == {{"fhs"}, Import}

-----------------------------------------------------------------------------
(* What the documentation claims.                                          *)

\* doc/layercake_layerconfig.adoc: rebase alters the base directive "upon
\* making the proper safety checks".  RebaseLayer checks the map as it was
\* read; on a new base that derives from the layer normalizeOrder then loops.
RebaseChecksSuffice ==
    Loadable => \A l \in layers, b \in layers \cup {NoBase} :
        Rebasable(l, b) => Inheritable(layers, [base EXCEPT ![l] = b])
=============================================================================
