------------------------------ MODULE AtomSet -------------------------------
(***************************************************************************)
(* A set of packages to which packages are added, and from which they are  *)
(* removed, in any order.                                                  *)
(***************************************************************************)
EXTENDS Atoms

CONSTANTS Entry,      \* the packages
          Grouping,   \* by what a name's packages are told apart
          Version,    \* the versions that atoms may give
          MaxSize     \* bound: how many packages of a name there may be

ASSUME EntryAssumption == \A e \in Entry : /\ IsVersion(e.version)
                                           /\ e.slot \in Seq(Seq(Digit)) \ {<<>>}
ASSUME VersionAssumption == \A v \in Version : IsVersion(v)
ASSUME GroupingAssumption == Grouping \in {"version", "slot"}
ASSUME MaxSizeAssumption == MaxSize \in Nat

VARIABLE atoms   \* for every name the sequence of its packages

Names == {e.name : e \in Entry}

Members == UNION {{atoms[n][k] : k \in DOMAIN atoms[n]} : n \in Names}

Init == atoms = [n \in Names |-> <<>>]

AddAtom(e) ==
    /\ Len(atoms[e.name]) < MaxSize
    /\ atoms' = [atoms EXCEPT ![e.name] = Added(@, e, Grouping)]

RemoveAtom(e) == atoms' = [atoms EXCEPT ![e.name] = Removed(@, e, Grouping)]

Next == \E e \in Entry : AddAtom(e) \/ RemoveAtom(e)

Spec == Init /\ [][Next]_atoms

-----------------------------------------------------------------------------
\* The strings tell packages apart just as their slots or versions do: what is
\* in the set is what an abstract set has, and no string stands for two.
SameKey(d, e) == /\ d.name = e.name
                 /\ IF Grouping = "slot" THEN Values(d.slot) = Values(e.slot)
                    ELSE SameVersion(d.version, e.version)

Abstract == INSTANCE KeyedSet WITH Entry <- Entry, Same <- SameKey, members <- Members
ImplementsKeyedSet == Abstract!Spec

\* The atom of a dependency on versions of a package, in any slot.
AtomOf(name, relop, v) == [name |-> name, relop |-> relop, version |-> v,
                           slotRelop |-> "none", slot |-> <<>>, uses |-> <<>>]

\* FilterAtoms takes those of a name's packages whose version has the relation
\* to the atom's that the atom asks for, as versions and not as strings, as long
\* as no number is longer than the code provides for.
MatchIsExact ==
    \A n \in Names, v \in Version, relop \in Relop :
        /\ Fits(v) /\ \A e \in ToSet(atoms[n]) : Fits(e.version)
        /\ relop = "range" => NextVerEnds(CompVer(v, relop))
        => ToSet(FilterAtoms(AtomOf(n, relop, v), atoms[n], <<>>))
             = {e \in ToSet(atoms[n]) : Related(relop, v, e.version)}
=============================================================================
