----------------------------- MODULE MCResolver -----------------------------
(***************************************************************************)
(* Installed packages and their dependencies for TLC.  The atoms of the    *)
(* dependencies are those of Atoms, the installed packages an AtomSet.     *)
(***************************************************************************)
EXTENDS Resolver, Atoms, TLC

\* Four packages: a is installed in two slots, b has the USE flag f.
Version(n) == [numbers |-> <<<<n>>>>, letter |-> NoLetter, suffix |-> "none",
               suffixNumber |-> <<>>, revision |-> <<>>]
Installed(id, name, n, iuse, use) ==
    [id |-> id, name |-> name, version |-> Version(n), slot |-> <<<<n>>>>,
     flags |-> UseFlags(iuse, use)]
Packages == {Installed("a0", "a", 0, {}, {}), Installed("a1", "a", 1, {}, {}),
             Installed("b", "b", 1, {"f"}, {"f"}), Installed("c", "c", 0, {"f"}, {})}
Ids == {e.id : e \in Packages}

\* GetInstalledPackageList: the packages in the order in which they are found.
Read(names) == FoldLeft(LAMBDA s, id : Added(s, CHOOSE e \in Packages : e.id = id, "slot"),
                        <<>>, names)
GetByName == "a" :> Read(<<"a0", "a1">>) @@ "b" :> Read(<<"b">>) @@ "c" :> Read(<<"c">>)
               @@ "none" :> <<>>

FlagsOf(q) == IF q \in Ids THEN (CHOOSE e \in Packages : e.id = q).flags ELSE <<>>
MCFlagIsSet(f, q) == Context(FlagsOf(q), f)

MCCandidates(d, q) ==
    IF d.type \notin {"atom", "blocker"} THEN <<>>
    ELSE LET found == FilterAtoms(d.atom, GetByName[d.atom.name], FlagsOf(q))
         IN  [k \in DOMAIN found |-> found[k].id]

-----------------------------------------------------------------------------
(* Dependencies.                                                           *)

Named(name) == [name |-> name, relop |-> "none", version |-> Version(0),
              slotRelop |-> "none", slot |-> <<>>, uses |-> <<>>]
Least(name) == [Named(name) EXCEPT !.relop = "ge", !.version = Version(1)]
WithSame(name) == [Named(name) EXCEPT !.uses =
                     <<[type |-> "same", default |-> "none", flag |-> "f"]>>]
Dependency(type, atom) == [type |-> type, flag |-> "f", atom |-> atom, deps |-> <<>>]
A == Dependency("atom", Named("a"))
A1 == Dependency("atom", Least("a"))
B == Dependency("atom", Named("b"))
Bf == Dependency("atom", WithSame("b"))
C == Dependency("atom", Named("c"))
None == Dependency("atom", Named("none"))
NotA1 == Dependency("blocker", Least("a"))
NotC == Dependency("blocker", Named("c"))

Group(type, deps) == [type |-> type, flag |-> "f", atom |-> Named("none"), deps |-> deps]
AllBNone == Group("all", <<B, None>>)
AllAC == Group("all", <<A, C>>)
Groups == {Group("any_of", <<AllAC, None>>), Group("any_of", <<None, C>>),
           Group("exactly_one_of", <<C, A>>), Group("at_most_one_of", <<B, C>>),
           Group("any_of", <<NotC, B>>), AllAC, Group("when_use_set", <<C>>),
           Group("when_use_unset", <<B, NotA1>>), Group("when_use_unset", <<None>>),
          Group("any_of", <<None>>), Group("any_of", <<AllBNone, A1>>)}
Deps == {A, A1, B, Bf, C, None, NotA1, NotC, AllBNone} \cup Groups
MCDepth(d) ==
    LET depth[e \in Deps] ==
          IF e.deps = <<>> THEN 0 ELSE 1 + Max({depth[e.deps[k]] : k \in DOMAIN e.deps})
    IN  depth[d]

\* What each package may depend on.
OfA0 == {<<>>, <<B>>, <<NotC>>, <<Group("any_of", <<NotC, B>>), None>>}
OfA1 == {<<>>, <<Group("any_of", <<None, C>>)>>, <<B, NotC>>}
OfB == {<<>>, <<A>>, <<NotA1>>, <<Group("when_use_set", <<C>>)>>,
        <<Group("exactly_one_of", <<C, A>>)>>, <<Group("when_use_unset", <<None>>)>>}
OfC == {<<>>, <<Bf>>, <<Group("when_use_unset", <<B, NotA1>>), A1>>, <<AllAC, B>>,
        <<Group("any_of", <<AllBNone, A1>>)>>, <<Group("any_of", <<None>>)>>,
        <<Group("at_most_one_of", <<B, C>>), Group("any_of", <<AllAC, None>>)>>}

\* What the user enters: atoms with a category, one that is in two, one in none.
Known(d, blocker) == [means |-> {d}, blocker |-> blocker]
Unknown(blocker) == [means |-> {}, blocker |-> blocker]
Ambiguous == [means |-> {A, B}, blocker |-> FALSE]
MCBlocks(e) == e.blocker
MCMeaning(e) == e.means
MCEntered == {Known(d, FALSE) : d \in {A, A1, B, C, None}}
              \cup {Known(d, TRUE) : d \in {NotA1, NotC}}
              \cup {Unknown(TRUE), Unknown(FALSE), Ambiguous}
Requests == {<<Known(A, FALSE)>>, <<Known(B, FALSE), Known(NotC, TRUE)>>,
             <<Known(C, FALSE), Unknown(TRUE)>>, <<Known(A1, FALSE), Unknown(FALSE), Ambiguous>>,
             <<Known(C, FALSE), Known(B, FALSE), Known(NotA1, TRUE)>>, <<Ambiguous>>}

MCStart == {[depends |-> "a0" :> a0 @@ "a1" :> a1 @@ "b" :> b @@ "c" :> c, entered |-> e] :
              a0 \in OfA0, a1 \in OfA1, b \in OfB, c \in OfC, e \in Requests}
=============================================================================
