------------------------------- MODULE MCAtoms ------------------------------
(***************************************************************************)
(* Versions and packages for TLC.                                          *)
(***************************************************************************)
EXTENDS AtomSet

V(numbers, letter, suffix, number, revision) ==
    [numbers |-> numbers, letter |-> letter, suffix |-> suffix,
     suffixNumber |-> number, revision |-> revision]

\* In base 2 with width 2: numbers of one and two digits, with leading zeros.
SomeVersions ==
    {V(<<<<1>>>> \o n, l, "none", <<>>, <<>>) :
       n \in {<<>>, <<<<0>>>>, <<<<0, 1>>>>, <<<<1, 0>>>>}, l \in {NoLetter, 26}}
      \cup {V(<<<<1>>>>, NoLetter, s[1], s[2], r) :
              s \in {<<"none", <<>>>>, <<"_rc", <<1>>>>, <<"_rc", <<1, 0>>>>, <<"_p", <<>>>>},
              r \in {<<>>, <<1>>}}
      \cup {V(<<<<1>>, <<1>>>>, NoLetter, "none", <<>>, <<>>),
            V(<<<<1>>>>, 2, "_p", <<1>>, <<>>), V(<<<<1>>, <<1>>>>, NoLetter, "none", <<>>, <<1, 0>>),
            V(<<<<1>>>>, NoLetter, "_alpha", <<1>>, <<1, 0>>)}

Package(v) == [name |-> "n", version |-> v, slot |-> v.numbers, flags |-> <<>>]
Packages == {Package(v) : v \in SomeVersions}
=============================================================================
