------------------------- MODULE Inheritance_proofs -------------------------
(***************************************************************************)
(* Facts about layer maps: what a chain is, that it ends in one base layer,*)
(* how it follows a change of the map, and which changes leave a tree; that*)
(* the walks, which are loops over finite maps, do what they are for; and  *)
(* that the layers are sorted in an order that follows the tree.  L is the *)
(* set of layers of the map and b its base function.                       *)
(***************************************************************************)
EXTENDS NormalizedOrder, Recursion_proofs, TLAPS

\* A layer is in its own chain (getAncestorsAndSelf), and the chain consists of
\* layers.
LEMMA ChainSelf ==
    ASSUME NEW L, NEW b, NEW l \in L
    PROVE  /\ l \in AncestorsAndSelf(L, b, l)
           /\ AncestorsAndSelf(L, b, l) \subseteq L
  BY DEF AncestorsAndSelf

\* The base of a layer in a chain is in the chain.
LEMMA ChainStep ==
    ASSUME NEW L, NEW b, NEW l, NEW a \in AncestorsAndSelf(L, b, l), b[a] \in L
    PROVE  b[a] \in AncestorsAndSelf(L, b, l)
  BY DEF AncestorsAndSelf

\* Nothing else is: a set of layers that has l and the bases of its members has
\* the whole chain.
LEMMA ChainLeast ==
    ASSUME NEW L, NEW b, NEW l, NEW S \in SUBSET L, l \in S,
           \A d \in S : b[d] \in L => b[d] \in S
    PROVE  AncestorsAndSelf(L, b, l) \subseteq S
  BY DEF AncestorsAndSelf

\* The chain of an ancestor is part of the chain.
LEMMA ChainNested ==
    ASSUME NEW L, NEW b, NEW l \in L, NEW a \in AncestorsAndSelf(L, b, l)
    PROVE  AncestorsAndSelf(L, b, a) \subseteq AncestorsAndSelf(L, b, l)
  BY ChainSelf, ChainStep, ChainLeast

\* A chain is its layer and the chain of the base.
LEMMA ChainUnfold ==
    ASSUME NEW L, NEW b, NEW l \in L
    PROVE  /\ b[l] \notin L => AncestorsAndSelf(L, b, l) = {l}
           /\ b[l] \in L => AncestorsAndSelf(L, b, l)
                              = {l} \cup AncestorsAndSelf(L, b, b[l])
<1>1. ASSUME b[l] \notin L PROVE AncestorsAndSelf(L, b, l) = {l}
  <2> DEFINE S == {l}
  <2>1. S \in SUBSET L /\ l \in S /\ \A d \in S : b[d] \in L => b[d] \in S
    BY <1>1
  <2> HIDE DEF S
  <2>2. AncestorsAndSelf(L, b, l) \subseteq S
    BY <2>1, ChainLeast
  <2> QED BY <2>2, ChainSelf DEF S
<1>2. ASSUME b[l] \in L
      PROVE  AncestorsAndSelf(L, b, l) = {l} \cup AncestorsAndSelf(L, b, b[l])
  <2> DEFINE S == {l} \cup AncestorsAndSelf(L, b, b[l])
  <2>1. S \in SUBSET L /\ l \in S
    BY <1>2, ChainSelf
  <2>2. \A d \in S : b[d] \in L => b[d] \in S
    BY <1>2, ChainSelf, ChainStep
  <2>3. AncestorsAndSelf(L, b, l) \subseteq S
    <3> HIDE DEF S
    <3> QED BY <2>1, <2>2, ChainLeast
  <2>4. b[l] \in AncestorsAndSelf(L, b, l)
    BY <1>2, ChainSelf, ChainStep
  <2>5. S \subseteq AncestorsAndSelf(L, b, l)
    BY <2>4, ChainSelf, ChainNested
  <2> QED BY <2>3, <2>5
<1> QED BY <1>1, <1>2

\* An ancestor of a layer is the base of another layer of the chain.
LEMMA ChainChild ==
    ASSUME NEW L, NEW b, NEW l \in L, NEW a \in AncestorsAndSelf(L, b, l), a # l
    PROVE  \E c \in AncestorsAndSelf(L, b, l) : b[c] = a
<1> SUFFICES ASSUME \A c \in AncestorsAndSelf(L, b, l) : b[c] # a
             PROVE  FALSE
  OBVIOUS
<1> DEFINE S == AncestorsAndSelf(L, b, l) \ {a}
<1>1. S \in SUBSET L /\ l \in S
  BY ChainSelf
<1>2. \A d \in S : b[d] \in L => b[d] \in S
  BY ChainStep
<1> HIDE DEF S
<1>3. AncestorsAndSelf(L, b, l) \subseteq S
  BY <1>1, <1>2, ChainLeast
<1> QED BY <1>3 DEF S

\* In a map without cycles, two layers that are in each other's chain are one.
LEMMA ChainAntisymmetric ==
    ASSUME NEW L, NEW b, Inheritable(L, b), NEW l \in L,
           NEW a \in AncestorsAndSelf(L, b, l), l \in AncestorsAndSelf(L, b, a)
    PROVE  a = l
<1> SUFFICES ASSUME a # l PROVE FALSE
  OBVIOUS
<1> DEFINE S == {x \in AncestorsAndSelf(L, b, l) : l \in AncestorsAndSelf(L, b, x)}
<1>1. S \in SUBSET L /\ l \in S
  BY ChainSelf
<1>2. a \in L
  BY ChainSelf
<1>3. ASSUME NEW x \in S PROVE b[x] \in S
  <2>1. CASE x = l
    <3>1. b[l] \in L /\ a \in AncestorsAndSelf(L, b, b[l])
      BY ChainUnfold
    <3>2. l \in AncestorsAndSelf(L, b, b[l])
      BY <3>1, ChainNested
    <3>3. b[l] \in AncestorsAndSelf(L, b, l)
      BY <3>1, ChainSelf, ChainStep
    <3> QED BY <2>1, <3>2, <3>3
  <2>2. CASE x # l
    <3>1. x \in L
      BY <1>1
    <3>2. b[x] \in L /\ l \in AncestorsAndSelf(L, b, b[x])
      BY <2>2, <3>1, ChainUnfold
    <3>3. b[x] \in AncestorsAndSelf(L, b, l)
      BY <3>2, ChainStep
    <3> QED BY <3>2, <3>3
  <2> QED BY <2>1, <2>2
<1> QED BY <1>1, <1>3 DEF Inheritable, Acyclic

\* Every chain has a base layer in it, and no second one: findLayerBase ends,
\* and returns what RootOf is.
LEMMA RootExists ==
    ASSUME NEW L, NEW b, NoBase \notin L, Inheritable(L, b), NEW l \in L
    PROVE  /\ RootOf(L, b, l) \in AncestorsAndSelf(L, b, l)
           /\ b[RootOf(L, b, l)] = NoBase
<1>1. \E a \in AncestorsAndSelf(L, b, l) : b[a] = NoBase
  <2> SUFFICES ASSUME \A a \in AncestorsAndSelf(L, b, l) : b[a] # NoBase
               PROVE  FALSE
    OBVIOUS
  <2> DEFINE S == AncestorsAndSelf(L, b, l)
  <2>1. S \in SUBSET L /\ l \in S
    BY ChainSelf
  <2>2. \A a \in S : b[a] \in S
    BY <2>1, ChainStep DEF Inheritable, Closed
  <2> QED BY <2>1, <2>2 DEF Inheritable, Acyclic
<1> QED BY <1>1 DEF RootOf

LEMMA RootUnique ==
    ASSUME NEW L, NEW b, NoBase \notin L, Inheritable(L, b), NEW l \in L,
           NEW r \in AncestorsAndSelf(L, b, l), b[r] = NoBase
    PROVE  r = RootOf(L, b, l)
<1> DEFINE q == RootOf(L, b, l)
<1> SUFFICES ASSUME r # q PROVE FALSE
  OBVIOUS
<1>1. q \in AncestorsAndSelf(L, b, l) /\ b[q] = NoBase
  BY RootExists
<1> HIDE DEF q
<1> DEFINE S == {x \in AncestorsAndSelf(L, b, l) :
                    /\ q \in AncestorsAndSelf(L, b, x)
                    /\ r \in AncestorsAndSelf(L, b, x)}
<1>2. S \in SUBSET L /\ l \in S
  BY <1>1, ChainSelf
<1>3. ASSUME NEW x \in S PROVE b[x] \in S
  <2>1. x \in L
    BY <1>2
  <2>2. b[x] \in L
    <3> SUFFICES ASSUME b[x] \notin L PROVE FALSE
      OBVIOUS
    <3>1. AncestorsAndSelf(L, b, x) = {x}
      BY <2>1, ChainUnfold
    <3> QED BY <3>1
  <2>3. AncestorsAndSelf(L, b, x) = {x} \cup AncestorsAndSelf(L, b, b[x])
    BY <2>1, <2>2, ChainUnfold
  <2>4. x # q /\ x # r
    BY <1>1, <2>2
  <2>5. b[x] \in AncestorsAndSelf(L, b, l)
    BY <2>2, ChainStep
  <2> QED BY <2>3, <2>4, <2>5
<1> QED BY <1>2, <1>3 DEF Inheritable, Acyclic

\* A layer derives from the same base layer as its ancestors.
LEMMA RootShared ==
    ASSUME NEW L, NEW b, NoBase \notin L, Inheritable(L, b), NEW l \in L,
           NEW a \in AncestorsAndSelf(L, b, l)
    PROVE  RootOf(L, b, a) = RootOf(L, b, l)
<1>1. a \in L
  BY ChainSelf
<1>2. /\ RootOf(L, b, a) \in AncestorsAndSelf(L, b, l)
      /\ b[RootOf(L, b, a)] = NoBase
  BY <1>1, RootExists, ChainNested
<1> QED BY <1>2, RootUnique

\* A chain that a change of the map does not touch stays, and its base layer
\* with it.
LEMMA ChainUntouched ==
    ASSUME NEW L, NEW b, NEW M, NEW c, NoBase \notin M, Closed(L, b), NEW l \in L,
           AncestorsAndSelf(L, b, l) \subseteq M,
           \A a \in AncestorsAndSelf(L, b, l) : c[a] = b[a]
    PROVE  /\ AncestorsAndSelf(M, c, l) = AncestorsAndSelf(L, b, l)
           /\ RootOf(M, c, l) = RootOf(L, b, l)
<1> DEFINE old == AncestorsAndSelf(L, b, l)
           new == AncestorsAndSelf(M, c, l)
<1>1. l \in old /\ old \subseteq L /\ l \in M
  BY ChainSelf
<1>2. l \in new /\ new \subseteq M
  BY <1>1, ChainSelf
<1>3. new \subseteq old
  <2>1. \A d \in old : c[d] \in M => c[d] \in old
    BY <1>1, ChainStep DEF Closed
  <2> QED BY <1>1, <2>1, ChainLeast
<1>4. old \subseteq new
  <2>1. \A d \in new : b[d] \in L => b[d] \in new
    BY <1>1, <1>3, ChainStep
  <2> QED BY <1>1, <1>2, <1>3, <2>1, ChainLeast
<1>5. old = new
  BY <1>3, <1>4
<1>6. RootOf(M, c, l) = RootOf(L, b, l)
  BY <1>5 DEF RootOf
<1> QED BY <1>5, <1>6

-----------------------------------------------------------------------------
\* A map stays inheritable when a layer is added on top of one of its layers,
\* or beside them.
LEMMA InheritableAdd ==
    ASSUME NEW L \in SUBSET Layer, NEW b \in [Layer -> Layer \cup {NoBase}],
           Inheritable(L, b), NEW l \in Layer \ L, NEW k \in L \cup {NoBase}
    PROVE  Inheritable(L \cup {l}, [b EXCEPT ![l] = k])
<1> DEFINE c == [b EXCEPT ![l] = k]
           M == L \cup {l}
<1>1. c[l] = k /\ \A x \in L : c[x] = b[x]
  OBVIOUS
<1>2. Closed(M, c)
  BY <1>1 DEF Inheritable, Closed
<1>3. Acyclic(M, c)
  <2> SUFFICES ASSUME NEW S \in SUBSET M, S # {}, \A x \in S : c[x] \in S
               PROVE  FALSE
    BY DEF Acyclic
  <2>1. \A x \in S : c[x] # l
    BY <1>1, NoBaseAssumption DEF Inheritable, Closed
  <2> DEFINE T == S \ {l}
  <2>2. T \in SUBSET L /\ \A x \in T : b[x] \in T
    BY <1>1, <2>1
  <2>3. T # {}
    BY <2>1
  <2> QED BY <2>2, <2>3 DEF Inheritable, Acyclic
<1> QED BY <1>2, <1>3 DEF Inheritable

\* A map stays inheritable when a layer without children is removed.
LEMMA InheritableRemove ==
    ASSUME NEW L \in SUBSET Layer, NEW b \in [Layer -> Layer \cup {NoBase}],
           Inheritable(L, b), NEW l \in L, Children(L, b, l) = {}
    PROVE  Inheritable(L \ {l}, [b EXCEPT ![l] = NoBase])
<1> DEFINE c == [b EXCEPT ![l] = NoBase]
           M == L \ {l}
<1>1. \A x \in M : c[x] = b[x] /\ b[x] # l
  BY DEF Children
<1>2. Closed(M, c)
  BY <1>1 DEF Inheritable, Closed
<1>3. Acyclic(M, c)
  <2> SUFFICES ASSUME NEW S \in SUBSET M, S # {}, \A x \in S : c[x] \in S
               PROVE  FALSE
    BY DEF Acyclic
  <2>1. S \in SUBSET L /\ \A x \in S : b[x] \in S
    BY <1>1
  <2> QED BY <2>1 DEF Inheritable, Acyclic
<1> QED BY <1>2, <1>3 DEF Inheritable

\* A map stays inheritable when a layer, which may be there already, is written
\* with a base whose chain does not have it.
LEMMA InheritableWrite ==
    ASSUME NEW L \in SUBSET Layer, NEW b \in [Layer -> Layer \cup {NoBase}],
           Inheritable(L, b), NEW l \in Layer, NEW k \in L \cup {NoBase},
           k \in L => l \notin AncestorsAndSelf(L, b, k)
    PROVE  Inheritable(L \cup {l}, [b EXCEPT ![l] = k])
<1> DEFINE c == [b EXCEPT ![l] = k]
           M == L \cup {l}
<1>1. c[l] = k /\ \A x \in M \ {l} : c[x] = b[x] /\ x \in L
  OBVIOUS
<1>2. Closed(M, c)
  BY <1>1 DEF Inheritable, Closed
<1>3. Acyclic(M, c)
  <2> SUFFICES ASSUME NEW S \in SUBSET M, S # {}, \A x \in S : c[x] \in S
               PROVE  FALSE
    BY DEF Acyclic
  <2>1. CASE l \notin S
    <3>1. S \in SUBSET L /\ \A x \in S : b[x] \in S
      BY <1>1, <2>1
    <3> QED BY <3>1 DEF Inheritable, Acyclic
  <2>2. CASE l \in S
    <3>1. k \in S /\ k \in L
      BY <1>1, <2>2, NoBaseAssumption
    <3> DEFINE A == AncestorsAndSelf(L, b, k)
               T == S \cap A
    <3>2. k \in T /\ A \subseteq L /\ l \notin A
      BY <3>1, ChainSelf
    <3>3. \A x \in T : b[x] \in T
      <4> SUFFICES ASSUME NEW x \in T PROVE b[x] \in T
        OBVIOUS
      <4>1. x \in L /\ x # l /\ b[x] = c[x] /\ b[x] \in S
        BY <1>1, <3>2
      <4>2. b[x] \in L
        BY <4>1, NoBaseAssumption DEF Inheritable, Closed
      <4> QED BY <4>1, <4>2, ChainStep
    <3> QED BY <3>2, <3>3 DEF Inheritable, Acyclic
  <2> QED BY <2>1, <2>2
<1> QED BY <1>2, <1>3 DEF Inheritable

\* ... which is what the check of a rebase has made sure of.
LEMMA InheritableOnlyIf ==
    ASSUME NEW L \in SUBSET Layer, NEW b \in [Layer -> Layer \cup {NoBase}],
           NEW l \in L, NEW k \in L, Inheritable(L, [b EXCEPT ![l] = k])
    PROVE  l \notin AncestorsAndSelf(L, b, k)
<1> SUFFICES ASSUME l \in AncestorsAndSelf(L, b, k) PROVE FALSE
  OBVIOUS
<1> DEFINE c == [b EXCEPT ![l] = k]
           S == {x \in L : l \in AncestorsAndSelf(L, b, x)}
<1>1. S \in SUBSET L /\ k \in S
  OBVIOUS
<1>2. \A x \in S : c[x] \in S
  <2> SUFFICES ASSUME NEW x \in S PROVE c[x] \in S
    OBVIOUS
  <2>1. CASE x = l
    BY <1>1, <2>1
  <2>2. CASE x # l
    <3>1. c[x] = b[x]
      BY <2>2
    <3>2. b[x] \in L /\ l \in AncestorsAndSelf(L, b, b[x])
      BY <2>2, ChainUnfold
    <3> QED BY <3>1, <3>2
  <2> QED BY <2>1, <2>2
<1> QED BY <1>1, <1>2 DEF Inheritable, Acyclic

\* A map stays inheritable when a layer is renamed and its children follow.
LEMMA InheritableRename ==
    ASSUME NEW L \in SUBSET Layer, NEW b \in [Layer -> Layer \cup {NoBase}],
           Inheritable(L, b), NEW old \in L, NEW new \in Layer \ L
    PROVE  Inheritable((L \ {old}) \cup {new}, RenamedBase(b, old, new))
<1> DEFINE c == RenamedBase(b, old, new)
           M == (L \ {old}) \cup {new}
           name(x) == IF x = new THEN old ELSE x
<1>1. /\ c[new] = b[old]
      /\ \A x \in L \ {old} : c[x] = IF b[x] = old THEN new ELSE b[x]
  <2>1. c[new] = b[old]
    BY DEF RenamedBase
  <2>2. ASSUME NEW x \in L \ {old} PROVE c[x] = IF b[x] = old THEN new ELSE b[x]
    <3>1. x \in Layer /\ x # new /\ x # old
      OBVIOUS
    <3> QED BY <3>1 DEF RenamedBase
  <2> QED BY <2>1, <2>2
<1>2. b[old] # old /\ b[old] \in L \cup {NoBase}
  <2>1. ~\A x \in {old} : b[x] \in {old}
    <3> SUFFICES ASSUME \A x \in {old} : b[x] \in {old} PROVE FALSE
      OBVIOUS
    <3> DEFINE S == {old}
    <3>1. S \in SUBSET L /\ S # {} /\ \A x \in S : b[x] \in S
      OBVIOUS
    <3> HIDE DEF S
    <3> QED BY <3>1 DEF Inheritable, Acyclic
  <2> QED BY <2>1 DEF Inheritable, Closed
<1>3. Closed(M, c)
  <2> SUFFICES ASSUME NEW x \in M PROVE c[x] \in M \cup {NoBase}
    BY DEF Closed
  <2>1. CASE x = new
    BY <1>1, <1>2, <2>1
  <2>2. CASE x # new
    <3>1. x \in L /\ x # old
      BY <2>2
    <3>2. b[x] \in L \cup {NoBase}
      BY <3>1 DEF Inheritable, Closed
    <3> QED BY <1>1, <3>1, <3>2
  <2> QED BY <2>1, <2>2
<1>4. Acyclic(M, c)
  <2> SUFFICES ASSUME NEW S \in SUBSET M, S # {}, \A x \in S : c[x] \in S
               PROVE  FALSE
    BY DEF Acyclic
  <2> DEFINE T == {name(x) : x \in S}
  <2>1. T \in SUBSET L /\ T # {}
    OBVIOUS
  <2>2. ASSUME NEW y \in T PROVE b[y] \in T
    <3>1. PICK x \in S : y = name(x)
      OBVIOUS
    <3>2. c[x] \in S
      OBVIOUS
    <3>3. name(c[x]) = b[y]
      <4>1. CASE x = new
        <5>1. c[x] = b[old] /\ y = old
          BY <1>1, <3>1, <4>1
        <5>2. b[old] # new
          BY <1>2, NoBaseAssumption
        <5> QED BY <5>1, <5>2
      <4>2. CASE x # new
        <5>1. x \in L \ {old} /\ y = x
          BY <3>1, <4>2
        <5>2. b[x] # new
          BY <5>1, NoBaseAssumption DEF Inheritable, Closed
        <5> QED BY <1>1, <5>1, <5>2
      <4> QED BY <4>1, <4>2
    <3> QED BY <3>2, <3>3
  <2> HIDE DEF T
  <2> QED BY <2>1, <2>2 DEF Inheritable, Acyclic
<1> QED BY <1>3, <1>4 DEF Inheritable

-----------------------------------------------------------------------------
(* The walks.  L is finite: a directory has finitely many entries.          *)

\* What the loop of getAncestorsAndSelf has made of the chain of l at any time:
\* layers of the chain, each after its base, l the last.
PartOfChain(L, b, l, s) ==
    /\ s \in Seq(AncestorsAndSelf(L, b, l)) /\ s # <<>>
    /\ s[Len(s)] = l
    /\ \A i \in 2 .. Len(s) : b[s[i]] = s[i - 1]

\* One iteration.
Extended(b, s) == IF b[Head(s)] = NoBase THEN s ELSE <<b[Head(s)]>> \o s

\* An iteration leaves it part of the chain, one layer longer unless the base
\* layer has been reached.
LEMMA ExtendedIsPart ==
    ASSUME NEW L, NEW b, NoBase \notin L, Closed(L, b), NEW l \in L, NEW s,
           PartOfChain(L, b, l, s)
    PROVE  /\ PartOfChain(L, b, l, Extended(b, s))
           /\ b[Head(s)] # NoBase => Len(Extended(b, s)) = Len(s) + 1
<1> DEFINE A == AncestorsAndSelf(L, b, l)
<1>1. A \subseteq L /\ s \in Seq(A) /\ Len(s) \in Nat \ {0} /\ Head(s) = s[1] /\ s[1] \in A
  BY ChainSelf DEF PartOfChain
<1>2. CASE b[Head(s)] = NoBase
  BY <1>2 DEF Extended
<1>3. CASE b[Head(s)] # NoBase
  <2>1. b[Head(s)] \in A
    BY <1>1, <1>3, ChainStep DEF Closed
  <2> DEFINE t == <<b[Head(s)]>> \o s
  <2>2. t \in Seq(A) /\ Len(t) = Len(s) + 1 /\ t[1] = b[s[1]]
        /\ \A i \in 2 .. Len(t) : t[i] = s[i - 1]
    <3> HIDE DEF A
    <3> QED BY <2>1, <1>1
  <2>3. t # <<>> /\ t[Len(t)] = l
    BY <2>2, <1>1 DEF PartOfChain
  <2>4. ASSUME NEW i \in 2 .. Len(t) PROVE b[t[i]] = t[i - 1]
    <3>1. CASE i = 2
      BY <3>1, <2>2
    <3>2. CASE i # 2
      <4>1. i - 1 \in 2 .. Len(s)
        BY <3>2, <2>2, <1>1
      <4>2. t[i] = s[i - 1] /\ t[i - 1] = s[i - 2]
        BY <4>1, <2>2, <1>1
      <4> QED BY <4>1, <4>2, <1>1 DEF PartOfChain
    <3> QED BY <3>1, <3>2
  <2>5. Extended(b, s) = t
    BY <1>3 DEF Extended
  <2> HIDE DEF t
  <2> QED BY <2>2, <2>3, <2>4, <2>5 DEF PartOfChain
<1> QED BY <1>2, <1>3

\* The recursive function that stands for the loop has the values of its
\* iterations.
LEMMA WalkUnfold ==
    ASSUME NEW L, IsFiniteSet(L), NEW b, NoBase \notin L, Closed(L, b), NEW l \in L
    PROVE  \E chain :
              /\ chain = [n \in 1 .. Cardinality(L) |->
                    IF n = 1 THEN <<l>> ELSE Extended(b, chain[n - 1])]
              /\ GetAncestorsAndSelf(L, b, l) = chain[Cardinality(L)]
<1> DEFINE N == Cardinality(L)
           S == {s \in Seq(AncestorsAndSelf(L, b, l)) : PartOfChain(L, b, l, s)}
           step == [s \in S |-> Extended(b, s)]
           chain[n \in 1 .. N] ==
               IF n = 1 THEN <<l>>
               ELSE IF b[Head(chain[n-1])] = NoBase THEN chain[n-1]
                    ELSE <<b[Head(chain[n-1])]>> \o chain[n-1]
<1>1. GetAncestorsAndSelf(L, b, l) = chain[N]
  BY DEF GetAncestorsAndSelf
<1>2. N \in Nat \ {0}
  BY FS_CardinalityType, FS_EmptySet
<1>3. <<l>> \in S
  BY ChainSelf DEF PartOfChain
<1>4. step \in [S -> S]
  BY ExtendedIsPart DEF PartOfChain
<1>5. PICK f : Iterates(f, S, <<l>>, step, N - 1)
  <2>1. N - 1 \in Nat
    BY <1>2
  <2> HIDE DEF S, step, N
  <2> QED BY <2>1, <1>3, <1>4, IterationExists
<1> DEFINE g == [n \in 1 .. N |-> f[n - 1]]
<1>6. g = [n \in 1 .. N |-> IF n = 1 THEN <<l>> ELSE Extended(b, g[n - 1])]
  <2> SUFFICES ASSUME NEW n \in 1 .. N
               PROVE  g[n] = IF n = 1 THEN <<l>> ELSE Extended(b, g[n - 1])
    OBVIOUS
  <2> HIDE DEF S, N
  <2>1. CASE n = 1
    BY <2>1, <1>5 DEF Iterates
  <2>2. CASE n # 1
    <3>1. n - 1 \in 1 .. N - 1 /\ n - 2 \in 0 .. N - 1 /\ n - 1 - 1 = n - 2
      BY <2>2, <1>2
    <3>2. f[n - 1] = step[f[n - 2]] /\ f[n - 2] \in S
      BY <3>1, <1>5 DEF Iterates
    <3>3. g[n] = f[n - 1] /\ g[n - 1] = f[n - 2]
      BY <3>1, <1>2
    <3> QED BY <2>2, <3>2, <3>3
  <2> QED BY <2>1, <2>2
<1>7. chain = [n \in 1 .. N |-> IF n = 1 THEN <<l>> ELSE Extended(b, chain[n - 1])]
  BY <1>6 DEF Extended
<1> QED BY <1>1, <1>7

\* In a tree no layer comes twice in it.
LEMMA PartHasNoRepeats ==
    ASSUME NEW L, NEW b, NoBase \notin L, Inheritable(L, b), NEW l \in L, NEW s,
           PartOfChain(L, b, l, s),
           NEW i \in DOMAIN s, NEW j \in DOMAIN s, s[i] = s[j]
    PROVE  i = j
<1>1. /\ s \in Seq(L) /\ Len(s) \in Nat /\ DOMAIN s = 1 .. Len(s)
      /\ \A k \in 2 .. Len(s) : b[s[k]] = s[k - 1]
  <2> DEFINE A == AncestorsAndSelf(L, b, l)
  <2>1. A \subseteq L /\ s \in Seq(A)
    BY ChainSelf DEF PartOfChain
  <2> HIDE DEF A
  <2> QED BY <2>1 DEF PartOfChain
<1>2. ASSUME NEW m \in DOMAIN s, NEW n \in DOMAIN s, m < n, s[m] = s[n] PROVE FALSE
  <2> DEFINE S == {s[k] : k \in m .. n - 1}
  <2>1. S \in SUBSET L /\ S # {}
    BY <1>1, <1>2
  <2>2. ASSUME NEW k \in m .. n - 1 PROVE b[s[k]] \in S
    <3>1. CASE k = m
      <4>1. n \in 2 .. Len(s) /\ n - 1 \in m .. n - 1
        BY <1>1, <1>2
      <4> QED BY <4>1, <3>1, <1>1, <1>2
    <3>2. CASE k # m
      <4>1. k \in 2 .. Len(s) /\ k - 1 \in m .. n - 1
        BY <3>2, <1>1, <1>2
      <4> QED BY <4>1, <1>1
    <3> QED BY <3>1, <3>2
  <2> QED BY <2>1, <2>2 DEF Inheritable, Acyclic
<1> QED BY <1>1, <1>2

\* getAncestorsAndSelf, in a finite tree: the chain of l, the base layer first,
\* each after its base, without repeats and with nothing left out.
LEMMA WalkIsChain ==
    ASSUME NEW L, IsFiniteSet(L), NEW b, NoBase \notin L, Inheritable(L, b), NEW l \in L
    PROVE  LET s == GetAncestorsAndSelf(L, b, l)
           IN  /\ PartOfChain(L, b, l, s)
               /\ b[s[1]] = NoBase
<1> DEFINE N == Cardinality(L)
<1>1. N \in Nat \ {0}
  BY FS_CardinalityType, FS_EmptySet
<1>2. PICK chain : /\ chain = [n \in 1 .. N |-> IF n = 1 THEN <<l>> ELSE Extended(b, chain[n - 1])]
                   /\ GetAncestorsAndSelf(L, b, l) = chain[N]
  BY WalkUnfold DEF Inheritable
<1> HIDE DEF N
<1> DEFINE Good(n) == /\ PartOfChain(L, b, l, chain[n])
                      /\ b[Head(chain[n])] = NoBase \/ Len(chain[n]) = n
           P == {n \in 1 .. N : Good(n)}
<1>3. 1 \in P
  <2>1. PartOfChain(L, b, l, <<l>>)
    BY ChainSelf DEF PartOfChain
  <2>2. chain[1] = <<l>>
    BY <1>1, <1>2
  <2> QED BY <1>1, <2>1, <2>2
<1>4. ASSUME NEW n \in 1 .. N - 1, n \in P PROVE n + 1 \in P
  <2>1. chain[n + 1] = Extended(b, chain[n]) /\ n + 1 \in 1 .. N
    BY <1>1, <1>2
  <2>2. PartOfChain(L, b, l, chain[n + 1])
    BY <1>4, <2>1, ExtendedIsPart DEF Inheritable
  <2>3. CASE b[Head(chain[n])] = NoBase
    BY <2>1, <2>2, <2>3 DEF Extended
  <2>4. CASE b[Head(chain[n])] # NoBase
    <3>1. Len(chain[n + 1]) = Len(chain[n]) + 1 /\ Len(chain[n]) = n
      BY <1>4, <2>1, <2>4, ExtendedIsPart DEF Inheritable
    <3> QED BY <2>1, <2>2, <3>1
  <2> QED BY <2>3, <2>4
<1>5. Good(N)
  <2>1. P \in SUBSET Nat /\ 1 \in Nat /\ N \in Nat /\ N \in 1 .. N
    BY <1>1
  <2> HIDE DEF P
  <2>2. \A n \in 1 .. N : n \in P
    BY <1>3, <1>4, <2>1, IntervalInduction
  <2> QED BY <2>1, <2>2 DEF P
<1> DEFINE s == chain[N]
<1>6. /\ s \in Seq(L) /\ Len(s) \in Nat \ {0} /\ DOMAIN s = 1 .. Len(s) /\ Head(s) = s[1]
      /\ \A k \in 2 .. Len(s) : b[s[k]] = s[k - 1]
  <2> DEFINE A == AncestorsAndSelf(L, b, l)
  <2>1. A \subseteq L /\ s \in Seq(A) /\ s # <<>>
    BY <1>5, ChainSelf DEF PartOfChain
  <2> HIDE DEF A, s
  <2>2. PartOfChain(L, b, l, s)
    BY <1>5 DEF s
  <2> QED BY <2>1, <2>2 DEF PartOfChain
<1>7. ASSUME Len(s) = N, b[s[1]] # NoBase PROVE FALSE
  <2>1. PartOfChain(L, b, l, s)
    BY <1>5
  <2> HIDE DEF s
  <2>2. s \in [1 .. N -> L]
    BY <1>6, <1>7
  <2>3. \A i, j \in 1 .. N : s[i] = s[j] => i = j
    BY <1>6, <1>7, <2>1, PartHasNoRepeats
  <2>4. s \in Injection(1 .. N, L)
    BY <2>2, <2>3 DEF Injection, IsInjective
  <2>5. s \in Surjection(1 .. N, L)
    BY <2>4, <1>1, FS_Injection, FS_Interval DEF N
  <2>6. ASSUME NEW x \in L PROVE b[x] \in L
    <3>1. PICK k \in 1 .. N : s[k] = x
      BY <2>5 DEF Surjection
    <3>2. CASE k = 1
      BY <3>1, <3>2, <1>7 DEF Inheritable, Closed
    <3>3. CASE k # 1
      <4>1. k \in 2 .. Len(s) /\ k - 1 \in 1 .. N
        BY <3>3, <1>7
      <4> QED BY <4>1, <3>1, <1>6, <2>2
    <3> QED BY <3>2, <3>3
  <2> QED BY <2>6 DEF Inheritable, Acyclic
<1> QED BY <1>2, <1>5, <1>6, <1>7

\* One iteration of checkInheritance's inner loop.
Checked(L, b, s) ==
    IF s.failed \/ s.base = NoBase THEN s
    ELSE IF s.base \notin L \/ s.base \in s.visited THEN [s EXCEPT !.failed = TRUE]
    ELSE [base |-> b[s.base], visited |-> s.visited \cup {s.base}, failed |-> FALSE]

\* Its states.
CheckState(L, b) == [base : {b[x] : x \in L}, visited : SUBSET L, failed : BOOLEAN]

\* walk has the states of the loop that starts from l, one for each iteration.
IsCheckWalk(walk, L, b, l) ==
    /\ CheckWalk(L, b, l) = walk[Cardinality(L)]
    /\ walk \in [0 .. Cardinality(L) -> CheckState(L, b)]
    /\ walk[0] = [base |-> b[l], visited |-> {l}, failed |-> FALSE]
    /\ \A n \in 1 .. Cardinality(L) : walk[n] = Checked(L, b, walk[n - 1])

\* There are such states, and the last is what CheckWalk says.
LEMMA CheckUnfold ==
    ASSUME NEW L, IsFiniteSet(L), NEW b, NEW l \in L
    PROVE  \E walk : IsCheckWalk(walk, L, b, l)
<1> DEFINE N == Cardinality(L)
           S == CheckState(L, b)
           first == [base |-> b[l], visited |-> {l}, failed |-> FALSE]
           step == [s \in S |-> Checked(L, b, s)]
           walk[n \in 0 .. N] == IF n = 0 THEN first ELSE Checked(L, b, walk[n - 1])
<1>1. CheckWalk(L, b, l) = walk[N]
  BY DEF CheckWalk, Checked
<1>2. N \in Nat
  BY FS_CardinalityType
<1>3. first \in S
  BY DEF CheckState
<1>4. step \in [S -> S]
  BY DEF CheckState, Checked
<1>5. PICK f : Iterates(f, S, first, step, N)
  <2> HIDE DEF S, step, N, first
  <2> QED BY <1>2, <1>3, <1>4, IterationExists
<1>6. f = [n \in 0 .. N |-> IF n = 0 THEN first ELSE Checked(L, b, f[n - 1])]
  <2> SUFFICES ASSUME NEW n \in 0 .. N
               PROVE  f[n] = IF n = 0 THEN first ELSE Checked(L, b, f[n - 1])
    BY <1>5 DEF Iterates
  <2> HIDE DEF S, N, first
  <2>1. CASE n = 0
    BY <2>1, <1>5 DEF Iterates
  <2>2. CASE n # 0
    <3>1. n \in 1 .. N /\ n - 1 \in 0 .. N
      BY <2>2, <1>2
    <3> QED BY <2>2, <3>1, <1>5 DEF Iterates
  <2> QED BY <2>1, <2>2
<1>7. walk = [n \in 0 .. N |-> IF n = 0 THEN first ELSE Checked(L, b, walk[n - 1])]
  <2> HIDE DEF first, N
  <2> QED BY <1>6
<1> DEFINE P == {n \in 0 .. N : walk[n] \in S}
<1>8. \A n \in 0 .. N : n \in P
  <2> HIDE DEF walk, first, N, S
  <2>1. 0 \in P
    BY <1>2, <1>3, <1>7
  <2>2. ASSUME NEW n \in 0 .. N - 1, n \in P PROVE n + 1 \in P
    <3>1. walk[n + 1] = Checked(L, b, walk[n]) /\ n + 1 \in 0 .. N
      BY <1>2, <1>7
    <3> QED BY <3>1, <2>2, <1>4
  <2>3. P \in SUBSET Nat /\ 0 \in Nat
    OBVIOUS
  <2> HIDE DEF P
  <2> QED BY <1>2, <2>1, <2>2, <2>3, IntervalInduction
<1>9. walk \in [0 .. N -> S]
  <2> HIDE DEF walk, first, N, S
  <2> QED BY <1>7, <1>8
<1>10. walk[0] = first /\ \A n \in 1 .. N : walk[n] = Checked(L, b, walk[n - 1])
  <2> HIDE DEF walk, first, N, S
  <2> QED BY <1>2, <1>7
<1> HIDE DEF walk
<1> QED BY <1>1, <1>9, <1>10 DEF IsCheckWalk

\* In a tree no walk returns an error: a layer visited twice would be its own
\* ancestor.
LEMMA CheckAcceptsTrees ==
    ASSUME NEW L, IsFiniteSet(L), NEW b, NoBase \notin L, Inheritable(L, b), NEW l \in L
    PROVE  ~CheckWalk(L, b, l).failed
<1> DEFINE N == Cardinality(L)
<1>1. N \in Nat
  BY FS_CardinalityType
<1>2. PICK walk : IsCheckWalk(walk, L, b, l)
  BY CheckUnfold
<1> HIDE DEF N
<1>3. /\ CheckWalk(L, b, l) = walk[N]
      /\ walk \in [0 .. N -> CheckState(L, b)]
      /\ walk[0] = [base |-> b[l], visited |-> {l}, failed |-> FALSE]
      /\ \A n \in 1 .. N : walk[n] = Checked(L, b, walk[n - 1])
  BY <1>2 DEF IsCheckWalk, N
<1> DEFINE Good(s) == /\ ~s.failed
                      /\ s.visited # {}
                      /\ \A x \in s.visited : b[x] \in s.visited \cup {s.base}
           P == {n \in 0 .. N : Good(walk[n])}
<1>4. 0 \in P
  BY <1>1, <1>3
<1>5. ASSUME NEW n \in 0 .. N - 1, n \in P PROVE n + 1 \in P
  <2> DEFINE s == walk[n]
  <2>1. walk[n + 1] = Checked(L, b, s) /\ n + 1 \in 0 .. N /\ s \in CheckState(L, b) /\ Good(s)
    BY <1>1, <1>3, <1>5
  <2> HIDE DEF s
  <2>2. CASE s.base = NoBase
    BY <2>1, <2>2 DEF Checked
  <2>3. CASE s.base # NoBase
    <3>1. s.base \in L /\ s.visited \in SUBSET L
      BY <2>1, <2>3 DEF CheckState, Inheritable, Closed
    <3>2. s.base \notin s.visited
      BY <2>1, <3>1 DEF Inheritable, Acyclic
    <3>3. Checked(L, b, s) = [base |-> b[s.base], visited |-> s.visited \cup {s.base}, failed |-> FALSE]
      BY <2>1, <2>3, <3>1, <3>2 DEF Checked
    <3> QED BY <2>1, <3>3
  <2> QED BY <2>2, <2>3
<1>6. Good(walk[N])
  <2>1. P \in SUBSET Nat /\ 0 \in Nat /\ N \in 0 .. N
    BY <1>1
  <2> HIDE DEF P
  <2>2. \A n \in 0 .. N : n \in P
    BY <1>1, <1>4, <1>5, <2>1, IntervalInduction
  <2> QED BY <2>1, <2>2 DEF P
<1> QED BY <1>3, <1>6

\* From a layer whose base is missing the walk fails at once.
LEMMA CheckFindsMissing ==
    ASSUME NEW L, IsFiniteSet(L), NEW b, NEW l \in L, b[l] \notin L \cup {NoBase}
    PROVE  CheckWalk(L, b, l).failed
<1> DEFINE N == Cardinality(L)
<1>1. N \in Nat \ {0}
  BY FS_CardinalityType, FS_EmptySet
<1>2. PICK walk : IsCheckWalk(walk, L, b, l)
  BY CheckUnfold
<1> HIDE DEF N
<1>3. /\ CheckWalk(L, b, l) = walk[N]
      /\ walk \in [0 .. N -> CheckState(L, b)]
      /\ walk[0] = [base |-> b[l], visited |-> {l}, failed |-> FALSE]
      /\ \A n \in 1 .. N : walk[n] = Checked(L, b, walk[n - 1])
  BY <1>2 DEF IsCheckWalk, N
<1> DEFINE P == {n \in 1 .. N : walk[n].failed}
<1>4. 1 \in P
  <2>0. 1 \in 1 .. N /\ 0 \in 0 .. N /\ 1 - 1 = 0
    BY <1>1
  <2>1. walk[1] = Checked(L, b, walk[0])
    BY <2>0, <1>3
  <2>4. walk[0].base = b[l] /\ walk[0].failed = FALSE
    BY <1>3
  <2>2. walk[0] \in CheckState(L, b)
    BY <2>0, <1>3
  <2>3. walk[1] = [walk[0] EXCEPT !.failed = TRUE]
    BY <2>1, <2>4 DEF Checked
  <2>5. walk[1].failed
    BY <2>2, <2>3 DEF CheckState
  <2> QED BY <2>0, <2>5
<1>5. ASSUME NEW n \in 1 .. N - 1, n \in P PROVE n + 1 \in P
  <2>1. walk[n + 1] = Checked(L, b, walk[n]) /\ n + 1 \in 1 .. N
    BY <1>1, <1>3
  <2> QED BY <2>1, <1>5 DEF Checked
<1>6. walk[N].failed
  <2>1. P \in SUBSET Nat /\ 1 \in Nat /\ N \in Nat /\ N \in 1 .. N
    BY <1>1
  <2> HIDE DEF P
  <2>2. \A n \in 1 .. N : n \in P
    BY <1>4, <1>5, <2>1, IntervalInduction
  <2> QED BY <2>1, <2>2 DEF P
<1> QED BY <1>3, <1>6

\* From a layer of a cycle, S, the walk fails before it has gone on once for
\* every layer of the map.
LEMMA CheckFindsCycles ==
    ASSUME NEW L, IsFiniteSet(L), NEW b, NoBase \notin L, NEW S \in SUBSET L,
           \A x \in S : b[x] \in S, NEW l \in S
    PROVE  CheckWalk(L, b, l).failed
<1> DEFINE N == Cardinality(L)
<1>1. N \in Nat
  BY FS_CardinalityType
<1>2. PICK walk : IsCheckWalk(walk, L, b, l)
  BY CheckUnfold
<1> HIDE DEF N
<1>3. /\ CheckWalk(L, b, l) = walk[N]
      /\ walk \in [0 .. N -> CheckState(L, b)]
      /\ walk[0] = [base |-> b[l], visited |-> {l}, failed |-> FALSE]
      /\ \A n \in 1 .. N : walk[n] = Checked(L, b, walk[n - 1])
  BY <1>2 DEF IsCheckWalk, N
<1> DEFINE Good(n) == \/ walk[n].failed
                      \/ /\ walk[n].base \in S
                         /\ IsFiniteSet(walk[n].visited)
                         /\ Cardinality(walk[n].visited) = n + 1
           P == {n \in 0 .. N : Good(n)}
<1>4. 0 \in P
  <2>1. IsFiniteSet({l}) /\ Cardinality({l}) = 1
    BY FS_Singleton
  <2>2. walk[0].base \in S /\ walk[0].visited = {l} /\ 0 \in 0 .. N
    BY <1>1, <1>3
  <2> QED BY <2>1, <2>2
<1>5. ASSUME NEW n \in 0 .. N - 1, n \in P PROVE n + 1 \in P
  <2> DEFINE s == walk[n]
             t == walk[n + 1]
  <2>1. t = Checked(L, b, s) /\ n + 1 \in 0 .. N /\ s \in CheckState(L, b)
    BY <1>1, <1>3
  <2>2. s.failed \/ /\ s.base \in S /\ IsFiniteSet(s.visited)
                    /\ Cardinality(s.visited) = n + 1
    BY <1>5
  <2>3. t.failed \/ /\ t.base \in S /\ IsFiniteSet(t.visited)
                    /\ Cardinality(t.visited) = n + 1 + 1
    <3> HIDE DEF s, t
    <3>1. CASE s.failed
      BY <2>1, <3>1 DEF Checked
    <3>2. CASE ~s.failed /\ s.base \in s.visited
      <4>1. t = [s EXCEPT !.failed = TRUE]
        BY <2>1, <2>2, <3>2 DEF Checked
      <4>2. t.failed
        BY <4>1, <2>1 DEF CheckState
      <4> QED BY <4>2
    <3>3. CASE ~s.failed /\ s.base \notin s.visited
      <4>1. t = [base |-> b[s.base], visited |-> s.visited \cup {s.base}, failed |-> FALSE]
        BY <2>1, <2>2, <3>3 DEF Checked
      <4>2. /\ IsFiniteSet(s.visited \cup {s.base})
            /\ Cardinality(s.visited \cup {s.base}) = n + 1 + 1
        BY <2>2, <3>3, FS_AddElement
      <4> QED BY <2>2, <3>3, <4>1, <4>2
    <3> QED BY <3>1, <3>2, <3>3
  <2> QED BY <2>1, <2>3
<1>6. Good(N)
  <2>1. P \in SUBSET Nat /\ 0 \in Nat /\ N \in 0 .. N
    BY <1>1
  <2> HIDE DEF P
  <2>2. \A n \in 0 .. N : n \in P
    BY <1>1, <1>4, <1>5, <2>1, IntervalInduction
  <2> QED BY <2>1, <2>2 DEF P
<1>7. walk[N].visited \in SUBSET L
  BY <1>1, <1>3 DEF CheckState
<1>8. Cardinality(walk[N].visited) <= N
  BY <1>7, FS_Subset DEF N
<1> QED BY <1>1, <1>3, <1>6, <1>8

\* checkInheritance accepts a finite map exactly when it is a tree.
LEMMA CheckIsExact ==
    ASSUME NEW L, IsFiniteSet(L), NEW b, NoBase \notin L
    PROVE  CheckInheritance(L, b) <=> Inheritable(L, b)
<1>1. ASSUME Inheritable(L, b) PROVE CheckInheritance(L, b)
  BY <1>1, CheckAcceptsTrees DEF CheckInheritance
<1>2. ASSUME CheckInheritance(L, b) PROVE Closed(L, b)
  BY <1>2, CheckFindsMissing DEF CheckInheritance, Closed
<1>3. ASSUME CheckInheritance(L, b) PROVE Acyclic(L, b)
  BY <1>3, CheckFindsCycles DEF CheckInheritance, Acyclic
<1> QED BY <1>1, <1>2, <1>3 DEF Inheritable

\* What a user of getAncestorsAndSelf relies on.
LEMMA WalkIsComplete ==
    ASSUME NEW L, IsFiniteSet(L), NEW b, NoBase \notin L, Inheritable(L, b), NEW l \in L
    PROVE  LET chain == GetAncestorsAndSelf(L, b, l)
               A == AncestorsAndSelf(L, b, l)
           IN  /\ {chain[i] : i \in DOMAIN chain} = A
               /\ Len(chain) = Cardinality(A)
               /\ \A i \in 2 .. Len(chain) : b[chain[i]] = chain[i-1]
               /\ {a \in A : b[a] = NoBase} = {Head(chain)}
<1> DEFINE s == GetAncestorsAndSelf(L, b, l)
           A == AncestorsAndSelf(L, b, l)
           R == {s[i] : i \in DOMAIN s}
<1>1. PartOfChain(L, b, l, s) /\ b[s[1]] = NoBase
  BY WalkIsChain
<1>2. A \subseteq L /\ l \in A
  BY ChainSelf
<1>3. \A i, j \in DOMAIN s : s[i] = s[j] => i = j
  BY <1>1, PartHasNoRepeats
<1>4. \A S \in SUBSET L : l \in S /\ (\A d \in S : b[d] \in L => b[d] \in S) => A \subseteq S
  BY ChainLeast
<1>5. s \in Seq(A) /\ s # <<>> /\ s[Len(s)] = l /\ \A i \in 2 .. Len(s) : b[s[i]] = s[i - 1]
  BY <1>1 DEF PartOfChain
<1> HIDE DEF s, A
<1>6. Len(s) \in Nat \ {0} /\ DOMAIN s = 1 .. Len(s) /\ Head(s) = s[1] /\ R \subseteq A
  BY <1>5
<1>7. A \subseteq R
  <2>1. ASSUME NEW i \in DOMAIN s, b[s[i]] \in L PROVE b[s[i]] \in R
    <3>1. CASE i = 1
      BY <3>1, <2>1, <1>1
    <3>2. CASE i # 1
      <4>1. i \in 2 .. Len(s) /\ i - 1 \in DOMAIN s
        BY <3>2, <1>6
      <4> QED BY <4>1, <1>5
    <3> QED BY <3>1, <3>2
  <2>2. l \in R
    BY <1>5, <1>6
  <2>3. R \in SUBSET L
    BY <1>2, <1>6
  <2> QED BY <2>1, <2>2, <2>3, <1>4
<1>8. Len(s) = Cardinality(A)
  <2>1. s \in [1 .. Len(s) -> A]
    BY <1>5, <1>6
  <2>2. s \in Injection(1 .. Len(s), A)
    BY <2>1, <1>3, <1>6 DEF Injection, IsInjective
  <2>3. s \in Surjection(1 .. Len(s), A)
    BY <2>1, <1>6, <1>7 DEF Surjection
  <2>4. ExistsBijection(1 .. Len(s), A)
    BY <2>2, <2>3 DEF ExistsBijection, Bijection
  <2> QED BY <2>4, <1>6, FS_CountingElements
<1>9. ASSUME NEW a \in A, b[a] = NoBase PROVE a = Head(s)
  <2>1. PICK i \in DOMAIN s : a = s[i]
    BY <1>7
  <2>2. CASE i # 1
    <3>1. i \in 2 .. Len(s) /\ i - 1 \in DOMAIN s
      BY <2>2, <1>6
    <3>2. b[a] \in A
      BY <3>1, <2>1, <1>5
    <3> QED BY <3>2, <1>2, <1>9
  <2> QED BY <2>1, <2>2, <1>6
<1>10. Head(s) \in A /\ b[Head(s)] = NoBase
  BY <1>1, <1>5, <1>6
<1> QED BY <1>5, <1>6, <1>7, <1>8, <1>9, <1>10 DEF s, A

\* A walk from a layer back to a base layer has only one way to go.
LEMMA WalkUnique ==
    ASSUME NEW L, NEW b, NoBase \notin L, NEW l \in L, NEW s, NEW t,
           PartOfChain(L, b, l, s), b[s[1]] = NoBase,
           PartOfChain(L, b, l, t), b[t[1]] = NoBase, Len(s) <= Len(t)
    PROVE  s = t
<1> DEFINE M == Len(s)
           N == Len(t)
           D == N - M
<1>1. /\ s \in Seq(L) /\ M \in Nat \ {0} /\ DOMAIN s = 1 .. M /\ s[M] = l
      /\ t \in Seq(L) /\ N \in Nat \ {0} /\ DOMAIN t = 1 .. N /\ t[N] = l
      /\ \A i \in 2 .. M : b[s[i]] = s[i - 1]
      /\ \A i \in 2 .. N : b[t[i]] = t[i - 1]
  <2> DEFINE A == AncestorsAndSelf(L, b, l)
  <2>1. A \subseteq L /\ s \in Seq(A) /\ t \in Seq(A) /\ s # <<>> /\ t # <<>>
    BY ChainSelf DEF PartOfChain
  <2> HIDE DEF A
  <2> QED BY <2>1 DEF PartOfChain
<1> HIDE DEF M, N
<1>2. D \in Nat /\ M + D = N
  BY <1>1 DEF M, N
<1> DEFINE P == {k \in 0 .. M - 1 : s[M - k] = t[N - k]}
<1>3. \A k \in 0 .. M - 1 : k \in P
  <2>1. 0 \in P
    BY <1>1
  <2>2. ASSUME NEW k \in 0 .. M - 1 - 1, k \in P PROVE k + 1 \in P
    <3>1. M - k \in 2 .. M /\ N - k \in 2 .. N /\ k + 1 \in 0 .. M - 1
      BY <1>1, <1>2
    <3>2. b[s[M - k]] = s[M - k - 1] /\ b[t[N - k]] = t[N - k - 1]
      BY <3>1, <1>1
    <3>3. M - k - 1 = M - (k + 1) /\ N - k - 1 = N - (k + 1)
      BY <1>1
    <3> QED BY <2>2, <3>1, <3>2, <3>3
  <2>3. P \in SUBSET Nat /\ M - 1 \in Nat
    BY <1>1
  <2> HIDE DEF P
  <2> QED BY <2>1, <2>2, <2>3, IntervalInduction
<1>4. \A i \in 1 .. M : s[i] = t[D + i]
  <2> TAKE i \in 1 .. M
  <2>1. M - i \in 0 .. M - 1 /\ M - (M - i) = i /\ N - (M - i) = D + i
    BY <1>1, <1>2
  <2> QED BY <1>3, <2>1
<1>5. D = 0
  <2> SUFFICES ASSUME D # 0 PROVE FALSE
    OBVIOUS
  <2>1. D + 1 \in 2 .. N /\ D + 1 - 1 \in 1 .. N /\ 1 \in 1 .. M
    BY <1>1, <1>2
  <2>2. s[1] = t[D + 1] /\ b[t[D + 1]] = t[D + 1 - 1]
    BY <1>1, <1>4, <2>1
  <2>3. t[D + 1 - 1] \in L
    BY <1>1, <2>1
  <2> QED BY <2>2, <2>3
<1>6. M = N /\ \A i \in 1 .. M : s[i] = t[i]
  BY <1>1, <1>2, <1>4, <1>5
<1> QED BY <1>1, <1>6 DEF M, N

\* The walk from a layer is the walk from its base and then the layer.
LEMMA WalkOfBase ==
    ASSUME NEW L, IsFiniteSet(L), NEW b, NoBase \notin L, Inheritable(L, b), NEW l \in L
    PROVE  GetAncestorsAndSelf(L, b, l) =
               IF b[l] = NoBase THEN <<l>>
               ELSE Append(GetAncestorsAndSelf(L, b, b[l]), l)
<1> DEFINE s == GetAncestorsAndSelf(L, b, l)
           u == GetAncestorsAndSelf(L, b, b[l])
           t == Append(u, l)
<1>1. PartOfChain(L, b, l, s) /\ b[s[1]] = NoBase
  BY WalkIsChain
<1>2. CASE b[l] = NoBase
  <2>1. PartOfChain(L, b, l, <<l>>)
    BY ChainSelf DEF PartOfChain
  <2>2. <<l>>[1] = l /\ Len(<<l>>) = 1 /\ Len(s) \in Nat /\ (Len(s) <= 1 \/ 1 <= Len(s))
    BY <1>1 DEF PartOfChain
  <2> HIDE DEF s
  <2>3. s = <<l>>
    BY <1>1, <1>2, <2>1, <2>2, WalkUnique
  <2> QED BY <1>2, <2>3 DEF s
<1>3. CASE b[l] # NoBase
  <2>1. b[l] \in L
    BY <1>3 DEF Inheritable, Closed
  <2>2. PartOfChain(L, b, b[l], u) /\ b[u[1]] = NoBase
    BY <2>1, WalkIsChain
  <2> DEFINE A == AncestorsAndSelf(L, b, l)
             B == AncestorsAndSelf(L, b, b[l])
  <2>3. B \subseteq A /\ l \in A
    BY <2>1, ChainUnfold
  <2> HIDE DEF A, B, u
  <2>4. u \in Seq(B) /\ u # <<>> /\ u[Len(u)] = b[l] /\ \A i \in 2 .. Len(u) : b[u[i]] = u[i - 1]
    BY <2>2 DEF PartOfChain, B
  <2>5. u \in Seq(A) /\ Len(u) \in Nat \ {0}
    BY <2>3, <2>4
  <2>6. /\ t \in Seq(A) /\ Len(t) = Len(u) + 1 /\ t # <<>> /\ t[Len(t)] = l
        /\ \A i \in 1 .. Len(u) : t[i] = u[i]
    BY <2>3, <2>5
  <2>7. ASSUME NEW i \in 2 .. Len(t) PROVE b[t[i]] = t[i - 1]
    <3>1. CASE i = Len(t)
      <4>1. t[i - 1] = u[Len(u)] /\ t[i] = l
        BY <3>1, <2>5, <2>6
      <4> QED BY <4>1, <2>4
    <3>2. CASE i # Len(t)
      <4>1. i \in 2 .. Len(u) /\ i \in 1 .. Len(u) /\ i - 1 \in 1 .. Len(u)
        BY <3>2, <2>5, <2>6
      <4>2. b[u[i]] = u[i - 1]
        BY <4>1, <2>4
      <4> QED BY <4>1, <4>2, <2>6
    <3> QED BY <3>1, <3>2
  <2>8. t[1] = u[1]
    BY <2>5, <2>6
  <2> HIDE DEF t, s
  <2>9. PartOfChain(L, b, l, t) /\ b[t[1]] = NoBase
    BY <2>2, <2>6, <2>7, <2>8 DEF PartOfChain, A
  <2>10. Len(s) \in Nat /\ Len(t) \in Nat
    BY <1>1, <2>6, <2>5 DEF PartOfChain
  <2>11. Len(s) <= Len(t) \/ Len(t) <= Len(s)
    BY <2>10
  <2>12. s = t
    BY <1>1, <2>9, <2>11, WalkUnique
  <2> QED BY <1>3, <2>12 DEF s, t, u
<1> QED BY <1>2, <1>3

\* A key ends with a separator and the name of its layer, after the key of the
\* base if there is one.
LEMMA KeyOfBase ==
    ASSUME NEW L \in SUBSET Layer, IsFiniteSet(L), NEW b, Inheritable(L, b), NEW l \in L
    PROVE  \E p \in Seq(Nat) :
              /\ SortKey(L, b, l) = p \o <<Separator>> \o Spelling[l]
              /\ b[l] # NoBase => b[l] \in L /\ p = SortKey(L, b, b[l])
<1>1. NoBase \notin L
  BY NoBaseAssumption
<1> DEFINE names(u) == [n \in DOMAIN u |-> Spelling[u[n]]]
<1>2. ASSUME NEW u \in Seq(Layer)
      PROVE  /\ Separated(Separator, names(u)) \in Seq(Nat)
             /\ Separated(Separator, names(Append(u, l)))
                  = Separated(Separator, names(u)) \o <<Separator>> \o Spelling[l]
  <2>1. Separator \in Nat /\ \A k \in Layer : Spelling[k] \in Seq(Nat)
    <3>1. \A k \in Layer : Spelling[k] \in Seq(Nat \ {Separator})
      BY SpellingAssumption
    <3>2. \A s \in Seq(Nat \ {Separator}) : s \in Seq(Nat)
      OBVIOUS
    <3> QED BY <3>1, <3>2, SpellingAssumption
  <2>2. names(u) \in Seq(Seq(Nat)) /\ Spelling[l] \in Seq(Nat)
    BY <2>1
  <2>3. names(Append(u, l)) = Append(names(u), Spelling[l])
    <3>1. /\ Len(Append(u, l)) = Len(u) + 1 /\ DOMAIN Append(u, l) = 1 .. Len(u) + 1
          /\ Append(u, l)[Len(u) + 1] = l /\ \A n \in 1 .. Len(u) : Append(u, l)[n] = u[n]
          /\ DOMAIN u = 1 .. Len(u) /\ Len(u) \in Nat
      OBVIOUS
    <3>2. /\ names(u) = [n \in 1 .. Len(u) |-> Spelling[u[n]]]
          /\ names(Append(u, l)) = [n \in 1 .. Len(u) + 1 |-> Spelling[Append(u, l)[n]]]
      BY <3>1
    <3>3. Append(names(u), Spelling[l])
            = [n \in 1 .. Len(u) + 1 |-> IF n = Len(u) + 1 THEN Spelling[l] ELSE Spelling[u[n]]]
      BY <3>1, <3>2, <2>2
    <3> QED BY <3>1, <3>2, <3>3
  <2> HIDE DEF names
  <2> QED BY <2>1, <2>2, <2>3, SeparatedAppend
<1>3. CASE b[l] = NoBase
  <2>1. GetAncestorsAndSelf(L, b, l) = <<l>>
    BY <1>1, <1>3, WalkOfBase
  <2>2. <<l>> = Append(<<>>, l) /\ <<>> \in Seq(Layer) /\ <<>> \in Seq(Nat) /\ names(<<>>) = <<>>
    OBVIOUS
  <2>3. Separated(Separator, <<>>) = <<>>
    <3>1. Separator \in Nat /\ <<>> \in Seq(Seq(Nat)) /\ <<>> \in Seq(Nat)
      BY SpellingAssumption
    <3> QED BY <3>1, SeparatedAppend
  <2>4. SortKey(L, b, l) = Separated(Separator, names(<<l>>))
    BY <2>1 DEF SortKey
  <2>5. SortKey(L, b, l) = <<>> \o <<Separator>> \o Spelling[l]
    <3> HIDE DEF names
    <3> QED BY <1>2, <2>2, <2>3, <2>4
  <2> QED BY <1>3, <2>2, <2>5
<1>4. CASE b[l] # NoBase
  <2>1. b[l] \in L
    BY <1>4 DEF Inheritable, Closed
  <2> DEFINE u == GetAncestorsAndSelf(L, b, b[l])
             A == AncestorsAndSelf(L, b, b[l])
  <2>2. u \in Seq(A) /\ A \subseteq L
    BY <1>1, <2>1, WalkIsChain, ChainSelf DEF PartOfChain
  <2>3. u \in Seq(Layer)
    <3> HIDE DEF u, A
    <3> QED BY <2>2
  <2>4. GetAncestorsAndSelf(L, b, l) = Append(u, l)
    BY <1>1, <1>4, WalkOfBase
  <2>5. /\ SortKey(L, b, b[l]) = Separated(Separator, names(u))
        /\ SortKey(L, b, l) = Separated(Separator, names(Append(u, l)))
    BY <2>4 DEF SortKey
  <2> HIDE DEF u, names
  <2> QED BY <1>2, <2>1, <2>3, <2>5
<1> QED BY <1>3, <1>4

\* What follows the last separator of a string is all there is to tell.
LEMMA LastPart ==
    ASSUME NEW p \in Seq(Nat), NEW q \in Seq(Nat), NEW x,
           NEW s \in Seq(Nat \ {x}), NEW t \in Seq(Nat \ {x}), x \in Nat,
           p \o <<x>> \o s = q \o <<x>> \o t
    PROVE  s = t
<1> DEFINE S == p \o <<x>> \o s
           T == q \o <<x>> \o t
<1>1. /\ Len(S) = Len(p) + 1 + Len(s) /\ Len(T) = Len(q) + 1 + Len(t)
      /\ S[Len(p) + 1] = x /\ T[Len(q) + 1] = x
      /\ \A k \in 1 .. Len(s) : S[Len(p) + 1 + k] = s[k]
      /\ \A k \in 1 .. Len(t) : T[Len(q) + 1 + k] = t[k]
      /\ Len(p) \in Nat /\ Len(q) \in Nat /\ Len(s) \in Nat /\ Len(t) \in Nat
  <2>1. ASSUME NEW u \in Seq(Nat), NEW w \in Seq(Nat)
        PROVE  LET U == u \o <<x>> \o w
               IN  /\ Len(U) = Len(u) + 1 + Len(w) /\ Len(u) \in Nat /\ Len(w) \in Nat
                   /\ U[Len(u) + 1] = x
                   /\ \A k \in 1 .. Len(w) : U[Len(u) + 1 + k] = w[k]
    <3> DEFINE v == u \o <<x>>
    <3>1. /\ v \in Seq(Nat) /\ Len(v) = Len(u) + 1 /\ v[Len(u) + 1] = x
          /\ Len(u) \in Nat /\ Len(w) \in Nat
      OBVIOUS
    <3> HIDE DEF v
    <3>2. /\ Len(v \o w) = Len(v) + Len(w)
          /\ \A k \in 1 .. Len(v) : (v \o w)[k] = v[k]
          /\ \A k \in 1 .. Len(w) : (v \o w)[Len(v) + k] = w[k]
      <4>1. v \in Seq(Nat) /\ w \in Seq(Nat)
        BY <3>1
      <4> QED BY <4>1
    <3>3. Len(u) + 1 \in 1 .. Len(v)
      BY <3>1
    <3> DEFINE V == v \o w
    <3>4. V = u \o <<x>> \o w
      BY DEF v
    <3> HIDE DEF V
    <3>5. /\ Len(V) = Len(u) + 1 + Len(w) /\ V[Len(u) + 1] = x
          /\ \A k \in 1 .. Len(w) : V[Len(u) + 1 + k] = w[k]
      BY <3>1, <3>2, <3>3 DEF V
    <3> QED BY <3>1, <3>4, <3>5
  <2>2. p \in Seq(Nat) /\ q \in Seq(Nat) /\ s \in Seq(Nat) /\ t \in Seq(Nat)
    OBVIOUS
  <2>3. /\ Len(S) = Len(p) + 1 + Len(s) /\ Len(p) \in Nat /\ Len(s) \in Nat
        /\ S[Len(p) + 1] = x
        /\ \A k \in 1 .. Len(s) : S[Len(p) + 1 + k] = s[k]
    BY <2>1, <2>2
  <2>4. /\ Len(T) = Len(q) + 1 + Len(t) /\ Len(q) \in Nat /\ Len(t) \in Nat
        /\ T[Len(q) + 1] = x
        /\ \A k \in 1 .. Len(t) : T[Len(q) + 1 + k] = t[k]
    BY <2>1, <2>2
  <2> HIDE DEF S, T
  <2> QED BY <2>3, <2>4
<1>2. S = T /\ (\A k \in 1 .. Len(s) : s[k] # x) /\ (\A k \in 1 .. Len(t) : t[k] # x)
  <2>1. \A k \in 1 .. Len(s) : s[k] \in Nat \ {x}
    OBVIOUS
  <2>2. \A k \in 1 .. Len(t) : t[k] \in Nat \ {x}
    OBVIOUS
  <2> QED BY <2>1, <2>2
<1> HIDE DEF S, T
<1>3. ASSUME Len(p) < Len(q) PROVE FALSE
  <2> DEFINE k == Len(q) - Len(p)
  <2>1. k \in 1 .. Len(s) /\ Len(p) + 1 + k = Len(q) + 1
    BY <1>1, <1>2, <1>3
  <2> HIDE DEF k
  <2>2. S[Len(p) + 1 + k] = s[k] /\ s[k] # x
    BY <2>1, <1>1, <1>2
  <2> QED BY <2>1, <2>2, <1>1, <1>2
<1>4. ASSUME Len(q) < Len(p) PROVE FALSE
  <2> DEFINE k == Len(p) - Len(q)
  <2>1. k \in 1 .. Len(t) /\ Len(q) + 1 + k = Len(p) + 1
    BY <1>1, <1>2, <1>4
  <2> HIDE DEF k
  <2>2. T[Len(q) + 1 + k] = t[k] /\ t[k] # x
    BY <2>1, <1>1, <1>2
  <2> QED BY <2>1, <2>2, <1>1, <1>2
<1>5. Len(p) = Len(q) /\ Len(s) = Len(t)
  BY <1>1, <1>2, <1>3, <1>4
<1>6. ASSUME NEW k \in 1 .. Len(s) PROVE s[k] = t[k]
  BY <1>1, <1>2, <1>5
<1>7. s = [k \in 1 .. Len(s) |-> s[k]] /\ t = [k \in 1 .. Len(t) |-> t[k]]
  OBVIOUS
<1> HIDE DEF S, T
<1> QED BY <1>5, <1>6, <1>7

\* A separator and what follows it may be taken for one string.
LEMMA Regrouped ==
    ASSUME NEW p \in Seq(Nat), NEW x \in Nat, NEW s \in Seq(Nat)
    PROVE  /\ p \o <<x>> \o s = p \o (<<x>> \o s)
           /\ p \in Seq(Int) /\ <<x>> \o s \in Seq(Int) /\ <<x>> \o s # <<>>
           /\ p \o <<x>> \o s \in Seq(Int)
<1> DEFINE u == <<x>> \o s
<1>1. u \in Seq(Nat) /\ Len(u) = 1 + Len(s)
  OBVIOUS
<1>2. p \o <<x>> \o s = p \o u
  OBVIOUS
<1> HIDE DEF u
<1>3. u \in Seq(Int) /\ p \in Seq(Int)
  BY <1>1
<1>4. u # <<>> /\ p \o u \in Seq(Int)
  BY <1>1, <1>3
<1> QED BY <1>2, <1>3, <1>4 DEF u

\* The keys of two layers differ, and that of a layer is greater than its
\* base's, of which it is a continuation.
LEMMA KeysAreOrdered ==
    ASSUME NEW L \in SUBSET Layer, IsFiniteSet(L), NEW b, Inheritable(L, b), NEW l \in L
    PROVE  /\ SortKey(L, b, l) \in Seq(Int)
           /\ \A k \in L \ {l} : SortKey(L, b, k) # SortKey(L, b, l)
           /\ b[l] # NoBase => /\ b[l] \in L
                               /\ Less(SortKey(L, b, b[l]), SortKey(L, b, l))
<1>1. PICK p \in Seq(Nat) :
              /\ SortKey(L, b, l) = p \o <<Separator>> \o Spelling[l]
              /\ b[l] # NoBase => b[l] \in L /\ p = SortKey(L, b, b[l])
  BY KeyOfBase
<1>2. /\ Separator \in Nat
      /\ \A k \in L : Spelling[k] \in Seq(Nat \ {Separator})
      /\ \A k \in L \ {l} : Spelling[k] # Spelling[l]
  BY SpellingAssumption
<1> DEFINE t == <<Separator>> \o Spelling[l]
<1>3. /\ SortKey(L, b, l) = p \o t /\ SortKey(L, b, l) \in Seq(Int)
      /\ t \in Seq(Int) /\ t # <<>> /\ p \in Seq(Int)
  <2>1. Spelling[l] \in Seq(Nat)
    BY <1>2
  <2>2. SortKey(L, b, l) = p \o <<Separator>> \o Spelling[l] /\ Separator \in Nat
    BY <1>1, <1>2
  <2> DEFINE w == Spelling[l]
             c == Separator
  <2> HIDE DEF w, c
  <2>3. w \in Seq(Nat) /\ c \in Nat
    BY <2>1, <2>2 DEF w, c
  <2>4. /\ p \o <<c>> \o w = p \o (<<c>> \o w)
        /\ p \in Seq(Int) /\ <<c>> \o w \in Seq(Int) /\ <<c>> \o w # <<>>
        /\ p \o <<c>> \o w \in Seq(Int)
    BY <2>3, Regrouped
  <2>5. t = <<c>> \o w /\ SortKey(L, b, l) = p \o <<c>> \o w
    BY <2>2 DEF w, c
  <2> HIDE DEF t
  <2> QED BY <2>4, <2>5
<1>4. ASSUME NEW k \in L \ {l} PROVE SortKey(L, b, k) # SortKey(L, b, l)
  <2>1. PICK q \in Seq(Nat) : SortKey(L, b, k) = q \o <<Separator>> \o Spelling[k]
    BY KeyOfBase
  <2> QED BY <1>1, <1>2, <2>1, LastPart
<1> HIDE DEF t
<1>5. Less(p, p \o t)
  BY <1>3, LessPrefix
<1> QED BY <1>1, <1>3, <1>4, <1>5

\* What sorts before a layer sorts before what that layer sorts before; so the
\* places are in the order of the keys.
LEMMA PlacesFollowKeys ==
    ASSUME NEW L \in SUBSET Layer, IsFiniteSet(L), NEW b, Inheritable(L, b),
           NEW k \in L, NEW l \in L, Less(SortKey(L, b, k), SortKey(L, b, l))
    PROVE  NormalizedPlace(L, b, k) < NormalizedPlace(L, b, l)
<1> DEFINE key(x) == SortKey(L, b, x)
           Before(x) == {y \in L : Less(key(y), key(x))}
<1>1. \A x \in L : key(x) \in Seq(Int)
  BY KeysAreOrdered
<1> HIDE DEF key
<1>2. Less(key(k), key(l))
  BY DEF key
<1>3. Before(k) \subseteq Before(l)
  BY <1>1, <1>2, LessTransitive
<1>4. k \in Before(l) /\ k \notin Before(k)
  BY <1>1, <1>2, LessIrreflexive
<1>5. IsFiniteSet(Before(l)) /\ IsFiniteSet(Before(k))
  <2>1. Before(l) \subseteq L /\ Before(k) \subseteq L
    OBVIOUS
  <2> HIDE DEF Before
  <2> QED BY <2>1, FS_Subset
<1>6. Cardinality(Before(k)) < Cardinality(Before(l))
  <2> HIDE DEF Before
  <2> QED BY <1>3, <1>4, <1>5, FS_Subset, FS_CardinalityType
<1> QED BY <1>6 DEF NormalizedPlace, key

-----------------------------------------------------------------------------
(* What LayerMap and NormalizedOrder promise, in every state in which the  *)
(* layers are finitely many names.                                         *)

\* checkInheritance (probe.go) accepts exactly the maps in which every base
\* exists and no layer is its own ancestor.
THEOREM CheckIsRight ==
    ASSUME layers \subseteq Layer, IsFiniteSet(layers)
    PROVE  CheckInheritanceIsExact
<1>1. NoBase \notin layers
  BY NoBaseAssumption
<1> QED BY <1>1, CheckIsExact DEF CheckInheritanceIsExact

\* On these getAncestorsAndSelf (layerinfo.go) returns the whole chain of a layer,
\* each layer once and after its base, and findLayerBase the base layer of it.
THEOREM WalkIsRight ==
    ASSUME layers \subseteq Layer, IsFiniteSet(layers)
    PROVE  ChainIsComplete
<1>1. NoBase \notin layers
  BY NoBaseAssumption
<1> SUFFICES ASSUME Inheritable(layers, base), NEW l \in layers
             PROVE  LET chain == GetAncestorsAndSelf(layers, base, l)
                        A == AncestorsAndSelf(layers, base, l)
                    IN  /\ {chain[i] : i \in DOMAIN chain} = A
                        /\ Len(chain) = Cardinality(A)
                        /\ \A i \in 2 .. Len(chain) : base[chain[i]] = chain[i-1]
                        /\ {a \in A : base[a] = NoBase} = {Head(chain)}
  BY DEF ChainIsComplete, FindLayerBase
<1> QED BY <1>1, WalkIsComplete

\* And the order of normalizeOrder (normalizeOrder.go) has a place of its own for
\* every layer, after that of its base, whatever the names.
THEOREM OrderIsRight ==
    ASSUME layers \subseteq Layer, IsFiniteSet(layers)
    PROVE  OrderIsTopological
<1> DEFINE place(l) == NormalizedPlace(layers, base, l)
           key(l) == SortKey(layers, base, l)
<1> SUFFICES ASSUME Inheritable(layers, base), NEW l \in layers
             PROVE  /\ \A k \in layers \ {l} : place(k) # place(l)
                    /\ base[l] # NoBase => place(base[l]) < place(l)
  BY DEF OrderIsTopological
<1>1. /\ \A k \in layers : key(k) \in Seq(Int)
      /\ \A k \in layers \ {l} : key(k) # key(l)
      /\ base[l] # NoBase => base[l] \in layers /\ Less(key(base[l]), key(l))
  BY KeysAreOrdered
<1>2. \A j, k \in layers : Less(key(j), key(k)) => place(j) < place(k)
  BY PlacesFollowKeys
<1>3. \A k \in layers : place(k) \in Nat
  <2> TAKE k \in layers
  <2> DEFINE Before == {j \in layers : Less(key(j), key(k))}
  <2>1. Before \subseteq layers
    OBVIOUS
  <2> HIDE DEF Before
  <2>2. Cardinality(Before) \in Nat
    BY <2>1, FS_Subset, FS_CardinalityType
  <2> QED BY <2>2 DEF NormalizedPlace, Before
<1> HIDE DEF place, key
<1>4. ASSUME NEW k \in layers \ {l} PROVE place(k) # place(l)
  <2>1. Less(key(k), key(l)) \/ Less(key(l), key(k))
    BY <1>1, LessTotal
  <2> QED BY <2>1, <1>2, <1>3
<1> QED BY <1>1, <1>2, <1>4
=============================================================================
