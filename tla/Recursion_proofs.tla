-------------------------- MODULE Recursion_proofs --------------------------
(***************************************************************************)
(* Least numbers, and the values of iterations.  The induction theorems of *)
(* the library have an operator as a parameter; these have sets and        *)
(* functions instead.  They come from a theorem that says that finite sets *)
(* are well-founded.                                                       *)
(***************************************************************************)
EXTENDS Filtering, Strings, FiniteSets, FiniteSetTheorems, SequenceTheorems,
        WellFoundedInduction, TLAPS

\* A set of natural numbers has a least member.  (Where the code takes the
\* first of something, and for every induction in these proofs.)
LEMMA LeastNatural ==
    ASSUME NEW T \in SUBSET Nat, T # {}
    PROVE  \E n \in T : \A m \in T : n <= m
<1> DEFINE Upto == {1 .. n : n \in T}
<1>1. Upto \subseteq FiniteSubsetsOf(Nat)
  <2> SUFFICES ASSUME NEW n \in T PROVE 1 .. n \in FiniteSubsetsOf(Nat)
    OBVIOUS
  <2>1. IsFiniteSet(1 .. n)
    BY FS_Interval
  <2>2. 1 .. n \in SUBSET Nat
    OBVIOUS
  <2> QED BY <2>1, <2>2 DEF FiniteSubsetsOf
<1>2. Upto # {}
  OBVIOUS
<1>3. PICK U \in Upto : \A V \in Upto : <<V, U>> \notin StrictSubsetOrdering(Nat)
  <2> HIDE DEF Upto
  <2> QED BY <1>1, <1>2, FS_StrictSubsetOrderingWellFounded, WFMin
<1>4. PICK n \in T : U = 1 .. n
  OBVIOUS
<1>5. ASSUME NEW m \in T, m < n PROVE FALSE
  <2>1. 1 .. m \in Upto /\ 1 .. m \subseteq 1 .. n /\ n \in 1 .. n /\ n \notin 1 .. m
    BY <1>5
  <2>2. <<1 .. m, 1 .. n>> \in StrictSubsetOrdering(Nat)
    BY <2>1 DEF StrictSubsetOrdering
  <2> QED BY <1>3, <1>4, <2>1, <2>2
<1> QED BY <1>4, <1>5

\* Induction over a set of numbers from a to b that has a and, with a number
\* below b, the next.
LEMMA IntervalInduction ==
    ASSUME NEW a \in Nat, NEW b \in Nat, NEW P \in SUBSET Nat,
           a \in P, \A n \in a .. b - 1 : n \in P => n + 1 \in P
    PROVE  \A n \in a .. b : n \in P
<1> DEFINE T == {n \in a .. b : n \notin P}
<1> SUFFICES ASSUME T # {} PROVE FALSE
  OBVIOUS
<1>1. T \in SUBSET Nat
  OBVIOUS
<1>2. PICK n \in T : \A m \in T : n <= m
  <2> HIDE DEF T
  <2> QED BY <1>1, LeastNatural
<1>3. n # a /\ n - 1 \in a .. b - 1 /\ n - 1 \notin T
  BY <1>2
<1> QED BY <1>3

\* What a loop that starts from x has after each of its N iterations; the n-th
\* applies step to n and what there was before.
Steps(f, S, x, step, N) ==
    /\ f \in [0 .. N -> S]
    /\ f[0] = x
    /\ \A n \in 1 .. N : f[n] = step[<<n, f[n - 1]>>]

\* There is such a function.  (What gives the recursive functions that stand for
\* loops a value.)
LEMMA StepsExist ==
    ASSUME NEW S, NEW x \in S, NEW N \in Nat, NEW step \in [(1 .. N) \X S -> S]
    PROVE  \E f : Steps(f, S, x, step, N)
<1> DEFINE P == {k \in Nat : \E f : Steps(f, S, x, step, k)}
<1>1. 0 \in P
  <2>1. Steps([n \in 0 .. 0 |-> x], S, x, step, 0)
    BY DEF Steps
  <2> QED BY <2>1
<1>2. ASSUME NEW k \in 0 .. N - 1, k \in P PROVE k + 1 \in P
  <2>1. PICK f : Steps(f, S, x, step, k)
    BY <1>2
  <2> DEFINE g == [n \in 0 .. k + 1 |-> IF n = k + 1 THEN step[<<n, f[k]>>] ELSE f[n]]
  <2>2. g \in [0 .. k + 1 -> S]
    BY <2>1 DEF Steps
  <2>3. g[0] = x
    BY <2>1 DEF Steps
  <2>4. ASSUME NEW n \in 1 .. k + 1 PROVE g[n] = step[<<n, g[n - 1]>>]
    BY <2>1 DEF Steps
  <2>5. Steps(g, S, x, step, k + 1) /\ k + 1 \in Nat
    <3> HIDE DEF g
    <3> QED BY <2>2, <2>3, <2>4 DEF Steps
  <2> HIDE DEF g
  <2> QED BY <2>5
<1>3. P \in SUBSET Nat /\ 0 \in Nat
  OBVIOUS
<1>4. N \in P
  <2> HIDE DEF P
  <2>1. \A n \in 0 .. N : n \in P
    BY <1>1, <1>2, <1>3, IntervalInduction
  <2> QED BY <2>1
<1> QED BY <1>4

\* The same where the iterations do not depend on their number.
Iterates(f, S, x, step, N) ==
    /\ f \in [0 .. N -> S]
    /\ f[0] = x
    /\ \A n \in 1 .. N : f[n] = step[f[n - 1]]

LEMMA IterationExists ==
    ASSUME NEW S, NEW x \in S, NEW step \in [S -> S], NEW N \in Nat
    PROVE  \E f : Iterates(f, S, x, step, N)
<1> DEFINE numbered == [e \in (1 .. N) \X S |-> step[e[2]]]
<1>1. numbered \in [(1 .. N) \X S -> S]
  OBVIOUS
<1>2. PICK f : Steps(f, S, x, numbered, N)
  <2> HIDE DEF numbered
  <2> QED BY <1>1, StepsExist
<1>3. Iterates(f, S, x, step, N)
  <2> SUFFICES ASSUME NEW n \in 1 .. N PROVE f[n] = step[f[n - 1]]
    BY <1>2 DEF Steps, Iterates
  <2>1. f[n - 1] \in S
    BY <1>2 DEF Steps
  <2>2. f[n] = numbered[<<n, f[n - 1]>>]
    <3> HIDE DEF numbered
    <3> QED BY <1>2 DEF Steps
  <2> QED BY <2>1, <2>2
<1> QED BY <1>3

\* What a loop keeps of a sequence, after each of its iterations.
Kept(f, S, s, T) ==
    /\ f \in [0 .. Len(s) -> Seq(S \cap T)]
    /\ f[0] = <<>>
    /\ \A k \in 1 .. Len(s) :
          f[k] = IF s[k] \in T THEN Append(f[k - 1], s[k]) ELSE f[k - 1]

LEMMA OnlyIsLoop ==
    ASSUME NEW S, NEW s \in Seq(S), NEW T
    PROVE  \E f : Kept(f, S, s, T) /\ Only(s, T) = f[Len(s)]
<1> DEFINE N == Len(s)
           Q == Seq(S \cap T)
           add(n, q) == IF s[n] \in T THEN Append(q, s[n]) ELSE q
           step == [e \in (1 .. N) \X Q |-> add(e[1], e[2])]
           only[k \in 0 .. N] ==
               IF k = 0 THEN <<>>
               ELSE IF s[k] \in T THEN Append(only[k - 1], s[k]) ELSE only[k - 1]
<1>1. Only(s, T) = only[N]
  BY DEF Only
<1>2. N \in Nat /\ <<>> \in Q /\ \A n \in 1 .. N : s[n] \in S
  OBVIOUS
<1>3. \A n \in 1 .. N, q \in Q : add(n, q) \in Q
  BY <1>2
<1>4. step \in [(1 .. N) \X Q -> Q]
  <2> HIDE DEF add, Q
  <2> QED BY <1>3
<1>5. PICK f : Steps(f, Q, <<>>, step, N)
  <2> HIDE DEF Q, step, N
  <2> QED BY <1>2, <1>4, StepsExist
<1>6. f = [k \in 0 .. N |-> IF k = 0 THEN <<>> ELSE add(k, f[k - 1])]
  <2> SUFFICES ASSUME NEW k \in 0 .. N PROVE f[k] = IF k = 0 THEN <<>> ELSE add(k, f[k - 1])
    BY <1>5 DEF Steps
  <2> HIDE DEF Q, N, add
  <2>1. CASE k = 0
    BY <2>1, <1>5 DEF Steps
  <2>2. CASE k # 0
    <3>1. k \in 1 .. N /\ k - 1 \in 0 .. N
      BY <2>2, <1>2
    <3>2. f[k - 1] \in Q
      BY <3>1, <1>5 DEF Steps
    <3>3. f[k] = step[<<k, f[k - 1]>>]
      <4> HIDE DEF step
      <4> QED BY <3>1, <1>5 DEF Steps
    <3> QED BY <2>2, <3>1, <3>2, <3>3
  <2> QED BY <2>1, <2>2
<1>7. only = [k \in 0 .. N |-> IF k = 0 THEN <<>> ELSE add(k, only[k - 1])]
  <2> HIDE DEF N
  <2> QED BY <1>6
<1> DEFINE P == {k \in 0 .. N : only[k] \in Q}
<1>8. \A k \in 0 .. N : k \in P
  <2> HIDE DEF only, N, Q, add
  <2>1. 0 \in P
    BY <1>2, <1>7
  <2>2. ASSUME NEW k \in 0 .. N - 1, k \in P PROVE k + 1 \in P
    <3>1. only[k + 1] = add(k + 1, only[k]) /\ k + 1 \in 1 .. N
      BY <1>2, <1>7
    <3> QED BY <3>1, <2>2, <1>3
  <2>3. P \in SUBSET Nat /\ 0 \in Nat
    OBVIOUS
  <2> HIDE DEF P
  <2> QED BY <1>2, <2>1, <2>2, <2>3, IntervalInduction
<1>9. only \in [0 .. N -> Q]
  <2> HIDE DEF only, N, Q, add
  <2> QED BY <1>7, <1>8
<1>10. only[0] = <<>>
  <2> HIDE DEF only, N, Q, add
  <2> QED BY <1>2, <1>7
<1>11. \A k \in 1 .. N : only[k] = add(k, only[k - 1])
  <2> HIDE DEF only, N, Q, add
  <2> QED BY <1>2, <1>7
<1>12. Kept(only, S, s, T)
  <2> HIDE DEF only
  <2> QED BY <1>9, <1>10, <1>11 DEF Kept
<1> HIDE DEF only
<1> QED BY <1>1, <1>12

\* It is a sequence of members of the sequence that are in the set.
LEMMA OnlyType ==
    ASSUME NEW S, NEW s \in Seq(S), NEW T
    PROVE  Only(s, T) \in Seq(S \cap T)
<1>1. Len(s) \in 0 .. Len(s)
  OBVIOUS
<1> QED BY <1>1, OnlyIsLoop DEF Kept

\* It has what the sequence and the set both have.
LEMMA OnlyComplete ==
    ASSUME NEW S, NEW s \in Seq(S), NEW T, NEW m \in 1 .. Len(s), s[m] \in T
    PROVE  \E k \in DOMAIN Only(s, T) : Only(s, T)[k] = s[m]
<1> DEFINE N == Len(s)
           Has(q) == \E k \in DOMAIN q : q[k] = s[m]
<1>1. PICK f : Kept(f, S, s, T) /\ Only(s, T) = f[N]
  BY OnlyIsLoop
<1>2. N \in Nat /\ m \in Nat /\ m <= N /\ 1 <= m
  OBVIOUS
<1> DEFINE P == {n \in m .. N : Has(f[n])}
<1>3. m \in P
  <2>1. m - 1 \in 0 .. N /\ m \in m .. N /\ m \in 1 .. N
    BY <1>2
  <2>2. f[m - 1] \in Seq(S \cap T) /\ f[m] = Append(f[m - 1], s[m])
    BY <1>1, <2>1 DEF Kept
  <2>3. Len(f[m - 1]) + 1 \in DOMAIN f[m] /\ f[m][Len(f[m - 1]) + 1] = s[m]
    BY <2>2
  <2> QED BY <2>1, <2>3
<1>4. ASSUME NEW n \in m .. N - 1, n \in P PROVE n + 1 \in P
  <2> DEFINE q == f[n]
  <2>1. n + 1 \in 1 .. N /\ n + 1 \in m .. N /\ n \in 0 .. N /\ (n + 1) - 1 = n
    BY <1>2
  <2>2. q \in Seq(S \cap T) /\ f[n + 1] \in {q, Append(q, s[n + 1])}
    BY <1>1, <2>1 DEF Kept
  <2>3. PICK k \in DOMAIN q : q[k] = s[m]
    BY <1>4
  <2>4. k \in DOMAIN f[n + 1] /\ f[n + 1][k] = s[m]
    <3> HIDE DEF q
    <3>1. k \in DOMAIN Append(q, s[n + 1]) /\ Append(q, s[n + 1])[k] = q[k]
      BY <2>2
    <3> QED BY <2>2, <2>3, <3>1
  <2> QED BY <2>1, <2>4
<1>5. N \in P
  <2>1. P \in SUBSET Nat /\ m \in Nat
    BY <1>2
  <2>2. m \in Nat /\ N \in Nat /\ N \in m .. N
    BY <1>2
  <2> HIDE DEF P, N
  <2>3. \A n \in m .. N : n \in P
    BY <1>3, <1>4, <2>1, <2>2, IntervalInduction
  <2> QED BY <2>2, <2>3
<1> QED BY <1>1, <1>5

\* It has nothing twice that the sequence has once.
LEMMA OnlyInjective ==
    ASSUME NEW S, NEW s \in Seq(S), NEW T,
           \A j, k \in 1 .. Len(s) : s[j] = s[k] => j = k
    PROVE  \A j, k \in DOMAIN Only(s, T) : Only(s, T)[j] = Only(s, T)[k] => j = k
<1> DEFINE N == Len(s)
           Once(q) == \A j, k \in DOMAIN q : q[j] = q[k] => j = k
           From(q, n) == \A j \in DOMAIN q : \E m \in 1 .. n : q[j] = s[m]
<1>1. PICK f : Kept(f, S, s, T) /\ Only(s, T) = f[N]
  BY OnlyIsLoop
<1>2. N \in Nat /\ 0 \in Nat
  OBVIOUS
<1> DEFINE P == {n \in 0 .. N : Once(f[n]) /\ From(f[n], n)}
<1>3. 0 \in P
  BY <1>1, <1>2 DEF Kept
<1>4. ASSUME NEW n \in 0 .. N - 1, n \in P PROVE n + 1 \in P
  <2> DEFINE q == f[n]
  <2>1. /\ q \in Seq(S \cap T) /\ Once(q) /\ From(q, n) /\ n + 1 \in 1 .. N /\ n \in Nat
        /\ f[n + 1] = IF s[n + 1] \in T THEN Append(q, s[n + 1]) ELSE q
    <3>1. n + 1 \in 1 .. N /\ n \in 0 .. N /\ n \in Nat /\ (n + 1) - 1 = n
      BY <1>2
    <3>2. q \in Seq(S \cap T)
      BY <1>1, <3>1 DEF Kept
    <3>3. f[n + 1] = IF s[n + 1] \in T THEN Append(q, s[n + 1]) ELSE q
      BY <1>1, <3>1 DEF Kept
    <3> QED BY <1>4, <3>1, <3>2, <3>3
  <2>0. n + 1 \in P <=> (n + 1 \in 0 .. N /\ Once(f[n + 1]) /\ From(f[n + 1], n + 1))
    OBVIOUS
  <2>5. n + 1 \in 0 .. N /\ \A m \in 1 .. n : m \in 1 .. n + 1
    BY <1>2, <2>1
  <2> HIDE DEF q, P, N
  <2>2. CASE f[n + 1] = q
    BY <2>0, <2>1, <2>2, <2>5
  <2>3. CASE s[n + 1] \in T /\ f[n + 1] = Append(q, s[n + 1])
    <3> DEFINE r == f[n + 1]
    <3>1. /\ Len(q) \in Nat /\ DOMAIN q = 1 .. Len(q) /\ DOMAIN r = 1 .. Len(q) + 1
          /\ \A j \in 1 .. Len(q) : r[j] = q[j]
          /\ r[Len(q) + 1] = s[n + 1]
      BY <2>1, <2>3
    <3> HIDE DEF r
    <3>2. From(r, n + 1)
      BY <2>1, <3>1
    <3>3. \A j \in 1 .. Len(q) : r[j] # s[n + 1]
      <4>1. \A m \in 1 .. n : m \in 1 .. N /\ m # n + 1
        BY <1>2, <2>1
      <4>2. \A m \in 1 .. n : s[m] # s[n + 1]
        BY <2>1, <4>1 DEF N
      <4> QED BY <2>1, <3>1, <4>2
    <3>4. Once(r)
      BY <2>1, <3>1, <3>3
    <3> QED BY <2>0, <2>5, <3>2, <3>4 DEF r
  <2> QED BY <2>1, <2>2, <2>3
<1>5. N \in P
  <2>1. P \in SUBSET Nat
    OBVIOUS
  <2> HIDE DEF P, N
  <2>2. \A n \in 0 .. N : n \in P
    BY <1>2, <1>3, <1>4, <2>1, IntervalInduction
  <2> QED BY <1>2, <2>2
<1> QED BY <1>1, <1>5

-----------------------------------------------------------------------------
(* Recursion over trees.                                                   *)

\* Of the members of a set those with the least depth.
LEMMA LeastDepth ==
    ASSUME NEW D, NEW depth \in [D -> Nat], NEW T \in SUBSET D, T # {}
    PROVE  \E d \in T : \A e \in T : depth[d] <= depth[e]
<1> DEFINE depths == {depth[d] : d \in T}
<1>1. depths \in SUBSET Nat /\ depths # {}
  OBVIOUS
<1>2. PICK n \in depths : \A m \in depths : n <= m
  <2> HIDE DEF depths
  <2> QED BY <1>1, LeastNatural
<1> QED BY <1>2

\* A function on trees: step says what its value for a tree is once its values
\* for the parts of the tree are known, and looks at no others.
Descends(D, V, depth, parts, step) ==
    /\ depth \in [D -> Nat] /\ parts \in [D -> SUBSET D]
    /\ \A d \in D : \A e \in parts[d] : depth[e] < depth[d]
    /\ step \in [[D -> V] -> [D -> V]]
    /\ \A g, h \in [D -> V], d \in D :
          (\A e \in parts[d] : g[e] = h[e]) => step[g][d] = step[h][d]

\* g is that function as far as the trees whose depth is less than n.
Upto(g, n, D, depth, step) == \A d \in D : depth[d] < n => g[d] = step[g][d]

LEMMA UptoUnique ==
    ASSUME NEW D, NEW V, NEW depth, NEW parts, NEW step, Descends(D, V, depth, parts, step),
           NEW n \in Nat, NEW g \in [D -> V], NEW h \in [D -> V],
           Upto(g, n, D, depth, step), Upto(h, n, D, depth, step)
    PROVE  \A d \in D : depth[d] < n => g[d] = h[d]
<1> DEFINE T == {d \in D : depth[d] < n /\ g[d] # h[d]}
<1> SUFFICES ASSUME T # {} PROVE FALSE
  OBVIOUS
<1>1. depth \in [D -> Nat] /\ T \in SUBSET D
  BY DEF Descends
<1>2. PICK d \in T : \A e \in T : depth[d] <= depth[e]
  <2> HIDE DEF T
  <2> QED BY <1>1, LeastDepth
<1>3. \A e \in parts[d] : g[e] = h[e]
  <2> SUFFICES ASSUME NEW e \in parts[d] PROVE g[e] = h[e]
    OBVIOUS
  <2>1. e \in D /\ depth[e] \in Nat /\ depth[d] \in Nat /\ depth[e] < depth[d] /\ depth[d] < n
    BY <1>1, <1>2 DEF Descends
  <2>2. ~(depth[d] <= depth[e]) /\ depth[e] < n
    BY <2>1
  <2> QED BY <1>2, <2>1, <2>2
<1>4. step[g][d] = step[h][d]
  BY <1>2, <1>3 DEF Descends
<1> QED BY <1>2, <1>4 DEF Upto

LEMMA UptoExists ==
    ASSUME NEW D, NEW V, V # {}, NEW depth, NEW parts, NEW step,
           Descends(D, V, depth, parts, step), NEW N \in Nat
    PROVE  \E g \in [D -> V] : Upto(g, N, D, depth, step)
<1> DEFINE P == {n \in Nat : \E g \in [D -> V] : Upto(g, n, D, depth, step)}
<1>1. 0 \in P
  <2>1. PICK v \in V : TRUE
    OBVIOUS
  <2>2. [d \in D |-> v] \in [D -> V]
    OBVIOUS
  <2>3. \A d \in D : ~(depth[d] < 0)
    BY DEF Descends
  <2> QED BY <2>2, <2>3 DEF Upto
<1>2. ASSUME NEW n \in 0 .. N - 1, n \in P PROVE n + 1 \in P
  <2>1. PICK g \in [D -> V] : Upto(g, n, D, depth, step)
    BY <1>2
  <2>2. step[g] \in [D -> V]
    BY DEF Descends
  <2>3. ASSUME NEW d \in D, depth[d] < n + 1 PROVE step[g][d] = step[step[g]][d]
    <3>1. \A e \in parts[d] : g[e] = step[g][e]
      <4> SUFFICES ASSUME NEW e \in parts[d] PROVE g[e] = step[g][e]
        OBVIOUS
      <4>1. e \in D /\ depth[e] \in Nat /\ depth[d] \in Nat /\ depth[e] < depth[d]
        BY DEF Descends
      <4>2. depth[e] < n
        BY <2>3, <4>1
      <4> QED BY <2>1, <4>1, <4>2 DEF Upto
    <3> QED BY <2>2, <3>1 DEF Descends
  <2>4. Upto(step[g], n + 1, D, depth, step)
    BY <2>3 DEF Upto
  <2> QED BY <2>2, <2>4
<1>3. P \in SUBSET Nat
  OBVIOUS
<1> HIDE DEF P
<1>4. \A n \in 0 .. N : n \in P
  BY <1>1, <1>2, <1>3, IntervalInduction
<1>5. N \in P
  BY <1>4
<1> QED BY <1>5 DEF P

\* There is a function that has at each tree the value that step gives it.
LEMMA TreeFunctionExists ==
    ASSUME NEW D, NEW V, V # {}, NEW depth, NEW parts, NEW step,
           Descends(D, V, depth, parts, step)
    PROVE  \E f \in [D -> V] : \A d \in D : f[d] = step[f][d]
<1> DEFINE Is(g, n) == g \in [D -> V] /\ Upto(g, n, D, depth, step)
           G(n) == CHOOSE g : Is(g, n)
           f == [d \in D |-> G(depth[d] + 1)[d]]
<1>1. \A n \in Nat : Is(G(n), n)
  <2> SUFFICES ASSUME NEW n \in Nat PROVE Is(G(n), n)
    OBVIOUS
  <2>1. \E g : Is(g, n)
    BY UptoExists
  <2> HIDE DEF Is
  <2> QED BY <2>1
<1>2. \A d \in D : depth[d] \in Nat /\ depth[d] + 1 \in Nat /\ depth[d] < depth[d] + 1
  BY DEF Descends
<1> HIDE DEF G
<1>3. f \in [D -> V]
  BY <1>1, <1>2
<1>4. ASSUME NEW n \in Nat, NEW d \in D, depth[d] < n PROVE f[d] = G(n)[d]
  <2> DEFINE m == depth[d] + 1
  <2>1. m \in Nat /\ depth[d] < m /\ m <= n
    BY <1>2, <1>4
  <2>2. Is(G(m), m) /\ Is(G(n), n)
    BY <1>1, <2>1
  <2>3. Upto(G(n), m, D, depth, step)
    <3>1. \A e \in D : depth[e] < m => depth[e] < n
      BY <1>2, <2>1
    <3> QED BY <2>2, <3>1 DEF Upto
  <2> HIDE DEF m
  <2>4. G(m)[d] = G(n)[d]
    BY <2>1, <2>2, <2>3, UptoUnique
  <2> QED BY <2>4 DEF m
<1>5. ASSUME NEW d \in D PROVE f[d] = step[f][d]
  <2> DEFINE n == depth[d] + 1
             g == G(n)
  <2>1. n \in Nat /\ depth[d] < n
    BY <1>2
  <2>2. g \in [D -> V] /\ g[d] = step[g][d]
    BY <1>1, <2>1 DEF Upto
  <2>3. \A e \in parts[d] : f[e] = g[e]
    <3> SUFFICES ASSUME NEW e \in parts[d] PROVE f[e] = g[e]
      OBVIOUS
    <3>1. e \in D /\ depth[e] < n
      <4>1. e \in D /\ depth[e] \in Nat /\ depth[d] \in Nat /\ depth[e] < depth[d]
        BY DEF Descends
      <4> QED BY <4>1
    <3> QED BY <1>4, <2>1, <3>1
  <2>4. f[d] = g[d]
    OBVIOUS
  <2> HIDE DEF f, g, n
  <2>5. step[f][d] = step[g][d]
    BY <1>3, <2>2, <2>3 DEF Descends
  <2> QED BY <2>2, <2>4, <2>5
<1> HIDE DEF f
<1> QED BY <1>3, <1>5

-----------------------------------------------------------------------------
(* The order of strings.                                                   *)

\* The place that decides that one string is less than another.
Decides(s, t, n) ==
    /\ n \in 1 .. Len(t) /\ n <= Len(s) + 1
    /\ \A k \in 1 .. n - 1 : s[k] = t[k]
    /\ n <= Len(s) => s[n] < t[n]

LEMMA LessDecided ==
    ASSUME NEW s, NEW t
    PROVE  Less(s, t) <=> \E n \in Nat : Decides(s, t, n)
  BY DEF Less, Decides

\* The order of strings is one: no string is less than itself,
LEMMA LessIrreflexive ==
    ASSUME NEW s \in Seq(Int)
    PROVE  ~Less(s, s)
  BY DEF Less

\* what is less than a lesser string is less,
LEMMA LessTransitive ==
    ASSUME NEW s \in Seq(Int), NEW t \in Seq(Int), NEW u \in Seq(Int),
           Less(s, t), Less(t, u)
    PROVE  Less(s, u)
<1>1. PICK m \in Nat : Decides(s, t, m)
  BY LessDecided
<1>2. PICK n \in Nat : Decides(t, u, n)
  BY LessDecided
<1>3. CASE m <= n
  <2>1. m \in 1 .. Len(u) /\ m \in 1 .. Len(t) /\ m <= Len(s) + 1
    BY <1>1, <1>2, <1>3 DEF Decides
  <2>2. ASSUME NEW k \in 1 .. m - 1 PROVE s[k] = u[k]
    <3>1. k \in 1 .. n - 1
      BY <1>3
    <3>2. s[k] = t[k] /\ t[k] = u[k]
      BY <3>1, <1>1, <1>2 DEF Decides
    <3> QED BY <3>2
  <2>3. ASSUME m <= Len(s) PROVE s[m] < u[m]
    <3>1. s[m] \in Int /\ t[m] \in Int /\ u[m] \in Int
      BY <2>1, <2>3
    <3>2. s[m] < t[m]
      BY <2>3, <1>1 DEF Decides
    <3>3. CASE m = n
      <4>1. t[m] < u[m]
        BY <2>1, <3>3, <1>2 DEF Decides
      <4> QED BY <3>1, <3>2, <4>1
    <3>4. CASE m # n
      <4>1. m \in 1 .. n - 1
        BY <3>4, <1>3, <2>1
      <4>2. t[m] = u[m]
        BY <4>1, <1>2 DEF Decides
      <4> QED BY <3>2, <4>2
    <3> QED BY <3>3, <3>4
  <2>4. Decides(s, u, m)
    BY <2>1, <2>2, <2>3 DEF Decides
  <2> QED BY <2>4, LessDecided
<1>4. CASE n < m
  <2>1. n \in 1 .. Len(u) /\ n <= Len(t) /\ n \in 1 .. m - 1 /\ n <= Len(s)
    BY <1>1, <1>2, <1>4 DEF Decides
  <2>2. ASSUME NEW k \in 1 .. n - 1 PROVE s[k] = u[k]
    <3>1. k \in 1 .. m - 1
      BY <1>4
    <3>2. s[k] = t[k] /\ t[k] = u[k]
      BY <3>1, <1>1, <1>2 DEF Decides
    <3> QED BY <3>2
  <2>3. s[n] = t[n] /\ t[n] < u[n]
    BY <2>1, <1>1, <1>2 DEF Decides
  <2>4. Decides(s, u, n)
    BY <2>1, <2>2, <2>3 DEF Decides
  <2> QED BY <2>4, LessDecided
<1> QED BY <1>3, <1>4

\* and of two strings one is less.
LEMMA LessTotal ==
    ASSUME NEW s \in Seq(Int), NEW t \in Seq(Int), s # t
    PROVE  Less(s, t) \/ Less(t, s)
<1> DEFINE T == {n \in 1 .. Len(s) + 1 : n = Len(s) + 1 \/ n = Len(t) + 1 \/ s[n] # t[n]}
<1>1. T \in SUBSET Nat /\ Len(s) + 1 \in T
  OBVIOUS
<1>2. PICK n \in T : \A m \in T : n <= m
  <2> HIDE DEF T
  <2> QED BY <1>1, LeastNatural
<1>3. \A k \in 1 .. n - 1 : k \in DOMAIN s /\ k \in DOMAIN t /\ s[k] = t[k]
  <2>1. n <= Len(s) + 1 /\ n \in Nat
    BY <1>2
  <2>2. ASSUME n > Len(t) + 1 PROVE FALSE
    <3>1. Len(t) + 1 \in T
      BY <2>1, <2>2
    <3> QED BY <1>2, <2>1, <2>2, <3>1
  <2> TAKE k \in 1 .. n - 1
  <2>3. k \in 1 .. Len(s) /\ k \in 1 .. Len(t)
    BY <2>1, <2>2
  <2>4. k \notin T
    BY <1>2, <2>1
  <2> QED BY <2>3, <2>4
<1>4. n <= Len(s) + 1 /\ n <= Len(t) + 1
  BY <1>2, <1>3
<1>5. CASE n = Len(s) + 1 /\ n = Len(t) + 1
  <2>1. s = t
    BY <1>3, <1>5
  <2> QED BY <2>1
<1>6. CASE n = Len(s) + 1 /\ n # Len(t) + 1
  <2>1. Decides(s, t, n)
    BY <1>3, <1>4, <1>6 DEF Decides
  <2> QED BY <2>1, <1>6, LessDecided
<1>7. CASE n # Len(s) + 1 /\ n = Len(t) + 1
  <2>1. Decides(t, s, n)
    BY <1>3, <1>4, <1>7 DEF Decides
  <2> QED BY <2>1, <1>7, LessDecided
<1>8. CASE n # Len(s) + 1 /\ n # Len(t) + 1
  <2>1. s[n] \in Int /\ t[n] \in Int /\ s[n] # t[n] /\ n \in Nat
    BY <1>2, <1>4, <1>8
  <2>2. Decides(s, t, n) \/ Decides(t, s, n)
    BY <1>3, <1>4, <1>8, <2>1 DEF Decides
  <2> QED BY <2>1, <2>2, LessDecided
<1> QED BY <1>5, <1>6, <1>7, <1>8

\* A common beginning does not matter.
LEMMA LessAfterIf ==
    ASSUME NEW p \in Seq(Int), NEW s \in Seq(Int), NEW t \in Seq(Int), Less(s, t)
    PROVE  Less(p \o s, p \o t)
<1> DEFINE N == Len(p)
           S == p \o s
           T == p \o t
<1>1. /\ S \in Seq(Int) /\ Len(S) = N + Len(s)
      /\ T \in Seq(Int) /\ Len(T) = N + Len(t)
      /\ N \in Nat /\ Len(s) \in Nat /\ Len(t) \in Nat
  OBVIOUS
<1>2. /\ \A k \in 1 .. N : S[k] = T[k]
      /\ \A k \in 1 .. Len(s) : S[N + k] = s[k]
      /\ \A k \in 1 .. Len(t) : T[N + k] = t[k]
  OBVIOUS
<1>3. PICK n \in Nat : Decides(s, t, n)
  BY LessDecided
<1> HIDE DEF N, S, T
<1>4. n \in 1 .. Len(t) /\ n <= Len(s) + 1
  BY <1>3 DEF Decides
<1> DEFINE M == N + n
<1>5. ASSUME NEW k \in 1 .. M - 1 PROVE S[k] = T[k]
  <2>1. CASE k > N
    <3> DEFINE j == k - N
    <3>4. k \in Int /\ N \in Int /\ n \in Int /\ 1 <= k /\ k <= N + n - 1 /\ k > N
      BY <1>1, <1>4, <2>1
    <3>5. j \in Int /\ 1 <= j /\ j <= n - 1 /\ k = N + j
      BY <3>4
    <3>6. n - 1 <= Len(s) /\ n - 1 <= Len(t)
      BY <1>1, <1>4
    <3>1. j \in 1 .. n - 1 /\ j \in 1 .. Len(s) /\ j \in 1 .. Len(t) /\ k = N + j
      <4> HIDE DEF j
      <4>1. Len(s) \in Int /\ Len(t) \in Int
        BY <1>1
      <4>2. j <= Len(s) /\ j <= Len(t)
        BY <4>1, <3>4, <3>5, <3>6
      <4> QED BY <4>1, <4>2, <3>4, <3>5
    <3>2. s[j] = t[j]
      BY <3>1, <1>3 DEF Decides
    <3> HIDE DEF j
    <3> QED BY <3>1, <3>2, <1>2
  <2>2. CASE k <= N
    BY <2>2, <1>1, <1>2
  <2> QED BY <2>1, <2>2, <1>1
<1>6. ASSUME M <= Len(S) PROVE S[M] < T[M]
  <2>1. n \in 1 .. Len(s)
    BY <1>1, <1>4, <1>6
  <2>2. s[n] < t[n]
    BY <2>1, <1>1, <1>3 DEF Decides
  <2> QED BY <2>1, <2>2, <1>2, <1>4
<1>7. M \in 1 .. Len(T) /\ M <= Len(S) + 1 /\ M \in Nat
  BY <1>1, <1>4
<1>8. Decides(S, T, M)
  <2> HIDE DEF M
  <2> QED BY <1>5, <1>6, <1>7 DEF Decides
<1>9. Less(S, T)
  BY <1>7, <1>8, LessDecided
<1> QED BY <1>9 DEF S, T

LEMMA LessAfter ==
    ASSUME NEW p \in Seq(Int), NEW s \in Seq(Int), NEW t \in Seq(Int)
    PROVE  Less(p \o s, p \o t) <=> Less(s, t)
<1>1. p \o s \in Seq(Int) /\ p \o t \in Seq(Int)
  OBVIOUS
<1>2. ASSUME Less(p \o s, p \o t) PROVE Less(s, t)
  <2>1. CASE Less(t, s)
    <3>1. Less(p \o t, p \o s)
      BY <2>1, LessAfterIf
    <3> QED BY <3>1, <1>1, <1>2, LessIrreflexive, LessTransitive
  <2>2. CASE s = t
    BY <2>2, <1>1, <1>2, LessIrreflexive
  <2> QED BY <2>1, <2>2, LessTotal
<1> QED BY <1>2, LessAfterIf

\* A string is less than what it begins.
LEMMA LessPrefix ==
    ASSUME NEW s \in Seq(Int), NEW t \in Seq(Int), t # <<>>
    PROVE  Less(s, s \o t)
<1>1. Decides(<<>>, t, 1)
  BY DEF Decides
<1>2. Less(<<>>, t)
  BY <1>1, LessDecided
<1>3. Less(s \o <<>>, s \o t)
  <2>1. <<>> \in Seq(Int)
    OBVIOUS
  <2> QED BY <1>2, <2>1, LessAfterIf
<1> QED BY <1>3

-----------------------------------------------------------------------------
(* Strings with separators.                                                *)

\* What a loop that puts strings together has after each of its iterations.
Separates(f, S, x, strings) ==
    /\ f \in [0 .. Len(strings) -> Seq(S)]
    /\ f[0] = <<>>
    /\ \A n \in 1 .. Len(strings) :
          f[n] = f[n - 1] \o <<x>> \o strings[n]

LEMMA SeparatedIsLoop ==
    ASSUME NEW S, NEW x \in S, NEW strings \in Seq(Seq(S))
    PROVE  \E f : Separates(f, S, x, strings) /\ Separated(x, strings) = f[Len(strings)]
<1> DEFINE N == Len(strings)
           Q == Seq(S)
           add(n, q) == q \o <<x>> \o strings[n]
           step == [e \in (1 .. N) \X Q |-> add(e[1], e[2])]
           separated[n \in 0 .. N] ==
               IF n = 0 THEN <<>> ELSE separated[n - 1] \o <<x>> \o strings[n]
<1>1. Separated(x, strings) = separated[N]
  BY DEF Separated
<1>2. N \in Nat /\ <<>> \in Q
  OBVIOUS
<1>3. ASSUME NEW n \in 1 .. N, NEW q \in Q PROVE add(n, q) \in Q
  <2>1. strings[n] \in Seq(S)
    OBVIOUS
  <2> QED BY <2>1
<1>4. step \in [(1 .. N) \X Q -> Q]
  <2> HIDE DEF add, Q
  <2> QED BY <1>3
<1>5. PICK f : Steps(f, Q, <<>>, step, N)
  <2> HIDE DEF Q, step, N
  <2> QED BY <1>2, <1>4, StepsExist
<1>6. \A n \in 1 .. N : f[n] = add(n, f[n - 1])
  <2> TAKE n \in 1 .. N
  <2> HIDE DEF add, Q, N
  <2>1. f[n - 1] \in Q
    BY <1>2, <1>5 DEF Steps
  <2>2. f[n] = step[<<n, f[n - 1]>>]
    <3> HIDE DEF step
    <3> QED BY <1>5 DEF Steps
  <2> QED BY <2>1, <2>2
<1>7. f = [n \in 0 .. N |-> IF n = 0 THEN <<>> ELSE add(n, f[n - 1])]
  <2> HIDE DEF Q, N, add, step
  <2> QED BY <1>2, <1>5, <1>6 DEF Steps
<1>8. separated = [n \in 0 .. N |-> IF n = 0 THEN <<>> ELSE add(n, separated[n - 1])]
  <2> HIDE DEF N
  <2> QED BY <1>7
<1> DEFINE P == {n \in 0 .. N : separated[n] = f[n]}
<1>9. \A n \in 0 .. N : n \in P
  <2> HIDE DEF separated, N, Q, add
  <2>1. 0 \in P
    BY <1>2, <1>7, <1>8
  <2>2. ASSUME NEW n \in 0 .. N - 1, n \in P PROVE n + 1 \in P
    <3>1. n + 1 \in 1 .. N /\ n + 1 - 1 = n
      BY <1>2
    <3>2. separated[n + 1] = add(n + 1, separated[n])
      <4>1. \A m \in 1 .. N : separated[m] = add(m, separated[m - 1])
        BY <1>2, <1>8
      <4> HIDE DEF separated
      <4> QED BY <3>1, <4>1
    <3>3. f[n + 1] = add(n + 1, f[n])
      BY <3>1, <1>6
    <3> QED BY <2>2, <3>1, <3>2, <3>3
  <2>3. P \in SUBSET Nat
    OBVIOUS
  <2> HIDE DEF P
  <2> QED BY <1>2, <2>1, <2>2, <2>3, IntervalInduction
<1>10. separated[N] = f[N]
  <2> HIDE DEF separated, N
  <2> QED BY <1>2, <1>9
<1>11. Separates(f, S, x, strings)
  <2> HIDE DEF step
  <2> QED BY <1>5, <1>6 DEF Separates, Steps
<1> HIDE DEF separated
<1> QED BY <1>1, <1>10, <1>11

\* A further string goes after the others.
LEMMA SeparatedAppend ==
    ASSUME NEW S, NEW x \in S, NEW strings \in Seq(Seq(S)), NEW s \in Seq(S)
    PROVE  /\ Separated(x, strings) \in Seq(S)
           /\ Separated(x, <<>>) = <<>>
           /\ Separated(x, Append(strings, s)) = Separated(x, strings) \o <<x>> \o s
<1> DEFINE more == Append(strings, s)
           N == Len(strings)
<1>1. /\ more \in Seq(Seq(S)) /\ Len(more) = N + 1 /\ more[N + 1] = s /\ N \in Nat
      /\ \A n \in 1 .. N : more[n] = strings[n]
  OBVIOUS
<1> HIDE DEF more
<1>2. PICK f : Separates(f, S, x, strings) /\ Separated(x, strings) = f[N]
  BY SeparatedIsLoop
<1>3. PICK g : Separates(g, S, x, more) /\ Separated(x, more) = g[N + 1]
  BY <1>1, SeparatedIsLoop
<1> HIDE DEF N
<1> DEFINE P == {n \in 0 .. N : f[n] = g[n]}
<1>4. \A n \in 0 .. N : n \in P
  <2>1. 0 \in P
    BY <1>1, <1>2, <1>3 DEF Separates
  <2>2. ASSUME NEW n \in 0 .. N - 1, n \in P PROVE n + 1 \in P
    <3> DEFINE m == n + 1
    <3>1. m \in 1 .. N /\ m \in 1 .. N + 1 /\ m - 1 = n
      BY <1>1
    <3> HIDE DEF m
    <3>2. f[m] = f[m - 1] \o <<x>> \o strings[m]
      BY <3>1, <1>2 DEF Separates, N
    <3>3. g[m] = g[m - 1] \o <<x>> \o more[m]
      BY <3>1, <1>1, <1>3 DEF Separates
    <3>4. f[n] = g[n] /\ more[m] = strings[m]
      BY <2>2, <3>1, <1>1
    <3>5. f[m - 1] = g[m - 1]
      BY <3>1, <2>2
    <3>6. f[m] = g[m]
      BY <3>2, <3>3, <3>4, <3>5, Zenon
    <3>7. m \in 0 .. N
      BY <3>1
    <3>8. m \in P
      BY <3>6, <3>7
    <3> QED BY <3>8 DEF m
  <2>3. P \in SUBSET Nat
    OBVIOUS
  <2> HIDE DEF P
  <2> QED BY <1>1, <2>1, <2>2, <2>3, IntervalInduction
<1>5. g[N + 1] = g[N] \o <<x>> \o s
  <2> DEFINE m == N + 1
  <2>1. m \in 1 .. Len(more) /\ m - 1 = N /\ more[m] = s
    BY <1>1
  <2> HIDE DEF m
  <2>2. g[m] = g[m - 1] \o <<x>> \o more[m]
    BY <2>1, <1>3 DEF Separates
  <2>3. g[m] = g[N] \o <<x>> \o s
    BY <2>1, <2>2
  <2> QED BY <2>3 DEF m
<1>6. f[N] = g[N] /\ f[N] \in Seq(S)
  <2>1. N \in 0 .. N /\ f \in [0 .. N -> Seq(S)]
    BY <1>1, <1>2 DEF Separates, N
  <2> HIDE DEF N
  <2> QED BY <2>1, <1>4
<1>7. Separated(x, <<>>) = <<>>
  <2>1. <<>> \in Seq(Seq(S)) /\ Len(<<>>) = 0
    OBVIOUS
  <2>2. PICK h : Separates(h, S, x, <<>>) /\ Separated(x, <<>>) = h[Len(<<>>)]
    BY <2>1, SeparatedIsLoop
  <2> QED BY <2>1, <2>2 DEF Separates
<1> QED BY <1>2, <1>3, <1>5, <1>6, <1>7 DEF more

-----------------------------------------------------------------------------
(* Sequences.                                                              *)

\* A sequence that is not empty has a first member.
LEMMA FirstAndRest ==
    ASSUME NEW S, NEW s \in Seq(S), s # <<>>
    PROVE  \E x \in S, rest \in Seq(S) : s = <<x>> \o rest /\ Len(s) = Len(rest) + 1
<1>1. Len(s) \in Nat /\ Len(s) > 0 /\ s[1] \in S
  OBVIOUS
<1> DEFINE rest == SubSeq(s, 2, Len(s))
<1>2. s = <<s[1]>> \o rest
  <2>1. 1 \in 1 .. Len(s) /\ Len(s) \in 1 .. Len(s)
    BY <1>1
  <2>2. SubSeq(s, 1, Len(s)) = s
    BY SubSeqFull
  <2> QED BY <2>1, <2>2, SubSeqRecursiveFirst
<1>3. rest \in Seq(S) /\ Len(rest) = Len(s) - 1
  <2>1. 2 \in Int /\ Len(s) \in Int /\ \A k \in 2 .. Len(s) : s[k] \in S
    BY <1>1
  <2> QED BY <1>1, <2>1, SubSeqProperties
<1>4. Len(s) = Len(rest) + 1
  BY <1>1, <1>3
<1> HIDE DEF rest
<1> QED BY <1>1, <1>2, <1>3, <1>4

\* Induction over sequences, made longer at the end
LEMMA AppendInduction ==
    ASSUME NEW S, NEW P, <<>> \in P,
           \A s \in Seq(S), x \in S : s \in P => Append(s, x) \in P
    PROVE  \A s \in Seq(S) : s \in P
<1> DEFINE L == {n \in Nat : \A s \in Seq(S) : Len(s) = n => s \in P}
<1>1. 0 \in L
  <2>1. \A s \in Seq(S) : Len(s) = 0 => s = <<>>
    OBVIOUS
  <2> QED BY <2>1
<1>2. ASSUME NEW n \in Nat, n \in L PROVE n + 1 \in L
  <2> SUFFICES ASSUME NEW s \in Seq(S), Len(s) = n + 1 PROVE s \in P
    OBVIOUS
  <2>1. s # <<>>
    OBVIOUS
  <2>2. PICK front \in Seq(S), x \in S : s = Append(front, x)
    BY <2>1, SequenceEmptyOrAppend
  <2>3. Len(front) = n
    BY <2>2
  <2> QED BY <1>2, <2>2, <2>3
<1>3. L \in SUBSET Nat
  OBVIOUS
<1> SUFFICES ASSUME NEW s \in Seq(S) PROVE s \in P
  OBVIOUS
<1> HIDE DEF L
<1>4. Len(s) \in Nat /\ Len(s) \in 0 .. Len(s)
  OBVIOUS
<1>5. \A n \in 0 .. Len(s) : n \in L
  BY <1>1, <1>2, <1>3, <1>4, IntervalInduction
<1> QED BY <1>4, <1>5 DEF L

\* and at the beginning.
Prepends(S, P) == \A s \in Seq(S), x \in S : s \in P => <<x>> \o s \in P

LEMMA PrependInduction ==
    ASSUME NEW S, NEW P, <<>> \in P, Prepends(S, P)
    PROVE  \A s \in Seq(S) : s \in P
<1> DEFINE L == {n \in Nat : \A s \in Seq(S) : Len(s) = n => s \in P}
<1>1. 0 \in L
  <2>1. \A s \in Seq(S) : Len(s) = 0 => s = <<>>
    OBVIOUS
  <2> QED BY <2>1
<1>2. ASSUME NEW n \in Nat, n \in L PROVE n + 1 \in L
  <2> SUFFICES ASSUME NEW s \in Seq(S), Len(s) = n + 1 PROVE s \in P
    OBVIOUS
  <2>1. s # <<>>
    OBVIOUS
  <2>2. PICK x \in S, rest \in Seq(S) : s = <<x>> \o rest /\ Len(s) = Len(rest) + 1
    BY <2>1, FirstAndRest
  <2>3. Len(rest) = n
    BY <2>2
  <2>4. rest \in P
    BY <1>2, <2>3
  <2> QED BY <2>2, <2>4 DEF Prepends
<1>3. L \in SUBSET Nat
  OBVIOUS
<1> SUFFICES ASSUME NEW s \in Seq(S) PROVE s \in P
  OBVIOUS
<1> HIDE DEF L
<1>4. Len(s) \in Nat /\ Len(s) \in 0 .. Len(s)
  OBVIOUS
<1>5. \A n \in 0 .. Len(s) : n \in L
  BY <1>1, <1>2, <1>3, <1>4, IntervalInduction
<1> QED BY <1>4, <1>5 DEF L

\* A string after another, under a name that the provers do not look into.
Cat(s, t) == s \o t

Joint(t, S, a, b) ==
    /\ t \in Seq(S) /\ Len(t) = Len(a) + Len(b)
    /\ \A k \in 1 .. Len(a) : t[k] = a[k]
    /\ \A k \in 1 .. Len(b) : t[Len(a) + k] = b[k]

LEMMA CatParts ==
    ASSUME NEW S, NEW a \in Seq(S), NEW b \in Seq(S)
    PROVE  Joint(Cat(a, b), S, a, b) /\ Cat(a, b) \in Seq(S)
<1> DEFINE t == a \o b
<1>1. /\ t \in Seq(S) /\ Len(t) = Len(a) + Len(b)
      /\ \A k \in 1 .. Len(a) : t[k] = a[k]
      /\ \A k \in 1 .. Len(b) : t[Len(a) + k] = b[k]
  OBVIOUS
<1> HIDE DEF t
<1>2. Joint(t, S, a, b) /\ t \in Seq(S)
  BY <1>1 DEF Joint
<1> QED BY <1>2 DEF t, Cat

LEMMA CatRegrouped ==
    ASSUME NEW S, NEW a \in Seq(S), NEW b \in Seq(S), NEW c \in Seq(S)
    PROVE  Cat(Cat(a, b), c) = Cat(a, Cat(b, c))
<1> DEFINE p == Cat(a, b)
           q == Cat(b, c)
           l == Cat(p, c)
           r == Cat(a, q)
<1>1. Joint(p, S, a, b) /\ p \in Seq(S)
  BY CatParts
<1>2. Joint(q, S, b, c) /\ q \in Seq(S)
  BY CatParts
<1> HIDE DEF p, q
<1>3. Joint(l, S, p, c)
  BY <1>1, CatParts
<1>4. Joint(r, S, a, q)
  BY <1>2, CatParts
<1> HIDE DEF l, r
<1>5. /\ p \in Seq(S) /\ Len(p) = Len(a) + Len(b)
      /\ \A k \in 1 .. Len(a) : p[k] = a[k]
      /\ \A k \in 1 .. Len(b) : p[Len(a) + k] = b[k]
  BY <1>1 DEF Joint
<1>6. /\ q \in Seq(S) /\ Len(q) = Len(b) + Len(c)
      /\ \A k \in 1 .. Len(b) : q[k] = b[k]
      /\ \A k \in 1 .. Len(c) : q[Len(b) + k] = c[k]
  BY <1>2 DEF Joint
<1>7. /\ l \in Seq(S) /\ Len(l) = Len(p) + Len(c)
      /\ \A k \in 1 .. Len(p) : l[k] = p[k]
      /\ \A k \in 1 .. Len(c) : l[Len(p) + k] = c[k]
  BY <1>3 DEF Joint
<1>8. /\ r \in Seq(S) /\ Len(r) = Len(a) + Len(q)
      /\ \A k \in 1 .. Len(a) : r[k] = a[k]
      /\ \A k \in 1 .. Len(q) : r[Len(a) + k] = q[k]
  BY <1>4 DEF Joint
<1>9. Len(a) \in Nat /\ Len(b) \in Nat /\ Len(c) \in Nat
  OBVIOUS
<1>10. Len(l) = Len(r) /\ Len(l) = Len(a) + Len(b) + Len(c)
  BY <1>5, <1>6, <1>7, <1>8, <1>9
<1>11. ASSUME NEW k \in 1 .. Len(l) PROVE l[k] = r[k]
  <2>1. CASE k <= Len(a)
    <3>1. k \in 1 .. Len(a) /\ k \in 1 .. Len(p)
      BY <1>5, <1>9, <2>1
    <3>2. l[k] = p[k] /\ p[k] = a[k] /\ r[k] = a[k]
      BY <3>1, <1>5, <1>7, <1>8
    <3> QED BY <3>2
  <2>2. CASE Len(a) < k /\ k <= Len(a) + Len(b)
    <3> DEFINE j == k - Len(a)
    <3>1. j \in 1 .. Len(b) /\ k = Len(a) + j
      BY <1>9, <2>2
    <3> HIDE DEF j
    <3>2. k \in 1 .. Len(p) /\ j \in 1 .. Len(q)
      BY <1>5, <1>6, <1>9, <3>1
    <3>3. l[k] = p[k] /\ p[Len(a) + j] = b[j] /\ r[Len(a) + j] = q[j] /\ q[j] = b[j]
      BY <3>1, <3>2, <1>5, <1>6, <1>7, <1>8
    <3> QED BY <3>1, <3>3
  <2>3. CASE Len(a) + Len(b) < k
    <3> DEFINE j == k - Len(p)
               i == Len(b) + j
    <3>1. j \in 1 .. Len(c) /\ k = Len(p) + j /\ k = Len(a) + i /\ i \in 1 .. Len(q)
      BY <1>5, <1>6, <1>9, <1>10, <2>3
    <3>2. i = Len(b) + j
      OBVIOUS
    <3> HIDE DEF i, j
    <3>3. l[Len(p) + j] = c[j] /\ r[Len(a) + i] = q[i]
      BY <3>1, <1>7, <1>8
    <3>4. q[Len(b) + j] = c[j]
      BY <3>1, <1>6
    <3> QED BY <3>1, <3>2, <3>3, <3>4
  <2> QED BY <1>9, <1>10, <2>1, <2>2, <2>3
<1>12. l = r
  BY <1>7, <1>8, <1>10, <1>11, SeqEqual
<1> QED BY <1>12 DEF l, r, p, q

\* A string before others.
LEMMA SeparatedPrepend ==
    ASSUME NEW S, NEW x \in S, NEW s \in Seq(S), NEW strings \in Seq(Seq(S))
    PROVE  /\ Separated(x, <<s>> \o strings) = <<x>> \o s \o Separated(x, strings)
           /\ Separated(x, strings) \in Seq(S)
<1> DEFINE P == {u \in Seq(Seq(S)) :
                   Separated(x, <<s>> \o u) = <<x>> \o s \o Separated(x, u)}
<1>1. <<>> \in P
  <2>1. <<s>> \o <<>> = Append(<<>>, s) /\ <<>> \in Seq(Seq(S)) /\ <<>> \in Seq(S)
    OBVIOUS
  <2>2. Separated(x, <<>>) = <<>> /\ Separated(x, Append(<<>>, s)) = Separated(x, <<>>) \o <<x>> \o s
    BY <2>1, SeparatedAppend
  <2>3. <<>> \o <<x>> \o s = <<x>> \o s \o <<>>
    OBVIOUS
  <2> QED BY <2>1, <2>2, <2>3
<1>2. ASSUME NEW u \in Seq(Seq(S)), NEW t \in Seq(S), u \in P PROVE Append(u, t) \in P
  <2>1. <<s>> \o Append(u, t) = Append(<<s>> \o u, t) /\ Append(u, t) \in Seq(Seq(S))
        /\ <<s>> \o u \in Seq(Seq(S))
    OBVIOUS
  <2>2. Separated(x, Append(<<s>> \o u, t)) = Separated(x, <<s>> \o u) \o <<x>> \o t
    BY <2>1, SeparatedAppend
  <2>3. Separated(x, Append(u, t)) = Separated(x, u) \o <<x>> \o t /\ Separated(x, u) \in Seq(S)
    BY SeparatedAppend
  <2> DEFINE a == <<x>> \o s
             b == Separated(x, u)
             c == <<x>> \o t
  <2>4. a \in Seq(S) /\ b \in Seq(S) /\ c \in Seq(S)
    BY <2>3
  <2>5. Separated(x, Append(<<s>> \o u, t)) = (a \o b) \o c
    <3>1. a \o b \in Seq(S)
      BY <2>4
    <3>2. (a \o b) \o <<x>> \o t = (a \o b) \o (<<x>> \o t)
      <4> DEFINE e == a \o b
                 y == <<x>>
      <4>1. e \in Seq(S) /\ y \in Seq(S)
        BY <3>1
      <4> HIDE DEF e, y
      <4>2. Cat(Cat(e, y), t) = Cat(e, Cat(y, t))
        BY <4>1, CatRegrouped
      <4> QED BY <4>2 DEF e, y, Cat
    <3> QED BY <1>2, <2>2, <3>2
  <2>6. Separated(x, Append(u, t)) = b \o c
    <3> DEFINE y == <<x>>
    <3>1. b \in Seq(S) /\ y \in Seq(S)
      BY <2>3
    <3>2. Separated(x, Append(u, t)) = (b \o y) \o t
      BY <2>3
    <3> HIDE DEF b, y
    <3>3. Cat(Cat(b, y), t) = Cat(b, Cat(y, t))
      BY <3>1, CatRegrouped
    <3> QED BY <3>2, <3>3 DEF y, Cat
  <2>7. (a \o b) \o c = a \o (b \o c)
    <3> HIDE DEF a, b, c, P
    <3>1. Cat(Cat(a, b), c) = Cat(a, Cat(b, c))
      BY <2>4, CatRegrouped
    <3> QED BY <3>1 DEF Cat
  <2> QED BY <2>1, <2>5, <2>6, <2>7
<1> HIDE DEF P
<1>3. strings \in P
  BY <1>1, <1>2, AppendInduction
<1>4. <<>> \in Seq(S)
  OBVIOUS
<1> QED BY <1>3, <1>4, SeparatedAppend DEF P

\* Of two strings at most one is less, and then they differ.
LEMMA LessAsymmetric ==
    ASSUME NEW s \in Seq(Int), NEW t \in Seq(Int), Less(s, t)
    PROVE  ~Less(t, s) /\ s # t
  BY LessIrreflexive, LessTransitive

\* The empty string is the least.
LEMMA LessEmpty ==
    ASSUME NEW s \in Seq(Int)
    PROVE  ~Less(s, <<>>) /\ (Less(<<>>, s) <=> s # <<>>)
<1>1. ~Less(s, <<>>) /\ ~Less(<<>>, <<>>)
  BY DEF Less
<1>2. ASSUME s # <<>> PROVE Less(<<>>, s)
  <2>1. Decides(<<>>, s, 1)
    BY <1>2 DEF Decides
  <2> QED BY <2>1, LessDecided
<1> QED BY <1>1, <1>2

\* The first characters decide if they differ.
LEMMA LessHeads ==
    ASSUME NEW x \in Int, NEW y \in Int, NEW s \in Seq(Int), NEW t \in Seq(Int)
    PROVE  Less(<<x>> \o s, <<y>> \o t) <=> x < y \/ (x = y /\ Less(s, t))
<1> DEFINE X == <<x>> \o s
           Y == <<y>> \o t
<1>1. /\ X \in Seq(Int) /\ X[1] = x /\ Len(X) = 1 + Len(s) /\ Len(s) \in Nat
      /\ Y \in Seq(Int) /\ Y[1] = y /\ Len(Y) = 1 + Len(t) /\ Len(t) \in Nat
  OBVIOUS
<1>2. CASE x = y
  <2>1. <<x>> \in Seq(Int)
    OBVIOUS
  <2>2. Less(<<x>> \o s, <<x>> \o t) <=> Less(s, t)
    BY <2>1, LessAfter
  <2> QED BY <2>2, <1>2
<1> HIDE DEF X, Y
<1>3. ASSUME x < y PROVE Less(X, Y)
  <2>1. Decides(X, Y, 1)
    BY <1>1, <1>3 DEF Decides
  <2> QED BY <2>1, LessDecided
<1>4. ASSUME y < x PROVE ~Less(X, Y)
  <2>1. Decides(Y, X, 1)
    BY <1>1, <1>4 DEF Decides
  <2>2. Less(Y, X)
    BY <2>1, LessDecided
  <2> QED BY <2>2, <1>1, LessAsymmetric
<1>5. CASE x < y
  BY <1>3, <1>5 DEF X, Y
<1>6. CASE y < x
  BY <1>4, <1>6 DEF X, Y
<1> QED BY <1>2, <1>5, <1>6

\* Beginnings of the same length decide if they differ.
LEMMA LessBlocks ==
    ASSUME NEW a \in Seq(Int), NEW b \in Seq(Int), Len(a) = Len(b),
           NEW s \in Seq(Int), NEW t \in Seq(Int)
    PROVE  Less(a \o s, b \o t) <=> Less(a, b) \/ (a = b /\ Less(s, t))
<1>1. ASSUME NEW c \in Seq(Int), NEW d \in Seq(Int), Len(c) = Len(d), Less(c, d),
             NEW u \in Seq(Int), NEW v \in Seq(Int)
      PROVE  Less(c \o u, d \o v) /\ c \o u \in Seq(Int) /\ d \o v \in Seq(Int)
  <2> DEFINE C == c \o u
             D == d \o v
  <2>1. PICK n \in Nat : Decides(c, d, n)
    BY <1>1, LessDecided
  <2>2. n \in 1 .. Len(d) /\ n \in 1 .. Len(c) /\ Len(c) \in Nat
    BY <1>1, <2>1 DEF Decides
  <2>3. /\ \A k \in 1 .. Len(c) : C[k] = c[k] /\ D[k] = d[k]
        /\ Len(C) = Len(c) + Len(u) /\ Len(D) = Len(d) + Len(v)
        /\ Len(u) \in Nat /\ Len(v) \in Nat /\ C \in Seq(Int) /\ D \in Seq(Int)
    <3>1. /\ Len(c) = Len(d) /\ Len(c) \in Nat /\ Len(d) \in Nat
          /\ Len(u) \in Nat /\ Len(v) \in Nat
      BY <1>1
    <3>2. /\ C \in Seq(Int) /\ Len(C) = Len(c) + Len(u)
          /\ \A k \in 1 .. Len(c) + Len(u) : C[k] = IF k <= Len(c) THEN c[k] ELSE u[k - Len(c)]
      BY ConcatProperties
    <3>3. /\ D \in Seq(Int) /\ Len(D) = Len(d) + Len(v)
          /\ \A k \in 1 .. Len(d) + Len(v) : D[k] = IF k <= Len(d) THEN d[k] ELSE v[k - Len(d)]
      BY ConcatProperties
    <3> HIDE DEF C, D
    <3>4. ASSUME NEW k \in 1 .. Len(c) PROVE C[k] = c[k] /\ D[k] = d[k]
      <4>1. k \in 1 .. Len(c) + Len(u) /\ k \in 1 .. Len(d) + Len(v) /\ k <= Len(c) /\ k <= Len(d)
        BY <3>1
      <4> QED BY <4>1, <3>2, <3>3
    <3> QED BY <3>1, <3>2, <3>3, <3>4
  <2> HIDE DEF C, D
  <2>4. Decides(C, D, n)
    <3>1. ASSUME NEW k \in 1 .. n - 1 PROVE C[k] = D[k]
      <4>1. c[k] = d[k]
        BY <2>1 DEF Decides
      <4>2. n \in Int /\ Len(c) \in Int /\ n <= Len(c) /\ k \in 1 .. n - 1
        BY <2>2
      <4>3. k \in 1 .. Len(c)
        BY <4>2
      <4> QED BY <4>1, <4>3, <2>3
    <3>2. C[n] < D[n]
      BY <2>1, <2>2, <2>3 DEF Decides
    <3>3. n \in 1 .. Len(D) /\ n <= Len(C) + 1
      BY <1>1, <2>2, <2>3
    <3> QED BY <3>1, <3>2, <3>3 DEF Decides
  <2>5. Less(C, D)
    BY <2>4, LessDecided
  <2> QED BY <2>3, <2>5 DEF C, D
<1>2. CASE a = b
  BY <1>2, LessAfter, LessIrreflexive
<1>3. CASE Less(a, b)
  BY <1>1, <1>3
<1>4. CASE Less(b, a)
  <2>1. Less(b \o t, a \o s) /\ b \o t \in Seq(Int) /\ a \o s \in Seq(Int)
    BY <1>1, <1>4
  <2>2. ~Less(a \o s, b \o t)
    <3> HIDE <1>1
    <3> QED BY <2>1, LessAsymmetric
  <2>3. ~Less(a, b) /\ a # b
    BY <1>4, LessAsymmetric
  <2> QED BY <2>2, <2>3
<1> QED BY <1>2, <1>3, <1>4, LessTotal

\* What is neither less nor greater is the same.
LEMMA LessOrEqual ==
    ASSUME NEW s \in Seq(Int), NEW t \in Seq(Int)
    PROVE  s = t <=> ~Less(s, t) /\ ~Less(t, s)
  BY LessTotal, LessIrreflexive

\* Other characters in the same order.
LEMMA LessShifted ==
    ASSUME NEW d \in Int, NEW s \in Seq(Int), NEW t \in Seq(Int)
    PROVE  LET S == [k \in DOMAIN s |-> d + s[k]]
               T == [k \in DOMAIN t |-> d + t[k]]
           IN  S \in Seq(Int) /\ Len(S) = Len(s) /\ (Less(S, T) <=> Less(s, t))
<1> DEFINE S == [k \in DOMAIN s |-> d + s[k]]
           T == [k \in DOMAIN t |-> d + t[k]]
<1>1. /\ S \in Seq(Int) /\ Len(S) = Len(s) /\ T \in Seq(Int) /\ Len(T) = Len(t)
      /\ \A k \in 1 .. Len(s) : S[k] = d + s[k] /\ s[k] \in Int
      /\ \A k \in 1 .. Len(t) : T[k] = d + t[k] /\ t[k] \in Int
      /\ Len(s) \in Nat /\ Len(t) \in Nat
  <2>1. ASSUME NEW u \in Seq(Int)
        PROVE  LET U == [k \in DOMAIN u |-> d + u[k]]
               IN  /\ U \in Seq(Int) /\ Len(U) = Len(u) /\ Len(u) \in Nat
                   /\ \A k \in 1 .. Len(u) : U[k] = d + u[k] /\ u[k] \in Int
    <3> DEFINE U == [k \in DOMAIN u |-> d + u[k]]
    <3>1. DOMAIN u = 1 .. Len(u) /\ Len(u) \in Nat /\ \A k \in 1 .. Len(u) : u[k] \in Int
      OBVIOUS
    <3>2. U \in [1 .. Len(u) -> Int] /\ \A k \in 1 .. Len(u) : U[k] = d + u[k]
      BY <3>1
    <3>3. U \in Seq(Int) /\ Len(U) = Len(u)
      <4>1. U = [k \in 1 .. Len(u) |-> d + u[k]]
        BY <3>1
      <4>2. [k \in 1 .. Len(u) |-> d + u[k]] \in Seq(Int) /\ Len([k \in 1 .. Len(u) |-> d + u[k]]) = Len(u)
        BY <3>1
      <4> HIDE DEF U
      <4> QED BY <4>1, <4>2
    <3> HIDE DEF U
    <3> QED BY <3>1, <3>2, <3>3 DEF U
  <2> QED BY <2>1
<1> HIDE DEF S, T
<1>2. ASSUME NEW n \in 1 .. Len(t), n <= Len(s) + 1
      PROVE  /\ (\A k \in 1 .. n - 1 : S[k] = T[k]) <=> (\A k \in 1 .. n - 1 : s[k] = t[k])
             /\ (n <= Len(S) => S[n] < T[n]) <=> (n <= Len(s) => s[n] < t[n])
  <2>1. ASSUME NEW k \in 1 .. n - 1 PROVE S[k] = T[k] <=> s[k] = t[k]
    <3>3. /\ n \in Int /\ Len(s) \in Int /\ Len(t) \in Int
          /\ n <= Len(t) /\ n <= Len(s) + 1 /\ k \in 1 .. n - 1
      BY <1>1, <1>2
    <3>1. k \in 1 .. Len(s) /\ k \in 1 .. Len(t)
      BY <3>3
    <3>2. S[k] = d + s[k] /\ s[k] \in Int /\ T[k] = d + t[k] /\ t[k] \in Int
      BY <3>1, <1>1
    <3> QED BY <3>2
  <2>2. ASSUME n <= Len(s) PROVE S[n] < T[n] <=> s[n] < t[n]
    <3>1. n \in 1 .. Len(s)
      BY <1>1, <2>2
    <3>2. n \in 1 .. Len(t)
      BY <1>2
    <3>3. S[n] = d + s[n] /\ s[n] \in Int /\ T[n] = d + t[n] /\ t[n] \in Int
      BY <3>1, <3>2, <1>1
    <3> QED BY <3>3
  <2> QED BY <1>1, <2>1, <2>2
<1>3. Less(S, T) <=> Less(s, t)
  BY <1>1, <1>2 DEF Less
<1> QED BY <1>1, <1>3 DEF S, T
=============================================================================
