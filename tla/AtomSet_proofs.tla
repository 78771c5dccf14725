--------------------------- MODULE AtomSet_proofs ---------------------------
(***************************************************************************)
(* The order of versions is that of their strings, and what follows from   *)
(* that for atoms and sets of packages.                                    *)
(***************************************************************************)
EXTENDS AtomSet, Recursion_proofs

-----------------------------------------------------------------------------
(* Numbers.                                                                *)

\* What the loop that reads a number has after each of its iterations.
Counts(f, digits) ==
    /\ f \in [0 .. Len(digits) -> Nat]
    /\ f[0] = 0
    /\ \A n \in 1 .. Len(digits) :
          f[n] = f[n - 1] * Radix + digits[n]

LEMMA ValueIsLoop ==
    ASSUME NEW digits \in Seq(Digit)
    PROVE  \E f : Counts(f, digits) /\ Value(digits) = f[Len(digits)]
<1> DEFINE N == Len(digits)
           Q == Nat
           add(n, q) == q * Radix + digits[n]
           step == [e \in (1 .. N) \X Q |-> add(e[1], e[2])]
           value[n \in 0 .. N] ==
               IF n = 0 THEN 0 ELSE value[n - 1] * Radix + digits[n]
<1>1. Value(digits) = value[N]
  BY DEF Value
<1>2. N \in Nat /\ 0 \in Q
  OBVIOUS
<1>3. ASSUME NEW n \in 1 .. N, NEW q \in Q PROVE add(n, q) \in Q
  <2>1. digits[n] \in Nat
    BY RadixAssumption DEF Digit
  <2>2. q * Radix \in Nat
    BY RadixAssumption
  <2> QED BY <2>1, <2>2
<1>4. step \in [(1 .. N) \X Q -> Q]
  <2> HIDE DEF add, Q
  <2> QED BY <1>3
<1>5. PICK f : Steps(f, Q, 0, step, N)
  <2> HIDE DEF Q, step, N
  <2> QED BY <1>2, <1>4, StepsExist
<1>6. \A n \in 1 .. N : f[n] = add(n, f[n - 1])
  <2> TAKE n \in 1 .. N
  <2> HIDE DEF add, Q, N
  <2>1. f[n - 1] \in Q
    BY <1>2, <1>5 DEF Steps
  <2>2. f[n] = step[<<n, f[n - 1]>>]
    <3> HIDE DEF step
    <3> QED BY <1>5 DEF Steps
  <2> QED BY <2>1, <2>2
<1>7. f = [n \in 0 .. N |-> IF n = 0 THEN 0 ELSE add(n, f[n - 1])]
  <2> HIDE DEF Q, N, add, step
  <2> QED BY <1>2, <1>5, <1>6 DEF Steps
<1>8. value = [n \in 0 .. N |-> IF n = 0 THEN 0 ELSE add(n, value[n - 1])]
  <2> HIDE DEF N
  <2> QED BY <1>7
<1> DEFINE P == {n \in 0 .. N : value[n] = f[n]}
<1>9. \A n \in 0 .. N : n \in P
  <2> HIDE DEF value, N, Q, add
  <2>1. 0 \in P
    BY <1>2, <1>7, <1>8
  <2>2. ASSUME NEW n \in 0 .. N - 1, n \in P PROVE n + 1 \in P
    <3>1. n + 1 \in 1 .. N /\ n + 1 - 1 = n
      BY <1>2
    <3>2. value[n + 1] = add(n + 1, value[n])
      <4>1. \A m \in 1 .. N : value[m] = add(m, value[m - 1])
        BY <1>2, <1>8
      <4> HIDE DEF value
      <4> QED BY <3>1, <4>1
    <3>3. f[n + 1] = add(n + 1, f[n])
      BY <3>1, <1>6
    <3> QED BY <2>2, <3>1, <3>2, <3>3
  <2>3. P \in SUBSET Nat
    OBVIOUS
  <2> HIDE DEF P
  <2> QED BY <1>2, <2>1, <2>2, <2>3, IntervalInduction
<1>10. value[N] = f[N]
  <2> HIDE DEF value, N
  <2> QED BY <1>2, <1>9
<1>11. Counts(f, digits)
  <2> HIDE DEF step
  <2> QED BY <1>5, <1>6 DEF Counts, Steps
<1> HIDE DEF value
<1> QED BY <1>1, <1>10, <1>11

\* A further digit is added to what the others are, one place further on.
LEMMA ValueAppend ==
    ASSUME NEW digits \in Seq(Digit), NEW d \in Digit
    PROVE  /\ Value(digits) \in Nat
           /\ Value(<<>>) = 0
           /\ Value(Append(digits, d)) = Value(digits) * Radix + d
<1> DEFINE more == Append(digits, d)
           N == Len(digits)
<1>1. /\ more \in Seq(Digit) /\ Len(more) = N + 1 /\ more[N + 1] = d /\ N \in Nat
      /\ \A n \in 1 .. N : more[n] = digits[n]
  OBVIOUS
<1> HIDE DEF more
<1>2. PICK f : Counts(f, digits) /\ Value(digits) = f[N]
  BY ValueIsLoop
<1>3. PICK g : Counts(g, more) /\ Value(more) = g[N + 1]
  BY <1>1, ValueIsLoop
<1> HIDE DEF N
<1> DEFINE P == {n \in 0 .. N : f[n] = g[n]}
<1>4. \A n \in 0 .. N : n \in P
  <2>1. 0 \in P
    BY <1>1, <1>2, <1>3 DEF Counts
  <2>2. ASSUME NEW n \in 0 .. N - 1, n \in P PROVE n + 1 \in P
    <3> DEFINE m == n + 1
    <3>1. m \in 1 .. N /\ m \in 1 .. N + 1 /\ m - 1 = n
      BY <1>1
    <3> HIDE DEF m
    <3>2. f[m] = f[m - 1] * Radix + digits[m]
      BY <3>1, <1>2 DEF Counts, N
    <3>3. g[m] = g[m - 1] * Radix + more[m]
      BY <3>1, <1>1, <1>3 DEF Counts
    <3>4. f[n] = g[n] /\ more[m] = digits[m]
      BY <2>2, <3>1, <1>1
    <3>5. f[m - 1] = g[m - 1]
      BY <3>1, <2>2
    <3>6. f[m] = g[m]
      BY <3>2, <3>3, <3>4, <3>5, Zenon
    <3>7. m \in 0 .. N
      BY <3>1
    <3>8. m \in P
      BY <3>6, <3>7
    <3> QED BY <3>8 DEF m
  <2>3. P \in SUBSET Nat
    OBVIOUS
  <2> HIDE DEF P
  <2> QED BY <1>1, <2>1, <2>2, <2>3, IntervalInduction
<1>5. g[N + 1] = g[N] * Radix + d
  <2> DEFINE m == N + 1
  <2>1. m \in 1 .. Len(more) /\ m - 1 = N /\ more[m] = d
    BY <1>1
  <2> HIDE DEF m
  <2>2. g[m] = g[m - 1] * Radix + more[m]
    BY <2>1, <1>3 DEF Counts
  <2>3. g[m] = g[N] * Radix + d
    BY <2>1, <2>2
  <2> QED BY <2>3 DEF m
<1>6. f[N] = g[N] /\ f[N] \in Nat
  BY <1>1, <1>2, <1>4 DEF Counts, N
<1>7. Value(<<>>) = 0
  <2>1. <<>> \in Seq(Digit) /\ Len(<<>>) = 0
    OBVIOUS
  <2>2. PICK h : Counts(h, <<>>) /\ Value(<<>>) = h[Len(<<>>)]
    BY <2>1, ValueIsLoop
  <2> QED BY <2>1, <2>2 DEF Counts
<1> QED BY <1>2, <1>3, <1>5, <1>6, <1>7 DEF more

\* Digits are numbers, and so are sequences of them sequences of numbers.
LEMMA DigitsAreNumbers ==
    /\ Radix \in Nat /\ Radix > 1
    /\ \A d \in Digit : d \in Nat /\ d < Radix
    /\ \A s \in Seq(Digit) : s \in Seq(Int) /\ Value(s) \in Nat
<1>1. /\ Radix \in Nat /\ Radix > 1
      /\ \A d \in Digit : d \in Nat /\ d < Radix
      /\ 0 \in Digit
  BY RadixAssumption DEF Digit
<1>2. Digit \subseteq Int
  BY DEF Digit
<1>3. \A s \in Seq(Digit) : s \in Seq(Int)
  BY <1>2, SeqMonotonic
<1>4. \A s \in Seq(Digit) : Value(s) \in Nat
  BY <1>1, ValueAppend
<1> QED BY <1>1, <1>3, <1>4

\* Of two numbers the one with the greater digits before the last is greater.
LEMMA LastDigit ==
    ASSUME NEW a \in Nat, NEW b \in Nat, NEW x \in Digit, NEW y \in Digit
    PROVE  a * Radix + x < b * Radix + y <=> a < b \/ (a = b /\ x < y)
<1>1. /\ Radix \in Nat /\ x \in Nat /\ y \in Nat /\ x < Radix /\ y < Radix
      /\ a * Radix \in Nat /\ b * Radix \in Nat
  BY DigitsAreNumbers
<1>2. ASSUME NEW c \in Nat, NEW d \in Nat, c < d
      PROVE  c * Radix + Radix <= d * Radix /\ c * Radix \in Nat /\ d * Radix \in Nat
  <2>1. PICK e \in Nat : d = c + 1 + e
    <3>1. d - c - 1 \in Nat /\ d = c + 1 + (d - c - 1)
      BY <1>2
    <3> QED BY <3>1
  <2>2. e * Radix \in Nat /\ c * Radix \in Nat /\ (c + 1 + e) * Radix = c * Radix + Radix + e * Radix
    BY <1>1
  <2> QED BY <1>1, <2>1, <2>2
<1>3. CASE a = b
  BY <1>1, <1>3
<1>4. CASE a < b
  <2>1. a * Radix + Radix <= b * Radix
    BY <1>2, <1>4
  <2> QED BY <1>1, <1>4, <2>1
<1>5. CASE b < a
  <2>1. b * Radix + Radix <= a * Radix
    BY <1>2, <1>5
  <2> QED BY <1>1, <1>5, <2>1
<1> QED BY <1>3, <1>4, <1>5

\* Numbers of the same length are in the order of their digits.
LEMMA LessIsValue ==
    ASSUME NEW c \in Seq(Digit), NEW d \in Seq(Digit), Len(c) = Len(d)
    PROVE  /\ Less(c, d) <=> Value(c) < Value(d)
           /\ c = d <=> Value(c) = Value(d)
<1> DEFINE Both(s, t) == (Less(s, t) <=> Value(s) < Value(t)) /\ (Less(t, s) <=> Value(t) < Value(s))
           P == {s \in Seq(Digit) : \A t \in Seq(Digit) : Len(s) = Len(t) => Both(s, t)}
<1>1. <<>> \in P
  <2>1. <<>> \in Seq(Digit) /\ \A t \in Seq(Digit) : Len(<<>>) = Len(t) => t = <<>>
    OBVIOUS
  <2>2. Value(<<>>) \in Nat /\ ~Less(<<>>, <<>>)
    BY <2>1, DigitsAreNumbers, LessIrreflexive
  <2> QED BY <2>1, <2>2
<1>2. ASSUME NEW s \in Seq(Digit), NEW x \in Digit, s \in P PROVE Append(s, x) \in P
  <2>1. Append(s, x) \in Seq(Digit) /\ Len(Append(s, x)) = Len(s) + 1 /\ Len(s) \in Nat
    OBVIOUS
  <2> SUFFICES ASSUME NEW t \in Seq(Digit), Len(Append(s, x)) = Len(t)
               PROVE  Both(Append(s, x), t)
    BY <2>1
  <2>2. t # <<>>
    <3> HIDE DEF P, Both
    <3>1. Len(t) # 0
      BY <2>1
    <3> QED BY <3>1
  <2>3. PICK u \in Seq(Digit), y \in Digit : t = Append(u, y)
    BY <2>2, SequenceEmptyOrAppend
  <2>4. Len(s) = Len(u)
    <3> HIDE DEF P, Both
    <3>1. Len(Append(u, y)) = Len(u) + 1 /\ Len(u) \in Nat
      OBVIOUS
    <3>2. Len(t) = Len(u) + 1
      BY <2>3, <3>1
    <3>3. Len(t) = Len(s) + 1 /\ Len(s) \in Nat
      BY <2>1
    <3> QED BY <3>1, <3>2, <3>3
  <2>5. Both(s, u)
    BY <1>2, <2>4
  <2> HIDE DEF P
  <2>6. /\ s \in Seq(Int) /\ u \in Seq(Int) /\ x \in Int /\ y \in Int
        /\ Value(s) \in Nat /\ Value(u) \in Nat
    BY DigitsAreNumbers
  <2>7. s = u <=> Value(s) = Value(u)
    <3>1. s = u <=> ~Less(s, u) /\ ~Less(u, s)
      BY <2>6, LessOrEqual
    <3> QED BY <2>5, <2>6, <3>1
  <2>8. Append(s, x) = s \o <<x>> /\ t = u \o <<y>>
    BY <2>3, AppendIsConcat
  <2>9. (Less(<<x>>, <<y>>) <=> x < y) /\ (Less(<<y>>, <<x>>) <=> y < x)
    <3>1. <<x>> = <<x>> \o <<>> /\ <<y>> = <<y>> \o <<>> /\ <<>> \in Seq(Int)
      OBVIOUS
    <3>2. ~Less(<<>>, <<>>)
      BY <3>1, LessIrreflexive
    <3> QED BY <2>6, <3>1, <3>2, LessHeads
  <2>10. <<x>> \in Seq(Int) /\ <<y>> \in Seq(Int)
    BY <2>6
  <2>11. /\ Less(s \o <<x>>, u \o <<y>>) <=> Less(s, u) \/ (s = u /\ Less(<<x>>, <<y>>))
         /\ Less(u \o <<y>>, s \o <<x>>) <=> Less(u, s) \/ (u = s /\ Less(<<y>>, <<x>>))
    BY <2>4, <2>6, <2>10, LessBlocks
  <2>12. /\ Value(Append(s, x)) = Value(s) * Radix + x
         /\ Value(t) = Value(u) * Radix + y
    BY <2>3, ValueAppend
  <2>13. /\ Value(s) * Radix + x < Value(u) * Radix + y
              <=> Value(s) < Value(u) \/ (Value(s) = Value(u) /\ x < y)
         /\ Value(u) * Radix + y < Value(s) * Radix + x
              <=> Value(u) < Value(s) \/ (Value(u) = Value(s) /\ y < x)
    BY <2>6, LastDigit
  <2> QED BY <2>5, <2>7, <2>8, <2>9, <2>11, <2>12, <2>13
<1> HIDE DEF P
<1>3. c \in P
  BY <1>1, <1>2, AppendInduction
<1>4. Both(c, d)
  BY <1>3 DEF P
<1>5. c \in Seq(Int) /\ d \in Seq(Int) /\ Value(c) \in Nat /\ Value(d) \in Nat
  BY DigitsAreNumbers
<1>6. c = d <=> ~Less(c, d) /\ ~Less(d, c)
  BY <1>5, LessOrEqual
<1> QED BY <1>4, <1>5, <1>6

\* Zeros are worth nothing,
LEMMA ValueOfZeros ==
    ASSUME NEW n \in Nat
    PROVE  LET zeros == [k \in 1 .. n |-> 0]
           IN  zeros \in Seq(Digit) /\ Len(zeros) = n /\ Value(zeros) = 0
<1> DEFINE Zeros(m) == [k \in 1 .. m |-> 0]
           P == {m \in Nat : Value(Zeros(m)) = 0}
<1>1. 0 \in Digit
  BY RadixAssumption DEF Digit
<1>2. \A m \in Nat : Zeros(m) \in Seq(Digit) /\ Len(Zeros(m)) = m
  BY <1>1
<1>3. <<>> \in Seq(Digit) /\ Value(<<>>) = 0
  <2>1. <<>> \in Seq(Digit)
    OBVIOUS
  <2> QED BY <1>1, <2>1, ValueAppend
<1>4. 0 \in P
  <2>1. Zeros(0) = <<>>
    OBVIOUS
  <2> HIDE DEF Zeros
  <2> QED BY <1>3, <2>1
<1>5. ASSUME NEW m \in 0 .. n - 1, m \in P PROVE m + 1 \in P
  <2>1. m \in Nat /\ m + 1 \in Nat
    OBVIOUS
  <2>2. Zeros(m + 1) = Append(Zeros(m), 0)
    OBVIOUS
  <2> HIDE DEF Zeros
  <2>3. Value(Append(Zeros(m), 0)) = Value(Zeros(m)) * Radix + 0
    BY <1>1, <1>2, <2>1, ValueAppend
  <2>4. Value(Zeros(m)) = 0
    BY <1>5
  <2>5. 0 * Radix + 0 = 0
    BY DigitsAreNumbers
  <2>6. Value(Zeros(m + 1)) = 0
    BY <2>2, <2>3, <2>4, <2>5
  <2> QED BY <2>1, <2>6
<1>6. P \in SUBSET Nat
  OBVIOUS
<1> HIDE DEF P
<1>7. \A m \in 0 .. n : m \in P
  BY <1>4, <1>5, <1>6, IntervalInduction
<1>8. n \in P
  BY <1>7
<1> QED BY <1>2, <1>8 DEF P

\* also before a number.
LEMMA ValueAfterZeros ==
    ASSUME NEW zeros \in Seq(Digit), Value(zeros) = 0, NEW digits \in Seq(Digit)
    PROVE  zeros \o digits \in Seq(Digit) /\ Value(zeros \o digits) = Value(digits)
<1> DEFINE P == {s \in Seq(Digit) : Value(zeros \o s) = Value(s)}
<1>1. <<>> \in P
  <2>1. <<>> \in Seq(Digit) /\ zeros \o <<>> = zeros /\ 0 \in Digit
    BY RadixAssumption DEF Digit
  <2>2. Value(<<>>) = 0
    BY <2>1, ValueAppend
  <2> QED BY <2>1, <2>2
<1>2. ASSUME NEW s \in Seq(Digit), NEW x \in Digit, s \in P PROVE Append(s, x) \in P
  <2>1. zeros \o s \in Seq(Digit) /\ Append(s, x) \in Seq(Digit)
    OBVIOUS
  <2>2. zeros \o Append(s, x) = Append(zeros \o s, x)
    OBVIOUS
  <2>3. Value(Append(zeros \o s, x)) = Value(zeros \o s) * Radix + x
    BY <2>1, ValueAppend
  <2>4. Value(Append(s, x)) = Value(s) * Radix + x
    BY ValueAppend
  <2>5. Value(zeros \o s) = Value(s)
    BY <1>2
  <2>6. Value(zeros \o Append(s, x)) = Value(Append(s, x))
    BY <2>2, <2>3, <2>4, <2>5, Zenon
  <2> QED BY <2>1, <2>6
<1> HIDE DEF P
<1>3. digits \in P
  BY <1>1, <1>2, AppendInduction
<1> QED BY <1>3 DEF P

\* A number that fits is padded to the width, and worth what it was.
LEMMA Padded ==
    ASSUME NEW digits \in Seq(Digit), Len(digits) <= Width
    PROVE  LET padded == PadNumericSegment(digits)
           IN  /\ padded \in Seq(Digit) /\ Len(padded) = Width
               /\ Value(padded) = Value(digits)
<1> DEFINE n == Width - Len(digits)
           zeros == [k \in 1 .. n |-> 0]
<1>1. Width \in Nat /\ Len(digits) \in Nat /\ n \in Nat
  BY WidthAssumption
<1>2. zeros \in Seq(Digit) /\ Len(zeros) = n /\ Value(zeros) = 0
  <2> HIDE DEF n
  <2> QED BY <1>1, ValueOfZeros
<1>3. PadNumericSegment(digits) = zeros \o digits
  BY DEF PadNumericSegment
<1> HIDE DEF zeros
<1>4. zeros \o digits \in Seq(Digit) /\ Value(zeros \o digits) = Value(digits)
  BY <1>2, ValueAfterZeros
<1>5. Len(zeros \o digits) = n + Len(digits)
  BY <1>2
<1> QED BY <1>1, <1>3, <1>4, <1>5

\* The string of a number has the width, and only the characters of digits.
LEMMA NumberIs ==
    ASSUME NEW digits \in Seq(Digit), Len(digits) <= Width
    PROVE  /\ Number(digits) \in Seq(Int)
           /\ Len(Number(digits)) = Width
           /\ \A k \in 1 .. Width : IsDigitChar(Number(digits)[k])
           /\ \A k \in 1 .. Width : DigitOf(Number(digits)[k]) = PadNumericSegment(digits)[k]
<1> DEFINE padded == PadNumericSegment(digits)
           string == [k \in DOMAIN padded |-> 3 + padded[k]]
<1>1. padded \in Seq(Digit) /\ Len(padded) = Width
  BY Padded
<1>2. padded \in Seq(Int)
  BY <1>1, DigitsAreNumbers
<1> HIDE DEF padded
<1>3. string \in Seq(Int) /\ Len(string) = Width
  <2>1. 3 \in Int
    OBVIOUS
  <2>2. string \in Seq(Int) /\ Len(string) = Len(padded)
    BY <1>2, <2>1, LessShifted
  <2> QED BY <1>1, <2>2
<1>4. Number(digits) = string
  BY DEF Number, DigitChar, padded
<1>5. ASSUME NEW k \in 1 .. Width
      PROVE  string[k] = 3 + padded[k] /\ padded[k] \in Nat /\ padded[k] < Radix
  <2>1. k \in DOMAIN padded /\ padded[k] \in Digit
    BY <1>1
  <2> QED BY <2>1, DigitsAreNumbers
<1> HIDE DEF string
<1>6. ASSUME NEW k \in 1 .. Width
      PROVE  IsDigitChar(string[k]) /\ DigitOf(string[k]) = padded[k]
  <2>1. string[k] = 3 + padded[k] /\ padded[k] \in Nat /\ padded[k] < Radix /\ Radix \in Nat
    BY <1>5, DigitsAreNumbers
  <2> QED BY <2>1 DEF IsDigitChar, DigitOf, Dot, Underscore
<1> QED BY <1>3, <1>4, <1>6 DEF padded

\* Strings that begin with numbers are ordered by these first.
LEMMA LessNumbers ==
    ASSUME NEW c \in Seq(Digit), Len(c) <= Width, NEW d \in Seq(Digit), Len(d) <= Width,
           NEW s \in Seq(Int), NEW t \in Seq(Int)
    PROVE  Less(Number(c) \o s, Number(d) \o t)
             <=> Value(c) < Value(d) \/ (Value(c) = Value(d) /\ Less(s, t))
<1> DEFINE pc == PadNumericSegment(c)
           pd == PadNumericSegment(d)
<1>1. /\ pc \in Seq(Digit) /\ Len(pc) = Width /\ Value(pc) = Value(c)
      /\ pd \in Seq(Digit) /\ Len(pd) = Width /\ Value(pd) = Value(d)
  BY Padded
<1>2. /\ Number(c) \in Seq(Int) /\ Len(Number(c)) = Width
      /\ Number(d) \in Seq(Int) /\ Len(Number(d)) = Width
  BY NumberIs
<1>3. /\ Number(c) = [k \in DOMAIN pc |-> 3 + pc[k]]
      /\ Number(d) = [k \in DOMAIN pd |-> 3 + pd[k]]
  BY DEF Number, DigitChar
<1> HIDE DEF pc, pd
<1>4. pc \in Seq(Int) /\ pd \in Seq(Int)
  BY <1>1, DigitsAreNumbers
<1>5. Less(Number(c), Number(d)) <=> Less(pc, pd)
  <2>1. 3 \in Int
    OBVIOUS
  <2>2. Less([k \in DOMAIN pc |-> 3 + pc[k]], [k \in DOMAIN pd |-> 3 + pd[k]]) <=> Less(pc, pd)
    BY <1>4, <2>1, LessShifted
  <2> QED BY <1>3, <2>2, Zenon
<1>6. Less(Number(d), Number(c)) <=> Less(pd, pc)
  <2>1. 3 \in Int
    OBVIOUS
  <2>2. Less([k \in DOMAIN pd |-> 3 + pd[k]], [k \in DOMAIN pc |-> 3 + pc[k]]) <=> Less(pd, pc)
    BY <1>4, <2>1, LessShifted
  <2> QED BY <1>3, <2>2, Zenon
<1>7. /\ Less(pc, pd) <=> Value(c) < Value(d)
      /\ Less(pd, pc) <=> Value(d) < Value(c)
  BY <1>1, LessIsValue
<1>8. Number(c) = Number(d) <=> Value(c) = Value(d)
  <2>1. Value(c) \in Nat /\ Value(d) \in Nat
    BY DigitsAreNumbers
  <2>2. Number(c) = Number(d) <=> ~Less(Number(c), Number(d)) /\ ~Less(Number(d), Number(c))
    BY <1>2, LessOrEqual
  <2> QED BY <1>5, <1>6, <1>7, <2>1, <2>2
<1>9. Less(Number(c) \o s, Number(d) \o t)
        <=> Less(Number(c), Number(d)) \/ (Number(c) = Number(d) /\ Less(s, t))
  BY <1>2, LessBlocks
<1> QED BY <1>5, <1>7, <1>8, <1>9

-----------------------------------------------------------------------------
(* Numbers with dots between.                                              *)

\* Numbers that fit, and the strings of some of them, each after a dot.
Short == {d \in Seq(Digit) : Len(d) <= Width}
AfterDots(numbers) == Separated(Dot, [k \in DOMAIN numbers |-> Number(numbers[k])])

LEMMA AfterDotsPrepend ==
    ASSUME NEW n \in Short, NEW numbers \in Seq(Short)
    PROVE  /\ AfterDots(<<>>) = <<>>
           /\ AfterDots(numbers) \in Seq(Int)
           /\ Number(n) \in Seq(Int)
           /\ AfterDots(<<n>> \o numbers) = <<Dot>> \o (Number(n) \o AfterDots(numbers))
<1> DEFINE strings(u) == [k \in DOMAIN u |-> Number(u[k])]
<1>1. Dot \in Int /\ \A d \in Short : Number(d) \in Seq(Int)
  BY NumberIs DEF Dot, Short
<1>2. strings(numbers) \in Seq(Seq(Int))
  <2> DEFINE String == Seq(Int)
  <2>1. DOMAIN numbers = 1 .. Len(numbers) /\ Len(numbers) \in Nat
    OBVIOUS
  <2>2. \A k \in 1 .. Len(numbers) : Number(numbers[k]) \in String
    BY <1>1
  <2> HIDE DEF String
  <2>3. [k \in 1 .. Len(numbers) |-> Number(numbers[k])] \in Seq(String)
    BY <2>1, <2>2
  <2> QED BY <2>1, <2>3 DEF String
<1>3. strings(<<n>> \o numbers) = <<Number(n)>> \o strings(numbers)
  <2> DEFINE N == Len(numbers)
             l == strings(<<n>> \o numbers)
             r == <<Number(n)>> \o strings(numbers)
  <2>1. N \in Nat /\ Len(strings(numbers)) = N
    OBVIOUS
  <2>2. DOMAIN l = 1 .. N + 1 /\ DOMAIN r = 1 .. N + 1
    BY <2>1
  <2>3. l[1] = Number(n) /\ r[1] = Number(n)
    BY <2>1
  <2>4. ASSUME NEW k \in 2 .. N + 1 PROVE l[k] = Number(numbers[k - 1]) /\ r[k] = Number(numbers[k - 1])
    BY <2>1
  <2>5. l = [k \in 1 .. N + 1 |-> l[k]] /\ r = [k \in 1 .. N + 1 |-> r[k]]
    BY <2>2
  <2> HIDE DEF l, r, N
  <2>6. ASSUME NEW k \in 1 .. N + 1 PROVE l[k] = r[k]
    <3>1. k = 1 \/ k \in 2 .. N + 1
      BY <2>1
    <3> QED BY <2>3, <2>4, <3>1
  <2>7. l = r
    BY <2>5, <2>6
  <2> QED BY <2>7 DEF l, r
<1>4. strings(<<>>) = <<>>
  OBVIOUS
<1> HIDE DEF strings
<1>5. /\ Separated(Dot, <<Number(n)>> \o strings(numbers))
           = <<Dot>> \o Number(n) \o Separated(Dot, strings(numbers))
      /\ Separated(Dot, strings(numbers)) \in Seq(Int)
  BY <1>1, <1>2, SeparatedPrepend
<1>6. Separated(Dot, <<>>) = <<>>
  <2>1. <<>> \in Seq(Seq(Int)) /\ <<>> \in Seq(Int)
    OBVIOUS
  <2> QED BY <1>1, <2>1, SeparatedAppend
<1> DEFINE a == <<Dot>>
           b == Number(n)
           c == Separated(Dot, strings(numbers))
<1>7. a \in Seq(Int) /\ b \in Seq(Int) /\ c \in Seq(Int)
  BY <1>1, <1>5
<1>8. (a \o b) \o c = a \o (b \o c)
  <2> HIDE DEF a, b, c
  <2>1. Cat(Cat(a, b), c) = Cat(a, Cat(b, c))
    BY <1>7, CatRegrouped
  <2> QED BY <2>1 DEF Cat
<1> QED BY <1>1, <1>3, <1>4, <1>5, <1>6, <1>8 DEF AfterDots, strings

\* What they are worth.
LEMMA ValuesPrepend ==
    ASSUME NEW n \in Short, NEW numbers \in Seq(Short)
    PROVE  /\ Values(<<>>) = <<>>
           /\ Value(n) \in Int
           /\ Values(numbers) \in Seq(Int)
           /\ Values(<<n>> \o numbers) = <<Value(n)>> \o Values(numbers)
<1>1. \A d \in Short : Value(d) \in Int
  BY DigitsAreNumbers DEF Short
<1> DEFINE N == Len(numbers)
           l == Values(<<n>> \o numbers)
           r == <<Value(n)>> \o Values(numbers)
<1>2. N \in Nat /\ Values(numbers) \in Seq(Int) /\ Len(Values(numbers)) = N
  BY <1>1 DEF Values
<1>3. DOMAIN l = 1 .. N + 1 /\ DOMAIN r = 1 .. N + 1
  BY <1>2 DEF Values
<1>4. l[1] = Value(n) /\ r[1] = Value(n)
  BY <1>2 DEF Values
<1>5. ASSUME NEW k \in 2 .. N + 1 PROVE l[k] = Value(numbers[k - 1]) /\ r[k] = Value(numbers[k - 1])
  BY <1>2 DEF Values
<1>6. l = [k \in 1 .. N + 1 |-> l[k]] /\ r = [k \in 1 .. N + 1 |-> r[k]]
  BY <1>3 DEF Values
<1> HIDE DEF l, r, N
<1>7. ASSUME NEW k \in 1 .. N + 1 PROVE l[k] = r[k]
  <2>1. k = 1 \/ k \in 2 .. N + 1
    BY <1>2
  <2> QED BY <1>4, <1>5, <2>1
<1>8. l = r
  BY <1>6, <1>7
<1>9. Values(<<>>) = <<>>
  BY DEF Values
<1> QED BY <1>1, <1>2, <1>8, <1>9 DEF l, r

-----------------------------------------------------------------------------
(* Strings put together.                                                   *)

\* A string after a character.
Lead(x, s) == <<x>> \o s

LEMMA CatIs ==
    ASSUME NEW a \in Seq(Int), NEW b \in Seq(Int)
    PROVE  /\ Cat(a, b) \in Seq(Int)
           /\ Cat(<<>>, a) = a /\ Cat(a, <<>>) = a
           /\ \A c \in Seq(Int) : Cat(Cat(a, b), c) = Cat(a, Cat(b, c))
<1>1. a \o b \in Seq(Int) /\ <<>> \o a = a /\ a \o <<>> = a
  OBVIOUS
<1>2. /\ Cat(a, b) \in Seq(Int)
      /\ Cat(<<>>, a) = a /\ Cat(a, <<>>) = a
  BY <1>1 DEF Cat
<1>3. \A c \in Seq(Int) : Cat(Cat(a, b), c) = Cat(a, Cat(b, c))
  BY CatRegrouped
<1> QED BY <1>2, <1>3

LEMMA LeadIs ==
    ASSUME NEW x \in Int, NEW s \in Seq(Int)
    PROVE  /\ Lead(x, s) \in Seq(Int) /\ Lead(x, s) # <<>>
           /\ \A t \in Seq(Int) : Cat(Lead(x, s), t) = Lead(x, Cat(s, t))
<1>1. <<x>> \o s \in Seq(Int) /\ <<x>> \o s # <<>> /\ <<x>> \in Seq(Int)
  OBVIOUS
<1>2. Lead(x, s) \in Seq(Int) /\ Lead(x, s) # <<>>
  BY <1>1 DEF Lead
<1> DEFINE c == <<x>>
<1>3. \A u \in Seq(Int) : Lead(x, u) = Cat(c, u)
  BY DEF Lead, Cat
<1>4. c \in Seq(Int)
  BY <1>1
<1> HIDE DEF c
<1>5. ASSUME NEW t \in Seq(Int) PROVE Cat(Lead(x, s), t) = Lead(x, Cat(s, t))
  <2>1. Cat(s, t) \in Seq(Int)
    BY CatIs
  <2>2. Cat(Cat(c, s), t) = Cat(c, Cat(s, t))
    BY <1>4, CatIs
  <2> QED BY <1>3, <2>1, <2>2
<1> QED BY <1>2, <1>5

\* Two strings are the same if neither is less, and the first character decides
\* unless it is the same.
LEMMA LeadLess ==
    ASSUME NEW x \in Int, NEW s \in Seq(Int)
    PROVE  /\ Less(<<>>, Lead(x, s)) /\ ~Less(Lead(x, s), <<>>)
           /\ \A y \in Int, t \in Seq(Int) :
                /\ Less(Lead(x, s), Lead(y, t)) <=> x < y \/ (x = y /\ Less(s, t))
                /\ Lead(x, s) = Lead(y, t) <=> x = y /\ s = t
<1>1. Less(<<>>, Lead(x, s)) /\ ~Less(Lead(x, s), <<>>)
  <2>1. Lead(x, s) \in Seq(Int) /\ Lead(x, s) # <<>>
    BY LeadIs
  <2> QED BY <2>1, LessEmpty
<1>2. ASSUME NEW y \in Int, NEW t \in Seq(Int)
      PROVE  /\ Less(Lead(x, s), Lead(y, t)) <=> x < y \/ (x = y /\ Less(s, t))
             /\ Less(Lead(y, t), Lead(x, s)) <=> y < x \/ (y = x /\ Less(t, s))
  BY LessHeads DEF Lead
<1>3. ASSUME NEW y \in Int, NEW t \in Seq(Int)
      PROVE  Lead(x, s) = Lead(y, t) <=> x = y /\ s = t
  <2>1. Lead(x, s) \in Seq(Int) /\ Lead(y, t) \in Seq(Int)
    BY LeadIs
  <2>2. Lead(x, s) = Lead(y, t) <=> ~Less(Lead(x, s), Lead(y, t)) /\ ~Less(Lead(y, t), Lead(x, s))
    BY <2>1, LessOrEqual
  <2>3. s = t <=> ~Less(s, t) /\ ~Less(t, s)
    BY LessOrEqual
  <2> QED BY <1>2, <2>2, <2>3
<1> QED BY <1>1, <1>2, <1>3

LEMMA LeadsCompared ==
    ASSUME NEW x \in Int, NEW s \in Seq(Int), NEW y \in Int, NEW t \in Seq(Int)
    PROVE  /\ Less(Lead(x, s), Lead(y, t)) <=> x < y \/ (x = y /\ Less(s, t))
           /\ Lead(x, s) = Lead(y, t) <=> x = y /\ s = t
           /\ x = y => (Less(Lead(x, s), Lead(y, t)) <=> Less(s, t))
<1>1. /\ Less(Lead(x, s), Lead(y, t)) <=> x < y \/ (x = y /\ Less(s, t))
      /\ Lead(x, s) = Lead(y, t) <=> x = y /\ s = t
  BY LeadLess
<1>2. x = y => ~(x < y)
  OBVIOUS
<1> QED BY <1>1, <1>2

\* The facts about numbers in these terms.
LEMMA CatNumbers ==
    ASSUME NEW c \in Short, NEW d \in Short
    PROVE  /\ Number(c) \in Seq(Int) /\ Value(c) \in Nat
           /\ \A s \in Seq(Int), t \in Seq(Int) :
                Less(Cat(Number(c), s), Cat(Number(d), t))
                  <=> Value(c) < Value(d) \/ (Value(c) = Value(d) /\ Less(s, t))
<1>1. /\ c \in Seq(Digit) /\ Len(c) <= Width
      /\ d \in Seq(Digit) /\ Len(d) <= Width
  BY DEF Short
<1>2. \A s \in Seq(Int), t \in Seq(Int) :
        Less(Number(c) \o s, Number(d) \o t)
          <=> Value(c) < Value(d) \/ (Value(c) = Value(d) /\ Less(s, t))
  BY <1>1, LessNumbers
<1>3. Number(c) \in Seq(Int) /\ Value(c) \in Nat
  BY <1>1, NumberIs, DigitsAreNumbers
<1> QED BY <1>2, <1>3 DEF Cat

LEMMA LeadNumbers ==
    ASSUME NEW n \in Short, NEW numbers \in Seq(Short)
    PROVE  /\ Number(n) \in Seq(Int) /\ Value(n) \in Nat
           /\ AfterDots(<<>>) = <<>> /\ AfterDots(numbers) \in Seq(Int)
           /\ AfterDots(Lead(n, numbers)) = Lead(Dot, Cat(Number(n), AfterDots(numbers)))
           /\ Values(<<>>) = <<>> /\ Values(numbers) \in Seq(Int)
           /\ Values(Lead(n, numbers)) = Lead(Value(n), Values(numbers))
           /\ Lead(n, numbers) \in Seq(Short)
<1>1. Lead(n, numbers) \in Seq(Short)
  BY DEF Lead
<1>2. AfterDots(Lead(n, numbers)) = Lead(Dot, Cat(Number(n), AfterDots(numbers)))
  BY AfterDotsPrepend, Zenon DEF Lead, Cat
<1>3. Values(Lead(n, numbers)) = Lead(Value(n), Values(numbers))
  BY ValuesPrepend, Zenon DEF Lead
<1> QED BY <1>1, <1>2, <1>3, AfterDotsPrepend, ValuesPrepend, CatNumbers

LEMMA LeadFirst ==
    ASSUME NEW numbers \in Seq(Short), numbers # <<>>
    PROVE  \E n \in Short, rest \in Seq(Short) : numbers = Lead(n, rest)
<1>1. \E n \in Short, rest \in Seq(Short) : numbers = <<n>> \o rest
  BY FirstAndRest
<1> QED BY <1>1 DEF Lead

\* What may come after the numbers: nothing, or what begins with a character
\* before the dot.
BeforeDot(s) == s = <<>> \/ \E x \in Int, u \in Seq(Int) : x < Dot /\ s = Lead(x, u)

LEMMA BeforeDotIsLess ==
    ASSUME NEW s \in Seq(Int), BeforeDot(s), NEW t \in Seq(Int)
    PROVE  Less(s, Lead(Dot, t)) /\ ~Less(Lead(Dot, t), s)
<1>1. Dot \in Int
  BY DEF Dot
<1>2. CASE s = <<>>
  BY <1>1, <1>2, LeadLess
<1>3. CASE s # <<>>
  <2>1. PICK x \in Int, u \in Seq(Int) : x < Dot /\ s = Lead(x, u)
    BY <1>3 DEF BeforeDot
  <2> QED BY <1>1, <2>1, LeadLess
<1> QED BY <1>2, <1>3

\* Strings that begin with numbers are ordered by these, one after the other.
LEMMA LessAfterDots ==
    ASSUME NEW s \in Seq(Int), BeforeDot(s), NEW t \in Seq(Int), BeforeDot(t)
    PROVE  \A numbers \in Seq(Short), others \in Seq(Short) :
             Less(Cat(AfterDots(numbers), s), Cat(AfterDots(others), t))
               <=> \/ Less(Values(numbers), Values(others))
                   \/ Values(numbers) = Values(others) /\ Less(s, t)
<1> DEFINE Ordered(v, w) ==
             Less(Cat(AfterDots(v), s), Cat(AfterDots(w), t))
               <=> \/ Less(Values(v), Values(w))
                   \/ Values(v) = Values(w) /\ Less(s, t)
           P == {v \in Seq(Short) : \A w \in Seq(Short) : Ordered(v, w)}
           rest(n, v, u) == Cat(Number(n), Cat(AfterDots(v), u))
<1>1. Dot \in Int
  BY DEF Dot
<1>2. /\ <<>> \in Seq(Short) /\ <<>> \in Seq(Int) /\ ~Less(<<>>, <<>>)
      /\ AfterDots(<<>>) = <<>> /\ Values(<<>>) = <<>>
  <2>1. <<>> \in Short
    BY WidthAssumption DEF Short
  <2>2. <<>> \in Seq(Short) /\ <<>> \in Seq(Int)
    OBVIOUS
  <2> QED BY <2>1, <2>2, LeadNumbers, LessIrreflexive
<1>3. Cat(<<>>, s) = s /\ Cat(<<>>, t) = t
  BY CatIs
<1>4. ASSUME NEW n \in Short, NEW v \in Seq(Short), NEW u \in Seq(Int)
      PROVE  /\ Cat(AfterDots(Lead(n, v)), u) = Lead(Dot, rest(n, v, u))
             /\ rest(n, v, u) \in Seq(Int)
             /\ Cat(AfterDots(v), u) \in Seq(Int)
             /\ Values(Lead(n, v)) = Lead(Value(n), Values(v))
             /\ Values(v) \in Seq(Int) /\ Value(n) \in Int
             /\ Lead(n, v) \in Seq(Short)
  <2>1. Number(n) \in Seq(Int) /\ AfterDots(v) \in Seq(Int)
    BY LeadNumbers
  <2>2. /\ Cat(Number(n), AfterDots(v)) \in Seq(Int)
        /\ Cat(AfterDots(v), u) \in Seq(Int)
        /\ Cat(Cat(Number(n), AfterDots(v)), u) = rest(n, v, u)
        /\ rest(n, v, u) \in Seq(Int)
    BY <2>1, CatIs
  <2>3. Cat(Lead(Dot, Cat(Number(n), AfterDots(v))), u)
          = Lead(Dot, Cat(Cat(Number(n), AfterDots(v)), u))
    BY <1>1, <2>2, LeadIs
  <2> QED BY <2>2, <2>3, LeadNumbers
<1>5. \A v \in Seq(Short) :
        v = <<>> \/ \E n \in Short, w \in Seq(Short) : v = Lead(n, w)
  BY LeadFirst
<1>6. <<>> \in P
  <2>1. Ordered(<<>>, <<>>)
    BY <1>2, <1>3
  <2>2. ASSUME NEW n \in Short, NEW v \in Seq(Short) PROVE Ordered(<<>>, Lead(n, v))
    <3>1. Less(s, Lead(Dot, rest(n, v, t)))
      BY <1>4, BeforeDotIsLess
    <3>2. Less(<<>>, Lead(Value(n), Values(v)))
      BY <1>4, LeadLess
    <3> QED BY <1>2, <1>3, <1>4, <3>1, <3>2
  <2> QED BY <1>2, <1>5, <2>1, <2>2
<1>7. ASSUME NEW v \in Seq(Short), NEW n \in Short, v \in P PROVE Lead(n, v) \in P
  <2>1. Ordered(Lead(n, v), <<>>)
    <3>1. ~Less(Lead(Dot, rest(n, v, s)), t)
      BY <1>4, BeforeDotIsLess
    <3>2. ~Less(Lead(Value(n), Values(v)), <<>>) /\ Lead(Value(n), Values(v)) # <<>>
      BY <1>4, LeadLess, LeadIs
    <3> QED BY <1>2, <1>3, <1>4, <3>1, <3>2
  <2>2. ASSUME NEW m \in Short, NEW x \in Seq(Short) PROVE Ordered(Lead(n, v), Lead(m, x))
    <3>1. Less(Lead(Dot, rest(n, v, s)), Lead(Dot, rest(m, x, t)))
            <=> Less(rest(n, v, s), rest(m, x, t))
      <4>1. rest(n, v, s) \in Seq(Int) /\ rest(m, x, t) \in Seq(Int)
        BY <1>4
      <4> HIDE DEF rest
      <4> QED BY <1>1, <4>1, LeadsCompared
    <3>2. Less(rest(n, v, s), rest(m, x, t))
            <=> \/ Value(n) < Value(m)
                \/ Value(n) = Value(m) /\ Less(Cat(AfterDots(v), s), Cat(AfterDots(x), t))
      BY <1>4, CatNumbers
    <3>3. Ordered(v, x)
      BY <1>7
    <3>4. /\ Less(Lead(Value(n), Values(v)), Lead(Value(m), Values(x)))
               <=> Value(n) < Value(m) \/ (Value(n) = Value(m) /\ Less(Values(v), Values(x)))
          /\ Lead(Value(n), Values(v)) = Lead(Value(m), Values(x))
               <=> Value(n) = Value(m) /\ Values(v) = Values(x)
      <4>1. /\ Value(n) \in Int /\ Values(v) \in Seq(Int)
            /\ Value(m) \in Int /\ Values(x) \in Seq(Int)
        BY <1>4
      <4> QED BY <4>1, LeadsCompared
    <3>5. /\ Cat(AfterDots(Lead(n, v)), s) = Lead(Dot, rest(n, v, s))
          /\ Cat(AfterDots(Lead(m, x)), t) = Lead(Dot, rest(m, x, t))
          /\ Values(Lead(n, v)) = Lead(Value(n), Values(v))
          /\ Values(Lead(m, x)) = Lead(Value(m), Values(x))
      BY <1>4
    <3> HIDE DEF rest
    <3> QED BY <3>1, <3>2, <3>3, <3>4, <3>5
  <2>3. Lead(n, v) \in Seq(Short)
    BY <1>4
  <2> HIDE DEF Ordered
  <2> QED BY <1>5, <2>1, <2>2, <2>3
<1> HIDE DEF P
<1>8. Prepends(Short, P)
  BY <1>7 DEF Prepends, Lead
<1>9. \A numbers \in Seq(Short) : numbers \in P
  BY <1>6, <1>8, PrependInduction
<1> QED BY <1>9 DEF P

\* Also without the dot before the first.
LEMMA DottedIs ==
    ASSUME NEW numbers \in Seq(Short), numbers # <<>>
    PROVE  /\ Dotted(numbers) \in Seq(Int)
           /\ AfterDots(numbers) = Lead(Dot, Dotted(numbers))
<1>1. PICK n \in Short, rest \in Seq(Short) : numbers = Lead(n, rest)
  BY LeadFirst
<1> DEFINE u == Cat(Number(n), AfterDots(rest))
<1>2. AfterDots(numbers) = Lead(Dot, u) /\ u \in Seq(Int)
  <2>1. Number(n) \in Seq(Int) /\ AfterDots(rest) \in Seq(Int)
    BY LeadNumbers
  <2> QED BY <1>1, <2>1, LeadNumbers, CatIs
<1> HIDE DEF u
<1>3. Tail(Lead(Dot, u)) = u
  <2>1. u = [k \in 1 .. Len(u) |-> u[k]] /\ Len(u) \in Nat
    BY <1>2
  <2>2. Tail(<<Dot>> \o u) = u
    BY <1>2, <2>1 DEF Dot
  <2> QED BY <2>2 DEF Lead
<1>4. Dotted(numbers) = Tail(AfterDots(numbers))
  BY DEF Dotted, AfterDots
<1> QED BY <1>2, <1>3, <1>4

LEMMA LessDotted ==
    ASSUME NEW numbers \in Seq(Short), numbers # <<>>,
           NEW others \in Seq(Short), others # <<>>,
           NEW s \in Seq(Int), BeforeDot(s), NEW t \in Seq(Int), BeforeDot(t)
    PROVE  Less(Cat(Dotted(numbers), s), Cat(Dotted(others), t))
             <=> \/ Less(Values(numbers), Values(others))
                 \/ Values(numbers) = Values(others) /\ Less(s, t)
<1> DEFINE a == Dotted(numbers)
           b == Dotted(others)
<1>1. /\ a \in Seq(Int) /\ AfterDots(numbers) = Lead(Dot, a)
      /\ b \in Seq(Int) /\ AfterDots(others) = Lead(Dot, b)
  BY DottedIs
<1>2. Dot \in Int
  BY DEF Dot
<1>3. /\ Cat(AfterDots(numbers), s) = Lead(Dot, Cat(a, s))
      /\ Cat(AfterDots(others), t) = Lead(Dot, Cat(b, t))
  BY <1>1, <1>2, LeadIs
<1>4. Cat(a, s) \in Seq(Int) /\ Cat(b, t) \in Seq(Int)
  BY <1>1, CatIs
<1>5. Less(Lead(Dot, Cat(a, s)), Lead(Dot, Cat(b, t))) <=> Less(Cat(a, s), Cat(b, t))
  BY <1>2, <1>4, LeadsCompared
<1>6. Less(Cat(AfterDots(numbers), s), Cat(AfterDots(others), t))
        <=> \/ Less(Values(numbers), Values(others))
            \/ Values(numbers) = Values(others) /\ Less(s, t)
  BY LessAfterDots
<1> QED BY <1>3, <1>5, <1>6

-----------------------------------------------------------------------------
(* The parts of a comparison string, each with what comes after it.        *)

Lettered(l, s) == IF l = NoLetter THEN s ELSE Lead(Space, Lead(LetterChar(l), s))
Counted(n, s) == IF n = <<>> THEN s ELSE Cat(Number(n), s)
Suffixing(v, s) ==
    Lead(Space, Lead(Underscore, Lead(LetterChar(SuffixLetter[v.suffix]), Counted(v.suffixNumber, s))))
Revised(v) == IF v.revision = <<>> THEN <<0>> ELSE v.revision
Revising(v) == Lead(Space, Lead(LetterChar(18), Number(Revised(v))))

\* A version whose numbers all fit.
LEMMA FitsIs ==
    ASSUME NEW v, IsVersion(v), Fits(v)
    PROVE  /\ v.numbers \in Seq(Short) /\ v.numbers # <<>>
           /\ v.suffixNumber \in Short
           /\ Revised(v) \in Short /\ Value(Revised(v)) = Value(v.revision)
           /\ v.letter \in 0 .. 26
           /\ v.suffix \in Suffixed \cup {"none"}
           /\ SuffixLetter[v.suffix] \in 1 .. 16
<1>1. /\ v.numbers \in Seq(Seq(Digit)) /\ v.numbers # <<>>
      /\ v.suffixNumber \in Seq(Digit) /\ v.revision \in Seq(Digit)
      /\ v.letter \in 0 .. 26 /\ v.suffix \in Suffixed \cup {"none"}
  BY DEF IsVersion, Letter, NoLetter
<1>2. \A k \in 1 .. Len(v.numbers) : v.numbers[k] \in Short
  BY <1>1 DEF Fits, ToSet, Short
<1>3. v.numbers \in Seq(Short)
  <2> DEFINE s == v.numbers
             N == Len(s)
  <2>1. s = [k \in 1 .. N |-> s[k]] /\ N \in Nat
    BY <1>1
  <2>2. [k \in 1 .. N |-> s[k]] \in Seq(Short)
    <3>1. \A k \in 1 .. N : s[k] \in Short
      BY <1>2
    <3> HIDE DEF s, N
    <3> QED BY <2>1, <3>1
  <2> QED BY <2>1, <2>2
<1>4. v.suffixNumber \in Short /\ v.revision \in Short
  BY <1>1 DEF Fits, Short
<1>5. <<0>> \in Short /\ Value(<<0>>) = 0 /\ Value(<<>>) = 0
  <2>1. 0 \in Digit /\ <<>> \in Seq(Digit) /\ Append(<<>>, 0) = <<0>>
    BY DigitsAreNumbers DEF Digit
  <2>2. Value(<<>>) = 0 /\ Value(Append(<<>>, 0)) = Value(<<>>) * Radix + 0
    BY <2>1, ValueAppend
  <2>3. 0 * Radix + 0 = 0
    BY DigitsAreNumbers
  <2>4. <<0>> \in Seq(Digit) /\ Len(<<0>>) = 1
    BY <2>1
  <2> QED BY <2>1, <2>2, <2>3, <2>4, WidthAssumption DEF Short
<1>6. Revised(v) \in Short /\ Value(Revised(v)) = Value(v.revision)
  BY <1>4, <1>5 DEF Revised
<1>7. SuffixLetter[v.suffix] \in 1 .. 16
  BY <1>1 DEF SuffixLetter, Suffixed
<1> QED BY <1>1, <1>3, <1>4, <1>6, <1>7

LEMMA CharactersAre ==
    /\ Space \in Int /\ Dot \in Int /\ Underscore \in Int
    /\ Space < Dot /\ LetterChar(NoLetter) = Underscore
    /\ \A k \in 0 .. 26 : LetterChar(k) \in Int /\ LetterChar(k) > Dot /\ ~IsDigitChar(LetterChar(k))
    /\ \A j \in 0 .. 26, k \in 0 .. 26 : (LetterChar(j) < LetterChar(k) <=> j < k)
                                         /\ (LetterChar(j) = LetterChar(k) <=> j = k)
<1>1. Radix \in Nat
  BY DigitsAreNumbers
<1> QED BY <1>1 DEF Space, Dot, Underscore, LetterChar, NoLetter, IsDigitChar

LEMMA TwoLeads ==
    ASSUME NEW x \in Int, NEW y \in Int, NEW s \in Seq(Int)
    PROVE  <<x, y>> \o s = Lead(x, Lead(y, s))
<1>1. <<x, y>> = <<x>> \o <<y>> /\ <<x>> \in Seq(Int) /\ <<y>> \in Seq(Int)
  <2>1. <<x, y>> = Append(<<x>>, y) /\ <<x>> \in Seq(Int) /\ <<y>> \in Seq(Int)
    OBVIOUS
  <2> QED BY <2>1, AppendIsConcat
<1>2. Cat(Cat(<<x>>, <<y>>), s) = Cat(<<x>>, Cat(<<y>>, s))
  <2> DEFINE a == <<x>>
             b == <<y>>
  <2>1. a \in Seq(Int) /\ b \in Seq(Int)
    BY <1>1
  <2> HIDE DEF a, b
  <2>2. Cat(Cat(a, b), s) = Cat(a, Cat(b, s))
    BY <2>1, CatIs
  <2> QED BY <2>2 DEF a, b
<1>3. <<x, y>> \o s = Cat(Cat(<<x>>, <<y>>), s)
  BY <1>1 DEF Cat
<1>4. Lead(x, Lead(y, s)) = Cat(<<x>>, Cat(<<y>>, s))
  BY DEF Lead, Cat
<1> QED BY <1>2, <1>3, <1>4

LEMMA LetteredIs ==
    ASSUME NEW l \in 0 .. 26, NEW s \in Seq(Int)
    PROVE  /\ Lettered(l, s) \in Seq(Int)
           /\ BeforeDot(s) => BeforeDot(Lettered(l, s))
           /\ \A t \in Seq(Int) : Cat(Lettered(l, s), t) = Lettered(l, Cat(s, t))
<1>1. /\ Space \in Int /\ LetterChar(l) \in Int /\ Space < Dot
  BY CharactersAre
<1> DEFINE u == Lead(LetterChar(l), s)
<1>2. /\ u \in Seq(Int)
      /\ \A t \in Seq(Int) : Cat(u, t) = Lead(LetterChar(l), Cat(s, t))
  BY <1>1, LeadIs
<1>3. /\ Lead(Space, u) \in Seq(Int)
      /\ \A t \in Seq(Int) : Cat(Lead(Space, u), t) = Lead(Space, Cat(u, t))
  <2> HIDE DEF u
  <2> QED BY <1>1, <1>2, LeadIs
<1>4. BeforeDot(Lead(Space, u))
  BY <1>1, <1>2 DEF BeforeDot
<1> QED BY <1>2, <1>3, <1>4 DEF Lettered

LEMMA SuffixingIs ==
    ASSUME NEW v, IsVersion(v), Fits(v), NEW s \in Seq(Int)
    PROVE  /\ Counted(v.suffixNumber, s) \in Seq(Int)
           /\ Suffixing(v, s) \in Seq(Int) /\ BeforeDot(Suffixing(v, s))
           /\ \A t \in Seq(Int) : Cat(Suffixing(v, s), t) = Suffixing(v, Cat(s, t))
<1> DEFINE n == v.suffixNumber
           c == LetterChar(SuffixLetter[v.suffix])
           w(r) == Lead(c, Counted(n, r))
<1>1. /\ Space \in Int /\ Underscore \in Int /\ c \in Int /\ Space < Dot
      /\ Number(n) \in Seq(Int)
  <2>1. SuffixLetter[v.suffix] \in 0 .. 26 /\ n \in Short
    BY FitsIs
  <2> QED BY <2>1, CharactersAre, CatNumbers
<1>2. ASSUME NEW r \in Seq(Int)
      PROVE  /\ Counted(n, r) \in Seq(Int)
             /\ \A t \in Seq(Int) : Cat(Counted(n, r), t) = Counted(n, Cat(r, t))
  BY <1>1, CatIs DEF Counted
<1> HIDE DEF c, n
<1>3. ASSUME NEW r \in Seq(Int)
      PROVE  /\ w(r) \in Seq(Int)
             /\ \A t \in Seq(Int) : Cat(w(r), t) = w(Cat(r, t))
  BY <1>1, <1>2, LeadIs
<1> HIDE DEF w
<1>4. /\ Lead(Underscore, w(s)) \in Seq(Int)
      /\ \A t \in Seq(Int) : Cat(Lead(Underscore, w(s)), t) = Lead(Underscore, w(Cat(s, t)))
  BY <1>1, <1>3, LeadIs
<1>5. /\ Lead(Space, Lead(Underscore, w(s))) \in Seq(Int)
      /\ \A t \in Seq(Int) : Cat(Lead(Space, Lead(Underscore, w(s))), t)
                               = Lead(Space, Lead(Underscore, w(Cat(s, t))))
  BY <1>1, <1>4, LeadIs
<1>6. BeforeDot(Lead(Space, Lead(Underscore, w(s))))
  BY <1>1, <1>4 DEF BeforeDot
<1>7. \A r : Suffixing(v, r) = Lead(Space, Lead(Underscore, w(r)))
  BY DEF Suffixing, w, c, n
<1>8. Counted(v.suffixNumber, s) \in Seq(Int)
  BY <1>2 DEF n
<1> QED BY <1>5, <1>6, <1>7, <1>8

LEMMA RevisingIs ==
    ASSUME NEW v, IsVersion(v), Fits(v)
    PROVE  Revising(v) \in Seq(Int) /\ BeforeDot(Revising(v))
<1> DEFINE c == LetterChar(18)
           n == Number(Revised(v))
<1>1. Space \in Int /\ c \in Int /\ Space < Dot /\ n \in Seq(Int)
  <2>1. Revised(v) \in Short
    BY FitsIs
  <2>2. n \in Seq(Int)
    BY <2>1, CatNumbers
  <2>3. 18 \in 0 .. 26
    OBVIOUS
  <2> QED BY <2>2, <2>3, CharactersAre
<1> HIDE DEF c, n
<1>2. Lead(c, n) \in Seq(Int) /\ Lead(Space, Lead(c, n)) \in Seq(Int)
  BY <1>1, LeadIs
<1>3. BeforeDot(Lead(Space, Lead(c, n)))
  BY <1>1, <1>2 DEF BeforeDot
<1> QED BY <1>2, <1>3 DEF Revising, c, n

\* The comparison strings in these parts.
Ending(v, s) == Cat(Dotted(v.numbers), Lettered(v.letter, s))

LEMMA CompVerIs ==
    ASSUME NEW v, IsVersion(v), Fits(v)
    PROVE  /\ \A relop : relop # "range" => CompVer(v, relop) = Ending(v, Suffixing(v, Revising(v)))
           /\ CompVer(v, "range") =
                Ending(v, IF v.suffix = "none" THEN <<>>
                          ELSE IF v.revision = <<>> THEN Suffixing(v, <<>>)
                          ELSE Suffixing(v, Revising(v)))
           /\ BaseVer(v) \in Seq(Int)
<1> DEFINE d == Dotted(v.numbers)
           x == IF v.letter = NoLetter THEN <<>> ELSE <<Space, LetterChar(v.letter)>>
           p == <<Space>> \o Suffix(v)
           r == <<Space>> \o Revision(v)
<1>1. /\ d \in Seq(Int) /\ <<>> \in Seq(Int) /\ v.letter \in 0 .. 26
      /\ Suffixing(v, <<>>) \in Seq(Int) /\ Revising(v) \in Seq(Int)
  BY FitsIs, DottedIs, SuffixingIs, RevisingIs, EmptySeq
<1>2. x = Lettered(v.letter, <<>>)
  <2>1. <<>> \in Seq(Int) /\ Space \in Int /\ LetterChar(v.letter) \in Int
    BY <1>1, CharactersAre
  <2>2. <<Space, LetterChar(v.letter)>> \o <<>> = Lead(Space, Lead(LetterChar(v.letter), <<>>))
    BY <2>1, TwoLeads
  <2>3. <<Space, LetterChar(v.letter)>> \o <<>> = <<Space, LetterChar(v.letter)>>
    BY <2>1
  <2> QED BY <2>2, <2>3 DEF Lettered
<1>3. p = Suffixing(v, <<>>)
  <2> DEFINE c == LetterChar(SuffixLetter[v.suffix])
             y == IF v.suffixNumber = <<>> THEN <<>> ELSE Number(v.suffixNumber)
  <2>1. Underscore \in Int /\ c \in Int /\ y \in Seq(Int) /\ y = Counted(v.suffixNumber, <<>>)
    <3>1. SuffixLetter[v.suffix] \in 0 .. 26 /\ v.suffixNumber \in Short
      BY FitsIs
    <3>2. Number(v.suffixNumber) \in Seq(Int)
      BY <3>1, CatNumbers
    <3>3. Cat(Number(v.suffixNumber), <<>>) = Number(v.suffixNumber)
      BY <3>2, <1>1, CatIs
    <3> QED BY <3>1, <3>2, <3>3, <1>1, CharactersAre DEF Counted
  <2>2. Suffix(v) = <<Underscore, c>> \o y
    BY DEF Suffix
  <2> HIDE DEF c, y
  <2>3. <<Underscore, c>> \o y = Lead(Underscore, Lead(c, y))
    BY <2>1, TwoLeads
  <2>4. p = Lead(Space, Suffix(v))
    BY DEF Lead
  <2> HIDE DEF p
  <2>5. p = Lead(Space, Lead(Underscore, Lead(c, Counted(v.suffixNumber, <<>>))))
    BY <2>1, <2>2, <2>3, <2>4
  <2> QED BY <2>5 DEF Suffixing, c
<1>4. r = Revising(v)
  BY DEF Revising, Revision, Revised, Lead
<1>5. BaseVer(v) = Cat(d, x)
  BY DEF BaseVer, Cat
<1>6. \A relop : CompVer(v, relop) =
        LET full == relop # "range"
        IN  (BaseVer(v)
              \o (IF full \/ v.suffix # "none" THEN p ELSE <<>>))
              \o (IF full \/ (v.suffix # "none" /\ v.revision # <<>>) THEN r ELSE <<>>)
  BY DEF CompVer
<1> HIDE DEF d, x, p, r
<1>7. \A relop : CompVer(v, relop) =
        LET full == relop # "range"
        IN  Cat(Cat(BaseVer(v), IF full \/ v.suffix # "none" THEN p ELSE <<>>),
                IF full \/ (v.suffix # "none" /\ v.revision # <<>>) THEN r ELSE <<>>)
  BY <1>6 DEF Cat
<1>8. x \in Seq(Int) /\ p \in Seq(Int) /\ r \in Seq(Int)
  BY <1>1, <1>2, <1>3, <1>4, LetteredIs
<1>9. Cat(d, x) \in Seq(Int) /\ Cat(Cat(d, x), <<>>) = Cat(d, x)
  BY <1>1, <1>8, CatIs
<1>10. Cat(Cat(d, x), p) \in Seq(Int) /\ Cat(Cat(Cat(d, x), p), <<>>) = Cat(Cat(d, x), p)
  BY <1>8, <1>9, CatIs
<1>11. Cat(d, x) = Ending(v, <<>>)
  BY <1>2 DEF Ending, d
<1>12. ASSUME NEW s \in Seq(Int) PROVE Cat(Cat(d, x), s) = Ending(v, s)
  <2>1. Cat(Cat(d, x), s) = Cat(d, Cat(x, s))
    BY <1>1, <1>8, CatIs
  <2>2. Cat(Lettered(v.letter, <<>>), s) = Lettered(v.letter, Cat(<<>>, s))
    BY <1>1, LetteredIs
  <2>3. Cat(x, s) = Lettered(v.letter, s)
    BY <2>2, <1>2, CatIs
  <2> QED BY <2>1, <2>3 DEF Ending, d
<1>13. Cat(p, r) = Suffixing(v, Revising(v)) /\ Cat(p, r) \in Seq(Int)
  <2>3. \A t \in Seq(Int) : Cat(Suffixing(v, <<>>), t) = Suffixing(v, Cat(<<>>, t))
    <3>1. <<>> \in Seq(Int)
      BY <1>1
    <3> QED BY <3>1, SuffixingIs
  <2>1. Cat(Suffixing(v, <<>>), Revising(v)) = Suffixing(v, Cat(<<>>, Revising(v)))
    BY <1>1, <2>3
  <2>2. Cat(<<>>, Revising(v)) = Revising(v)
    BY <1>1, CatIs
  <2> QED BY <2>1, <2>2, <1>1, <1>3, <1>4, SuffixingIs
<1>14. Cat(Cat(Cat(d, x), p), r) = Ending(v, Suffixing(v, Revising(v)))
  <2>1. Cat(Cat(Cat(d, x), p), r) = Cat(Cat(d, x), Cat(p, r))
    BY <1>8, <1>9, CatIs
  <2> QED BY <2>1, <1>12, <1>13
<1>15. ASSUME NEW relop, relop # "range"
       PROVE  CompVer(v, relop) = Ending(v, Suffixing(v, Revising(v)))
  <2>1. CompVer(v, relop) = Cat(Cat(BaseVer(v), p), r)
    BY <1>7, <1>15
  <2> QED BY <2>1, <1>5, <1>14
<1>16. Cat(Cat(d, x), p) = Ending(v, Suffixing(v, <<>>))
  BY <1>12, <1>8, <1>3
<1>17. CASE v.suffix = "none"
  <2>1. CompVer(v, "range") = Cat(Cat(BaseVer(v), <<>>), <<>>)
    BY <1>7, <1>17
  <2>2. CompVer(v, "range") = Ending(v, <<>>)
    BY <2>1, <1>5, <1>9, <1>11
  <2> QED BY <2>2, <1>5, <1>9, <1>15, <1>17
<1>18. CASE v.suffix # "none" /\ v.revision = <<>>
  <2>1. CompVer(v, "range") = Cat(Cat(BaseVer(v), p), <<>>)
    BY <1>7, <1>18
  <2>2. CompVer(v, "range") = Ending(v, Suffixing(v, <<>>))
    BY <2>1, <1>5, <1>10, <1>16
  <2> QED BY <2>2, <1>5, <1>9, <1>15, <1>18
<1>19. CASE v.suffix # "none" /\ v.revision # <<>>
  <2>1. CompVer(v, "range") = Cat(Cat(BaseVer(v), p), r)
    BY <1>7, <1>19
  <2>2. CompVer(v, "range") = Ending(v, Suffixing(v, Revising(v)))
    BY <2>1, <1>5, <1>14
  <2> QED BY <2>2, <1>5, <1>9, <1>15, <1>19
<1> QED BY <1>17, <1>18, <1>19

-----------------------------------------------------------------------------
(* The order of comparison strings is that of versions.                    *)

LEMMA LessEnding ==
    ASSUME NEW v, IsVersion(v), Fits(v), NEW w, IsVersion(w), Fits(w),
           NEW s \in Seq(Int), BeforeDot(s), NEW t \in Seq(Int), BeforeDot(t)
    PROVE  /\ Ending(v, s) \in Seq(Int)
           /\ Less(Ending(v, s), Ending(w, t))
                <=> \/ Less(Values(v.numbers), Values(w.numbers))
                    \/ /\ Values(v.numbers) = Values(w.numbers)
                       /\ Less(Lettered(v.letter, s), Lettered(w.letter, t))
<1> DEFINE l == Lettered(v.letter, s)
           m == Lettered(w.letter, t)
<1>1. /\ v.numbers \in Seq(Short) /\ v.numbers # <<>> /\ v.letter \in 0 .. 26
      /\ w.numbers \in Seq(Short) /\ w.numbers # <<>> /\ w.letter \in 0 .. 26
  BY FitsIs
<1>2. l \in Seq(Int) /\ BeforeDot(l) /\ m \in Seq(Int) /\ BeforeDot(m)
  BY <1>1, LetteredIs
<1> HIDE DEF l, m
<1>3. Less(Cat(Dotted(v.numbers), l), Cat(Dotted(w.numbers), m))
        <=> \/ Less(Values(v.numbers), Values(w.numbers))
            \/ Values(v.numbers) = Values(w.numbers) /\ Less(l, m)
  BY <1>1, <1>2, LessDotted
<1>4. Cat(Dotted(v.numbers), l) \in Seq(Int)
  BY <1>1, <1>2, DottedIs, CatIs
<1> QED BY <1>3, <1>4 DEF Ending, l, m

\* What may follow a number comes before any number.
LEMMA LessNumber ==
    ASSUME NEW n \in Short, NEW t \in Seq(Int), NEW s \in Seq(Int), BeforeDot(s)
    PROVE  Less(s, Cat(Number(n), t)) /\ ~Less(Cat(Number(n), t), s)
<1> DEFINE d == Number(n)
<1>1. d \in Seq(Int) /\ Len(d) = Width /\ \A k \in 1 .. Width : IsDigitChar(d[k])
  BY NumberIs DEF Short
<1> HIDE DEF d
<1>2. d # <<>> /\ d[1] > Dot
  <2>1. Len(d) > 0 /\ 1 \in 1 .. Width
    BY <1>1, WidthAssumption
  <2> QED BY <1>1, <2>1 DEF IsDigitChar
<1>3. PICK x \in Int, u \in Seq(Int) : d = <<x>> \o u
  BY <1>1, <1>2, FirstAndRest
<1>4. x > Dot /\ Dot \in Int
  <2>1. d[1] = x
    BY <1>3
  <2> QED BY <1>2, <2>1 DEF Dot
<1>5. Cat(d, t) = Lead(x, Cat(u, t)) /\ Cat(u, t) \in Seq(Int)
  <2>1. d = Lead(x, u)
    BY <1>3 DEF Lead
  <2> QED BY <2>1, LeadIs, CatIs
<1>6. CASE s = <<>>
  BY <1>5, <1>6, LeadLess DEF d
<1>7. CASE s # <<>>
  <2>1. PICK y \in Int, r \in Seq(Int) : y < Dot /\ s = Lead(y, r)
    BY <1>7 DEF BeforeDot
  <2>2. y < x /\ ~(x < y) /\ x # y
    BY <2>1, <1>4
  <2>3. /\ Less(Lead(y, r), Lead(x, Cat(u, t)))
        /\ ~Less(Lead(x, Cat(u, t)), Lead(y, r))
    BY <1>5, <2>2, LeadsCompared
  <2> QED BY <1>5, <2>1, <2>3 DEF d
<1> QED BY <1>6, <1>7

LEMMA LessCounted ==
    ASSUME NEW n \in Short, NEW m \in Short,
           NEW s \in Seq(Int), BeforeDot(s), NEW t \in Seq(Int), BeforeDot(t)
    PROVE  LET a == IF n = <<>> THEN -1 ELSE Value(n)
               b == IF m = <<>> THEN -1 ELSE Value(m)
           IN  Less(Counted(n, s), Counted(m, t)) <=> a < b \/ (a = b /\ Less(s, t))
<1>1. Value(n) \in Nat /\ Value(m) \in Nat
  BY CatNumbers
<1>2. CASE n = <<>> /\ m = <<>>
  BY <1>2 DEF Counted
<1>3. CASE n = <<>> /\ m # <<>>
  <2>1. Less(s, Cat(Number(m), t))
    BY LessNumber
  <2> QED BY <1>1, <1>3, <2>1 DEF Counted
<1>4. CASE n # <<>> /\ m = <<>>
  <2>1. ~Less(Cat(Number(n), s), t)
    BY LessNumber
  <2> QED BY <1>1, <1>4, <2>1 DEF Counted
<1>5. CASE n # <<>> /\ m # <<>>
  <2>1. Less(Cat(Number(n), s), Cat(Number(m), t))
          <=> Value(n) < Value(m) \/ (Value(n) = Value(m) /\ Less(s, t))
    BY CatNumbers
  <2> QED BY <1>5, <2>1 DEF Counted
<1> QED BY <1>2, <1>3, <1>4, <1>5

\* The number of the suffix, -1 if it has none.
Count(v) == IF v.suffixNumber = <<>> THEN -1 ELSE Value(v.suffixNumber)

\* What comes after the letters: the suffix, its number, and what is after that.
Ranked(v, s) == Lead(LetterChar(SuffixLetter[v.suffix]), Counted(v.suffixNumber, s))

LEMMA LessRanked ==
    ASSUME NEW v, IsVersion(v), Fits(v), NEW w, IsVersion(w), Fits(w),
           NEW s \in Seq(Int), BeforeDot(s), NEW t \in Seq(Int), BeforeDot(t)
    PROVE  LET a == SuffixLetter[v.suffix]
               b == SuffixLetter[w.suffix]
           IN  /\ Ranked(v, s) \in Seq(Int)
               /\ Less(Ranked(v, s), Ranked(w, t))
                    <=> \/ a < b
                        \/ a = b /\ Count(v) < Count(w)
                        \/ a = b /\ Count(v) = Count(w) /\ Less(s, t)
<1> DEFINE a == SuffixLetter[v.suffix]
           b == SuffixLetter[w.suffix]
           c == Counted(v.suffixNumber, s)
           d == Counted(w.suffixNumber, t)
<1>1. /\ a \in 0 .. 26 /\ v.suffixNumber \in Short
      /\ b \in 0 .. 26 /\ w.suffixNumber \in Short
  <2>1. a \in 1 .. 16 /\ b \in 1 .. 16
    BY FitsIs
  <2> QED BY <2>1, FitsIs
<1>2. c \in Seq(Int) /\ d \in Seq(Int)
  BY SuffixingIs
<1>3. Less(c, d) <=> Count(v) < Count(w) \/ (Count(v) = Count(w) /\ Less(s, t))
  BY <1>1, LessCounted DEF Count
<1> HIDE DEF a, b, c, d
<1>4. LetterChar(a) \in Int /\ LetterChar(b) \in Int
  BY <1>1, CharactersAre
<1>5. Less(Lead(LetterChar(a), c), Lead(LetterChar(b), d))
        <=> LetterChar(a) < LetterChar(b) \/ (LetterChar(a) = LetterChar(b) /\ Less(c, d))
  BY <1>2, <1>4, LeadsCompared
<1>6. /\ LetterChar(a) < LetterChar(b) <=> a < b
      /\ LetterChar(a) = LetterChar(b) <=> a = b
  BY <1>1, CharactersAre
<1>7. Lead(LetterChar(a), c) \in Seq(Int)
  BY <1>2, <1>4, LeadIs
<1> QED BY <1>3, <1>5, <1>6, <1>7 DEF Ranked, a, b, c, d

\* The letter decides before the suffix; there is an underscore for no letter.
Under(s) == Lead(Space, Lead(Underscore, s))

LEMMA LessLettered ==
    ASSUME NEW l \in 0 .. 26, NEW m \in 0 .. 26, NEW r \in Seq(Int), NEW q \in Seq(Int)
    PROVE  /\ Less(Lettered(l, Under(r)), Lettered(m, Under(q)))
                <=> l < m \/ (l = m /\ Less(r, q))
           /\ Under(r) \in Seq(Int) /\ BeforeDot(Under(r))
           /\ \E f \in Seq(Int) : Lettered(l, Under(r)) = Lead(Space, Lead(LetterChar(l), f))
<1> DEFINE f == IF l = NoLetter THEN r ELSE Under(r)
           g == IF m = NoLetter THEN q ELSE Under(q)
<1>1. Space \in Int /\ Underscore \in Int /\ Space < Dot
  BY CharactersAre
<1>2. /\ LetterChar(NoLetter) = Underscore
      /\ LetterChar(l) \in Int /\ LetterChar(m) \in Int
      /\ LetterChar(l) < LetterChar(m) <=> l < m
      /\ LetterChar(l) = LetterChar(m) <=> l = m
  BY CharactersAre
<1>3. Lead(Underscore, r) \in Seq(Int) /\ Lead(Underscore, q) \in Seq(Int)
  BY <1>1, LeadIs
<1>4. /\ Under(r) \in Seq(Int) /\ Under(q) \in Seq(Int)
      /\ f \in Seq(Int) /\ g \in Seq(Int)
  BY <1>1, <1>3, LeadIs DEF Under
<1>5. BeforeDot(Under(r))
  BY <1>1, <1>3 DEF Under, BeforeDot
<1>6. /\ Lettered(l, Under(r)) = Lead(Space, Lead(LetterChar(l), f))
      /\ Lettered(m, Under(q)) = Lead(Space, Lead(LetterChar(m), g))
  BY <1>2 DEF Lettered, Under
<1>7. Less(Under(r), Under(q)) <=> Less(r, q)
  <2>1. Less(Lead(Underscore, r), Lead(Underscore, q)) <=> Less(r, q)
    BY <1>1, LeadsCompared
  <2>2. Less(Lead(Space, Lead(Underscore, r)), Lead(Space, Lead(Underscore, q)))
          <=> Less(Lead(Underscore, r), Lead(Underscore, q))
    BY <1>1, <1>3, LeadsCompared
  <2> QED BY <2>1, <2>2 DEF Under
<1>8. l = m => (Less(f, g) <=> Less(r, q))
  BY <1>7
<1> HIDE DEF f, g
<1>9. Lead(LetterChar(l), f) \in Seq(Int) /\ Lead(LetterChar(m), g) \in Seq(Int)
  BY <1>2, <1>4, LeadIs
<1>10. Less(Lead(Space, Lead(LetterChar(l), f)), Lead(Space, Lead(LetterChar(m), g)))
         <=> Less(Lead(LetterChar(l), f), Lead(LetterChar(m), g))
  BY <1>1, <1>9, LeadsCompared
<1>11. Less(Lead(LetterChar(l), f), Lead(LetterChar(m), g))
         <=> \/ LetterChar(l) < LetterChar(m)
             \/ LetterChar(l) = LetterChar(m) /\ Less(f, g)
  BY <1>2, <1>4, LeadsCompared
<1> QED BY <1>2, <1>4, <1>5, <1>6, <1>8, <1>10, <1>11

LEMMA LessRevising ==
    ASSUME NEW v, IsVersion(v), Fits(v), NEW w, IsVersion(w), Fits(w)
    PROVE  Less(Revising(v), Revising(w)) <=> Value(v.revision) < Value(w.revision)
<1> DEFINE n == Number(Revised(v))
           m == Number(Revised(w))
           c == LetterChar(18)
<1>1. /\ Revised(v) \in Short /\ Value(Revised(v)) = Value(v.revision)
      /\ Revised(w) \in Short /\ Value(Revised(w)) = Value(w.revision)
  BY FitsIs
<1>2. /\ n \in Seq(Int) /\ m \in Seq(Int)
      /\ Less(n, m) <=> Value(v.revision) < Value(w.revision)
  <2>1. n \in Seq(Int) /\ m \in Seq(Int) /\ <<>> \in Seq(Int)
    BY <1>1, CatNumbers, EmptySeq
  <2>2. Cat(n, <<>>) = n /\ Cat(m, <<>>) = m /\ ~Less(<<>>, <<>>)
    BY <2>1, CatIs, LessIrreflexive
  <2>3. Less(Cat(n, <<>>), Cat(m, <<>>))
          <=> Value(Revised(v)) < Value(Revised(w))
              \/ (Value(Revised(v)) = Value(Revised(w)) /\ Less(<<>>, <<>>))
    BY <1>1, <2>1, CatNumbers
  <2> QED BY <1>1, <2>1, <2>2, <2>3
<1>3. Space \in Int /\ c \in Int
  <2>1. 18 \in 0 .. 26
    OBVIOUS
  <2> QED BY <2>1, CharactersAre
<1> HIDE DEF n, m, c
<1>4. Lead(c, n) \in Seq(Int) /\ Lead(c, m) \in Seq(Int)
  BY <1>2, <1>3, LeadIs
<1>5. Less(Lead(c, n), Lead(c, m)) <=> Less(n, m)
  BY <1>2, <1>3, LeadsCompared
<1>6. Less(Lead(Space, Lead(c, n)), Lead(Space, Lead(c, m))) <=> Less(Lead(c, n), Lead(c, m))
  BY <1>3, <1>4, LeadsCompared
<1> QED BY <1>2, <1>5, <1>6 DEF Revising, n, m, c

\* What comes after the numbers of a version is in the order of its letter and
\* its rank.
LEMMA LessRank ==
    ASSUME NEW v, IsVersion(v), Fits(v), NEW w, IsVersion(w), Fits(w)
    PROVE  LET a == SuffixLetter[v.suffix]
               b == SuffixLetter[w.suffix]
           IN  Less(<<v.letter>> \o Rank(v), <<w.letter>> \o Rank(w))
                 <=> \/ v.letter < w.letter
                     \/ /\ v.letter = w.letter
                        /\ \/ a < b
                           \/ a = b /\ Count(v) < Count(w)
                           \/ /\ a = b /\ Count(v) = Count(w)
                              /\ Value(v.revision) < Value(w.revision)
<1>1. ASSUME NEW u, IsVersion(u), Fits(u)
      PROVE  /\ SuffixLetter[u.suffix] \in Int /\ Count(u) \in Int /\ Value(u.revision) \in Int
             /\ u.letter \in Int
             /\ <<u.letter>> \o Rank(u)
                  = Lead(u.letter, Lead(SuffixLetter[u.suffix],
                                        Lead(Count(u), Lead(Value(u.revision), <<>>))))
  <2>1. /\ SuffixLetter[u.suffix] \in Int /\ u.letter \in Int
        /\ u.suffixNumber \in Short /\ Revised(u) \in Short
        /\ Value(Revised(u)) = Value(u.revision)
    <3>1. SuffixLetter[u.suffix] \in 1 .. 16 /\ u.letter \in 0 .. 26
      BY <1>1, FitsIs
    <3>2. /\ u.suffixNumber \in Short /\ Revised(u) \in Short
          /\ Value(Revised(u)) = Value(u.revision)
      BY <1>1, FitsIs
    <3> QED BY <3>1, <3>2
  <2>2. Count(u) \in Int /\ Value(u.revision) \in Int
    BY <2>1, CatNumbers DEF Count
  <2> DEFINE a == SuffixLetter[u.suffix]
             b == Count(u)
             c == Value(u.revision)
  <2>3. Rank(u) = <<a, b, c>>
    BY DEF Rank, Count
  <2> HIDE DEF a, b, c
  <2>4. a \in Int /\ b \in Int /\ c \in Int
    BY <2>1, <2>2 DEF a, b, c
  <2>5. <<a, b, c>> = <<a, b>> \o <<c>>
    <3>1. <<a, b, c>> = Append(<<a, b>>, c) /\ <<a, b>> \in Seq(Int)
      BY <2>4
    <3> QED BY <3>1, <2>4, AppendIsConcat
  <2>6. <<c>> \in Seq(Int) /\ <<c>> = Lead(c, <<>>)
    BY <2>4 DEF Lead
  <2>7. <<a, b>> \o <<c>> = Lead(a, Lead(b, <<c>>))
    BY <2>4, <2>6, TwoLeads
  <2>8. <<u.letter>> \o Rank(u) = Lead(u.letter, Rank(u))
    BY DEF Lead
  <2>9. Rank(u) = Lead(a, Lead(b, Lead(c, <<>>)))
    BY <2>3, <2>5, <2>6, <2>7
  <2> QED BY <2>1, <2>2, <2>8, <2>9 DEF a, b, c
<1> DEFINE a == SuffixLetter[v.suffix]
           b == SuffixLetter[w.suffix]
           c == Lead(Value(v.revision), <<>>)
           d == Lead(Value(w.revision), <<>>)
<1>2. /\ a \in Int /\ Count(v) \in Int /\ Value(v.revision) \in Int /\ v.letter \in Int
      /\ b \in Int /\ Count(w) \in Int /\ Value(w.revision) \in Int /\ w.letter \in Int
  BY <1>1
<1>3. <<v.letter>> \o Rank(v) = Lead(v.letter, Lead(a, Lead(Count(v), c)))
  BY <1>1
<1>4. <<w.letter>> \o Rank(w) = Lead(w.letter, Lead(b, Lead(Count(w), d)))
  BY <1>1
<1> HIDE DEF a, b
<1>5. /\ c \in Seq(Int) /\ d \in Seq(Int)
      /\ Less(c, d) <=> Value(v.revision) < Value(w.revision)
  <2>1. <<>> \in Seq(Int)
    BY EmptySeq
  <2>2. ~Less(<<>>, <<>>)
    BY <2>1, LessIrreflexive
  <2> QED BY <1>2, <2>1, <2>2, LeadIs, LeadsCompared
<1> HIDE DEF c, d
<1>6. /\ Lead(Count(v), c) \in Seq(Int) /\ Lead(Count(w), d) \in Seq(Int)
      /\ Less(Lead(Count(v), c), Lead(Count(w), d))
           <=> Count(v) < Count(w) \/ (Count(v) = Count(w) /\ Less(c, d))
  BY <1>2, <1>5, LeadIs, LeadsCompared
<1> DEFINE e == Lead(Count(v), c)
           f == Lead(Count(w), d)
<1> HIDE DEF e, f
<1>7. /\ Lead(a, e) \in Seq(Int) /\ Lead(b, f) \in Seq(Int)
      /\ Less(Lead(a, e), Lead(b, f)) <=> a < b \/ (a = b /\ Less(e, f))
  <2>1. e \in Seq(Int) /\ f \in Seq(Int)
    BY <1>6 DEF e, f
  <2> QED BY <1>2, <2>1, LeadIs, LeadsCompared
<1>8. Less(Lead(v.letter, Lead(a, e)), Lead(w.letter, Lead(b, f)))
        <=> v.letter < w.letter \/ (v.letter = w.letter /\ Less(Lead(a, e), Lead(b, f)))
  BY <1>2, <1>7, LeadsCompared
<1>9. /\ <<v.letter>> \o Rank(v) = Lead(v.letter, Lead(a, e))
      /\ <<w.letter>> \o Rank(w) = Lead(w.letter, Lead(b, f))
  BY <1>3, <1>4 DEF e, f
<1>10. Less(e, f) <=> Count(v) < Count(w) \/ (Count(v) = Count(w) /\ Less(c, d))
  BY <1>6 DEF e, f
<1> QED BY <1>5, <1>7, <1>8, <1>9, <1>10 DEF a, b

\* The whole string of a version, which every relation but that of a range is
\* about.
WholeVer(v) == Ending(v, Suffixing(v, Revising(v)))

\* Strings of versions are in the order of the versions.
THEOREM OrderOfVersions ==
    ASSUME NEW v, IsVersion(v), Fits(v), NEW w, IsVersion(w), Fits(w)
    PROVE  /\ \A relop : relop # "range" => CompVer(v, relop) = WholeVer(v)
           /\ WholeVer(v) \in Seq(Int)
           /\ Less(WholeVer(v), WholeVer(w)) <=> Precedes(v, w)
           /\ WholeVer(v) = WholeVer(w) <=> SameVersion(v, w)
<1>1. ASSUME NEW u, IsVersion(u), Fits(u), NEW x, IsVersion(x), Fits(x)
      PROVE  /\ WholeVer(u) \in Seq(Int)
             /\ Less(WholeVer(u), WholeVer(x)) <=> Precedes(u, x)
  <2> DEFINE s == Revising(u)
             t == Revising(x)
  <2>1. s \in Seq(Int) /\ BeforeDot(s) /\ t \in Seq(Int) /\ BeforeDot(t)
    BY <1>1, RevisingIs
  <2>2. Less(s, t) <=> Value(u.revision) < Value(x.revision)
    BY <1>1, LessRevising
  <2> HIDE DEF s, t
  <2>3. /\ Suffixing(u, s) \in Seq(Int) /\ BeforeDot(Suffixing(u, s))
        /\ Suffixing(x, t) \in Seq(Int) /\ BeforeDot(Suffixing(x, t))
    BY <1>1, <2>1, SuffixingIs
  <2>4. /\ Ending(u, Suffixing(u, s)) \in Seq(Int)
        /\ Less(Ending(u, Suffixing(u, s)), Ending(x, Suffixing(x, t)))
             <=> \/ Less(Values(u.numbers), Values(x.numbers))
                 \/ /\ Values(u.numbers) = Values(x.numbers)
                    /\ Less(Lettered(u.letter, Suffixing(u, s)), Lettered(x.letter, Suffixing(x, t)))
    BY <1>1, <2>3, LessEnding
  <2>5. Less(Lettered(u.letter, Suffixing(u, s)), Lettered(x.letter, Suffixing(x, t)))
          <=> \/ u.letter < x.letter
              \/ u.letter = x.letter /\ Less(Ranked(u, s), Ranked(x, t))
    <3>1. u.letter \in 0 .. 26 /\ x.letter \in 0 .. 26
      BY <1>1, FitsIs
    <3>2. Ranked(u, s) \in Seq(Int) /\ Ranked(x, t) \in Seq(Int)
      BY <1>1, <2>1, LessRanked
    <3>3. Suffixing(u, s) = Under(Ranked(u, s)) /\ Suffixing(x, t) = Under(Ranked(x, t))
      BY DEF Suffixing, Ranked, Under
    <3>4. Less(Lettered(u.letter, Under(Ranked(u, s))), Lettered(x.letter, Under(Ranked(x, t))))
            <=> \/ u.letter < x.letter
                \/ u.letter = x.letter /\ Less(Ranked(u, s), Ranked(x, t))
      BY <3>1, <3>2, LessLettered
    <3> QED BY <3>3, <3>4
  <2>6. Less(Ranked(u, s), Ranked(x, t))
          <=> \/ SuffixLetter[u.suffix] < SuffixLetter[x.suffix]
              \/ SuffixLetter[u.suffix] = SuffixLetter[x.suffix] /\ Count(u) < Count(x)
              \/ SuffixLetter[u.suffix] = SuffixLetter[x.suffix] /\ Count(u) = Count(x) /\ Less(s, t)
    BY <1>1, <2>1, LessRanked
  <2>7. Less(<<u.letter>> \o Rank(u), <<x.letter>> \o Rank(x))
          <=> \/ u.letter < x.letter
              \/ /\ u.letter = x.letter
                 /\ \/ SuffixLetter[u.suffix] < SuffixLetter[x.suffix]
                    \/ SuffixLetter[u.suffix] = SuffixLetter[x.suffix] /\ Count(u) < Count(x)
                    \/ /\ SuffixLetter[u.suffix] = SuffixLetter[x.suffix] /\ Count(u) = Count(x)
                       /\ Value(u.revision) < Value(x.revision)
    BY <1>1, LessRank
  <2>8. WholeVer(u) = Ending(u, Suffixing(u, s)) /\ WholeVer(x) = Ending(x, Suffixing(x, t))
    BY DEF WholeVer, s, t
  <2>9. Precedes(u, x) <=> \/ Less(Values(u.numbers), Values(x.numbers))
                           \/ /\ Values(u.numbers) = Values(x.numbers)
                              /\ Less(<<u.letter>> \o Rank(u), <<x.letter>> \o Rank(x))
    BY DEF Precedes
  <2>10. Less(Lettered(u.letter, Suffixing(u, s)), Lettered(x.letter, Suffixing(x, t)))
           <=> Less(<<u.letter>> \o Rank(u), <<x.letter>> \o Rank(x))
    BY <2>2, <2>5, <2>6, <2>7, Zenon
  <2> QED BY <2>4, <2>8, <2>9, <2>10, Zenon
<1>2. WholeVer(v) = WholeVer(w) <=> SameVersion(v, w)
  <2>1. WholeVer(v) = WholeVer(w)
          <=> ~Less(WholeVer(v), WholeVer(w)) /\ ~Less(WholeVer(w), WholeVer(v))
    BY <1>1, LessOrEqual
  <2> QED BY <1>1, <2>1 DEF SameVersion
<1>3. \A relop : relop # "range" => CompVer(v, relop) = WholeVer(v)
  BY CompVerIs DEF WholeVer
<1> QED BY <1>1, <1>2, <1>3

-----------------------------------------------------------------------------
(* Entries put into sequences and taken out of them.                       *)

Inserts(s, t, p, e) ==
    /\ Len(t) = Len(s) + 1
    /\ p \in 1 .. Len(s) + 1
    /\ t[p] = e
    /\ \A k \in 1 .. p - 1 : t[k] = s[k]
    /\ \A k \in p .. Len(s) : t[k + 1] = s[k]

LEMMA InsertsOne ==
    ASSUME NEW S, NEW s \in Seq(S), NEW p \in 1 .. Len(s) + 1, NEW e \in S
    PROVE  InsertAt(s, p, e) \in Seq(S) /\ Inserts(s, InsertAt(s, p, e), p, e)
<1> DEFINE N == Len(s)
           a == SubSeq(s, 1, p - 1)
           b == SubSeq(s, p, N)
           t == a \o <<e>> \o b
<1>1. N \in Nat /\ p \in 1 .. N + 1 /\ \A k \in 1 .. N : s[k] \in S
  OBVIOUS
<1>2. /\ a \in Seq(S) /\ Len(a) = p - 1
      /\ \A k \in 1 .. p - 1 : a[k] = s[k]
  <2>1. \A k \in 1 .. p - 1 : s[k] \in S
    BY <1>1
  <2> HIDE DEF N
  <2>2. /\ a \in Seq(S) /\ Len(a) = IF 1 <= p - 1 THEN (p - 1) - 1 + 1 ELSE 0
        /\ \A k \in 1 .. (p - 1) - 1 + 1 : a[k] = s[1 + k - 1]
    BY <1>1, <2>1, SubSeqProperties
  <2> HIDE DEF a
  <2> QED BY <1>1, <2>2
<1>3. /\ b \in Seq(S) /\ Len(b) = N + 1 - p
      /\ \A k \in 1 .. N + 1 - p : b[k] = s[p + k - 1]
  <2>1. \A k \in p .. N : s[k] \in S
    BY <1>1
  <2> HIDE DEF N
  <2>2. /\ b \in Seq(S) /\ Len(b) = IF p <= N THEN N - p + 1 ELSE 0
        /\ \A k \in 1 .. N - p + 1 : b[k] = s[p + k - 1]
    BY <1>1, <2>1, SubSeqProperties
  <2> HIDE DEF b
  <2> QED BY <1>1, <2>2
<1>4. InsertAt(s, p, e) = t
  BY DEF InsertAt
<1> HIDE DEF a, b, N
<1>5. /\ t \in Seq(S) /\ Len(t) = N + 1 /\ t[p] = e
      /\ \A k \in 1 .. p - 1 : t[k] = a[k]
      /\ \A k \in 1 .. N + 1 - p : t[p + k] = b[k]
  <2> DEFINE c == a \o <<e>>
  <2>1. /\ c \in Seq(S) /\ Len(c) = p /\ c[p] = e
        /\ \A k \in 1 .. p - 1 : c[k] = a[k]
    BY <1>1, <1>2
  <2> HIDE DEF c
  <2>2. /\ c \o b \in Seq(S) /\ Len(c \o b) = N + 1
        /\ \A k \in 1 .. p : (c \o b)[k] = c[k]
        /\ \A k \in 1 .. N + 1 - p : (c \o b)[p + k] = b[k]
    BY <1>1, <1>3, <2>1
  <2>3. t = c \o b
    BY DEF c
  <2> HIDE DEF t
  <2> QED BY <1>1, <2>1, <2>2, <2>3
<1> HIDE DEF t
<1>6. \A k \in 1 .. p - 1 : t[k] = s[k]
  BY <1>2, <1>5
<1>7. ASSUME NEW k \in p .. N PROVE t[k + 1] = s[k]
  <2>1. k + 1 - p \in 1 .. N + 1 - p /\ p + (k + 1 - p) = k + 1 /\ p + (k + 1 - p) - 1 = k
    BY <1>1
  <2> QED BY <1>3, <1>5, <2>1
<1> QED BY <1>1, <1>4, <1>5, <1>6, <1>7 DEF Inserts, N

LEMMA AppendsOne ==
    ASSUME NEW S, NEW s \in Seq(S), NEW e \in S
    PROVE  Append(s, e) \in Seq(S) /\ Inserts(s, Append(s, e), Len(s) + 1, e)
  BY DEF Inserts

Removes(s, t, p) ==
    /\ Len(t) = Len(s) - 1
    /\ p \in 1 .. Len(s)
    /\ \A k \in 1 .. p - 1 : t[k] = s[k]
    /\ \A k \in p .. Len(s) - 1 : t[k] = s[k + 1]

LEMMA RemovesOne ==
    ASSUME NEW S, NEW s \in Seq(S), NEW p \in 1 .. Len(s)
    PROVE  RemoveAt(s, p) \in Seq(S) /\ Removes(s, RemoveAt(s, p), p)
<1> DEFINE N == Len(s)
           a == SubSeq(s, 1, p - 1)
           b == SubSeq(s, p + 1, N)
           t == a \o b
<1>1. N \in Nat /\ p \in 1 .. N /\ \A k \in 1 .. N : s[k] \in S
  OBVIOUS
<1>2. /\ a \in Seq(S) /\ Len(a) = p - 1
      /\ \A k \in 1 .. p - 1 : a[k] = s[k]
  <2>1. \A k \in 1 .. p - 1 : s[k] \in S
    BY <1>1
  <2> HIDE DEF N
  <2>2. /\ a \in Seq(S) /\ Len(a) = IF 1 <= p - 1 THEN (p - 1) - 1 + 1 ELSE 0
        /\ \A k \in 1 .. (p - 1) - 1 + 1 : a[k] = s[1 + k - 1]
    BY <1>1, <2>1, SubSeqProperties
  <2> HIDE DEF a
  <2> QED BY <1>1, <2>2
<1>3. /\ b \in Seq(S) /\ Len(b) = N - p
      /\ \A k \in 1 .. N - p : b[k] = s[p + k]
  <2>1. \A k \in p + 1 .. N : s[k] \in S
    BY <1>1
  <2> HIDE DEF N
  <2>2. /\ b \in Seq(S) /\ Len(b) = IF p + 1 <= N THEN N - (p + 1) + 1 ELSE 0
        /\ \A k \in 1 .. N - (p + 1) + 1 : b[k] = s[(p + 1) + k - 1]
    BY <1>1, <2>1, SubSeqProperties
  <2> HIDE DEF b
  <2>3. Len(b) = N - p
    BY <1>1, <2>2
  <2>4. \A k \in 1 .. N - p : k \in 1 .. N - (p + 1) + 1 /\ (p + 1) + k - 1 = p + k
    BY <1>1
  <2> QED BY <2>2, <2>3, <2>4
<1>4. RemoveAt(s, p) = t
  BY DEF RemoveAt
<1> HIDE DEF a, b, N
<1>5. /\ t \in Seq(S) /\ Len(t) = N - 1
      /\ \A k \in 1 .. p - 1 : t[k] = a[k]
      /\ \A k \in 1 .. N - p : t[p - 1 + k] = b[k]
  <2>1. a \in Seq(S) /\ b \in Seq(S)
    BY <1>2, <1>3
  <2>2. /\ t \in Seq(S) /\ Len(t) = Len(a) + Len(b)
        /\ \A k \in 1 .. Len(a) : t[k] = a[k]
        /\ \A k \in 1 .. Len(b) : t[Len(a) + k] = b[k]
    BY <2>1
  <2> HIDE DEF t
  <2> QED BY <1>1, <1>2, <1>3, <2>2
<1> HIDE DEF t
<1>6. \A k \in 1 .. p - 1 : t[k] = s[k]
  BY <1>2, <1>5
<1>7. ASSUME NEW k \in p .. N - 1 PROVE t[k] = s[k + 1]
  <2>1. k + 1 - p \in 1 .. N - p /\ p - 1 + (k + 1 - p) = k /\ p + (k + 1 - p) = k + 1
    BY <1>1
  <2> QED BY <1>3, <1>5, <2>1
<1> QED BY <1>1, <1>4, <1>5, <1>6, <1>7 DEF Removes, N

LEMMA GreatestUpTo ==
    ASSUME NEW N \in Nat, NEW T \in SUBSET (1 .. N), T # {}
    PROVE  \E n \in T : \A m \in T : m <= n
<1> DEFINE U == {N - n : n \in T}
<1>1. U \in SUBSET Nat /\ U # {}
  <2>1. \A n \in T : N - n \in Nat
    OBVIOUS
  <2>2. \E n \in T : N - n \in U
    OBVIOUS
  <2> QED BY <2>1, <2>2
<1>2. PICK u \in U : \A m \in U : u <= m
  <2> HIDE DEF U
  <2> QED BY <1>1, LeastNatural
<1>3. PICK n \in T : u = N - n
  OBVIOUS
<1>4. ASSUME NEW m \in T PROVE m <= n
  <2>1. N - m \in U
    OBVIOUS
  <2>2. N - n <= N - m
    BY <1>2, <1>3, <2>1
  <2> QED BY <2>2
<1> QED BY <1>4

\* The key of an entry, and sequences that have a key only once.
Key(e) == GroupingKey(e, Grouping)
Distinct(s) == \A j, k \in DOMAIN s : Key(s[j]) = Key(s[k]) => j = k
Elements(s) == {s[k] : k \in DOMAIN s}

LEMMA AddedIs ==
    ASSUME NEW s \in Seq(Entry), NEW e \in Entry
    PROVE  LET t == Added(s, e, Grouping)
           IN  \/ /\ \E k \in DOMAIN s : Key(s[k]) = Key(e)
                  /\ t = s
               \/ /\ \A k \in DOMAIN s : Key(s[k]) # Key(e)
                  /\ t \in Seq(Entry)
                  /\ \E p \in Nat : Inserts(s, t, p, e)
<1> DEFINE t == Added(s, e, Grouping)
           smaller == {k \in DOMAIN s : Less(Key(s[k]), Key(e))}
           greatest == CHOOSE k \in smaller : \A j \in smaller : j <= k
<1>1. t = IF Places(s, e, Grouping) # {} THEN s
          ELSE IF smaller = {} THEN Append(s, e)
          ELSE InsertAt(s, greatest, e)
  BY DEF Added, Key
<1>2. Places(s, e, Grouping) = {k \in DOMAIN s : Key(s[k]) = Key(e)}
  BY DEF Places, Key
<1> HIDE DEF t
<1>3. CASE Places(s, e, Grouping) # {}
  <2>1. t = s
    BY <1>1, <1>3
  <2>2. \E k \in DOMAIN s : Key(s[k]) = Key(e)
    BY <1>2, <1>3
  <2> QED BY <2>1, <2>2 DEF t
<1>4. CASE Places(s, e, Grouping) = {} /\ smaller = {}
  <2>1. t = Append(s, e)
    BY <1>1, <1>4
  <2>2. t \in Seq(Entry) /\ Inserts(s, t, Len(s) + 1, e) /\ Len(s) + 1 \in Nat
    BY <2>1, AppendsOne
  <2> QED BY <2>2, <1>2, <1>4 DEF t
<1>5. CASE Places(s, e, Grouping) = {} /\ smaller # {}
  <2>1. t = InsertAt(s, greatest, e)
    BY <1>1, <1>5
  <2>2. greatest \in 1 .. Len(s) + 1
    <3>1. Len(s) \in Nat /\ smaller \in SUBSET (1 .. Len(s))
      OBVIOUS
    <3> HIDE DEF smaller
    <3>2. \E n \in smaller : \A m \in smaller : m <= n
      BY <3>1, <1>5, GreatestUpTo
    <3>3. greatest \in smaller
      BY <3>2
    <3> HIDE DEF greatest
    <3>4. greatest \in 1 .. Len(s)
      BY <3>1, <3>3
    <3> QED BY <3>1, <3>4
  <2> HIDE DEF greatest
  <2>3. t \in Seq(Entry) /\ Inserts(s, t, greatest, e)
    BY <2>1, <2>2, InsertsOne
  <2>4. greatest \in Nat
    BY <2>2
  <2> QED BY <2>3, <2>4, <1>2, <1>5 DEF t
<1> QED BY <1>3, <1>4, <1>5

LEMMA RemovedIs ==
    ASSUME NEW s \in Seq(Entry), NEW e \in Entry
    PROVE  LET t == Removed(s, e, Grouping)
           IN  \/ /\ \A k \in DOMAIN s : Key(s[k]) # Key(e)
                  /\ t = s
               \/ /\ t \in Seq(Entry)
                  /\ \E p \in 1 .. Len(s) : Key(s[p]) = Key(e) /\ Removes(s, t, p)
<1> DEFINE t == Removed(s, e, Grouping)
           places == Places(s, e, Grouping)
           first == CHOOSE k \in places : \A j \in places : k <= j
<1>1. t = IF places = {} THEN s ELSE RemoveAt(s, first)
  BY DEF Removed
<1>2. places = {k \in DOMAIN s : Key(s[k]) = Key(e)}
  BY DEF Places, Key
<1> HIDE DEF t, places
<1>3. CASE places = {}
  BY <1>1, <1>2, <1>3 DEF t
<1>4. CASE places # {}
  <2>1. t = RemoveAt(s, first)
    BY <1>1, <1>4
  <2>2. first \in places
    <3>1. places \in SUBSET Nat
      BY <1>2
    <3>2. \E n \in places : \A m \in places : n <= m
      BY <3>1, <1>4, LeastNatural
    <3> QED BY <3>2
  <2> HIDE DEF first
  <2>3. first \in 1 .. Len(s) /\ Key(s[first]) = Key(e)
    BY <2>2, <1>2
  <2>4. t \in Seq(Entry) /\ Removes(s, t, first)
    BY <2>1, <2>3, RemovesOne
  <2> QED BY <2>3, <2>4 DEF t
<1> QED BY <1>3, <1>4

LEMMA InsertsKey ==
    ASSUME NEW s \in Seq(Entry), NEW t \in Seq(Entry), NEW p \in Nat, NEW e \in Entry,
           Inserts(s, t, p, e)
    PROVE  /\ Elements(t) = Elements(s) \cup {e}
           /\ Distinct(s) /\ (\A k \in DOMAIN s : Key(s[k]) # Key(e)) => Distinct(t)
<1>1. /\ Len(t) = Len(s) + 1 /\ p \in 1 .. Len(s) + 1 /\ Len(s) \in Nat /\ t[p] = e
      /\ DOMAIN s = 1 .. Len(s) /\ DOMAIN t = 1 .. Len(s) + 1
      /\ \A k \in 1 .. p - 1 : t[k] = s[k]
      /\ \A k \in p .. Len(s) : t[k + 1] = s[k]
  BY DEF Inserts
\* Where an entry of the new sequence was in the old one, and the other way.
<1> DEFINE old(k) == IF k < p THEN k ELSE k - 1
           new(k) == IF k < p THEN k ELSE k + 1
<1>2. \A k \in DOMAIN t : k # p => old(k) \in DOMAIN s /\ t[k] = s[old(k)]
  <2> SUFFICES ASSUME NEW k \in DOMAIN t, k # p
               PROVE  old(k) \in DOMAIN s /\ t[k] = s[old(k)]
    OBVIOUS
  <2>1. CASE k < p
    BY <1>1, <2>1
  <2>2. CASE k > p
    <3>1. k - 1 \in p .. Len(s) /\ (k - 1) + 1 = k
      BY <1>1, <2>2
    <3>2. t[(k - 1) + 1] = s[k - 1]
      BY <1>1, <3>1
    <3> QED BY <1>1, <2>2, <3>1, <3>2
  <2> QED BY <1>1, <2>1, <2>2
<1>3. \A k \in DOMAIN s : new(k) \in DOMAIN t /\ t[new(k)] = s[k]
  BY <1>1
<1>4. \A j, k \in DOMAIN t : j # p /\ k # p /\ old(j) = old(k) => j = k
  BY <1>1
<1> HIDE DEF old, new
<1>5. Elements(t) = Elements(s) \cup {e}
  <2>1. \A k \in DOMAIN t : t[k] = e \/ t[k] \in Elements(s)
    BY <1>1, <1>2 DEF Elements
  <2>2. \A k \in DOMAIN s : s[k] \in Elements(t)
    BY <1>3 DEF Elements
  <2>3. e \in Elements(t)
    <3>1. p \in DOMAIN t /\ t[p] = e
      BY <1>1
    <3> QED BY <3>1 DEF Elements
  <2>4. Elements(t) \subseteq Elements(s) \cup {e}
    BY <2>1 DEF Elements
  <2>5. Elements(s) \subseteq Elements(t)
    BY <2>2 DEF Elements
  <2> QED BY <2>3, <2>4, <2>5
<1>6. ASSUME Distinct(s), \A k \in DOMAIN s : Key(s[k]) # Key(e)
      PROVE  Distinct(t)
  <2>1. \A j, k \in DOMAIN s : Key(s[j]) = Key(s[k]) => j = k
    BY <1>6 DEF Distinct
  <2>2. SUFFICES ASSUME NEW j \in DOMAIN t, NEW k \in DOMAIN t, Key(t[j]) = Key(t[k])
                 PROVE  j = k
    BY DEF Distinct
  <2>3. CASE j # p /\ k # p
    BY <2>1, <2>2, <2>3, <1>2, <1>4
  <2>4. CASE j = p /\ k # p
    BY <2>2, <2>4, <1>1, <1>2, <1>6
  <2>5. CASE j # p /\ k = p
    BY <2>2, <2>5, <1>1, <1>2, <1>6
  <2> QED BY <2>3, <2>4, <2>5
<1> QED BY <1>5, <1>6

LEMMA RemovesKey ==
    ASSUME NEW s \in Seq(Entry), NEW t \in Seq(Entry), NEW p \in 1 .. Len(s), Removes(s, t, p),
           Distinct(s)
    PROVE  /\ Elements(t) = {x \in Elements(s) : Key(x) # Key(s[p])}
           /\ Distinct(t)
<1>1. /\ Len(t) = Len(s) - 1 /\ p \in 1 .. Len(s) /\ Len(s) \in Nat
      /\ DOMAIN s = 1 .. Len(s) /\ DOMAIN t = 1 .. Len(s) - 1
      /\ \A k \in 1 .. p - 1 : t[k] = s[k]
      /\ \A k \in p .. Len(s) - 1 : t[k] = s[k + 1]
  BY DEF Removes
<1> DEFINE old(k) == IF k < p THEN k ELSE k + 1
           new(k) == IF k < p THEN k ELSE k - 1
<1>2. \A k \in DOMAIN t : old(k) \in DOMAIN s /\ old(k) # p /\ t[k] = s[old(k)]
  BY <1>1
<1>3. \A k \in DOMAIN s : k # p => new(k) \in DOMAIN t /\ t[new(k)] = s[k]
  <2> SUFFICES ASSUME NEW k \in DOMAIN s, k # p
               PROVE  new(k) \in DOMAIN t /\ t[new(k)] = s[k]
    OBVIOUS
  <2>1. CASE k < p
    BY <1>1, <2>1
  <2>2. CASE k > p
    <3>1. k - 1 \in p .. Len(s) - 1 /\ (k - 1) + 1 = k
      BY <1>1, <2>2
    <3>2. t[k - 1] = s[(k - 1) + 1]
      BY <1>1, <3>1
    <3> QED BY <1>1, <2>2, <3>1, <3>2
  <2> QED BY <1>1, <2>1, <2>2
<1>4. \A j, k \in DOMAIN t : old(j) = old(k) => j = k
  BY <1>1
<1>5. \A j, k \in DOMAIN s : Key(s[j]) = Key(s[k]) => j = k
  BY DEF Distinct
<1> HIDE DEF old, new
<1>6. p \in DOMAIN s
  BY <1>1
<1>7. Elements(t) = {x \in Elements(s) : Key(x) # Key(s[p])}
  <2>1. ASSUME NEW k \in DOMAIN t
        PROVE  t[k] \in Elements(s) /\ Key(t[k]) # Key(s[p])
    BY <1>2, <1>5, <1>6 DEF Elements
  <2>2. ASSUME NEW k \in DOMAIN s, Key(s[k]) # Key(s[p])
        PROVE  s[k] \in Elements(t)
    <3>1. k # p
      BY <2>2
    <3> QED BY <3>1, <1>3 DEF Elements
  <2> QED BY <2>1, <2>2 DEF Elements
<1>8. Distinct(t)
  BY <1>2, <1>4, <1>5 DEF Distinct
<1> QED BY <1>7, <1>8

-----------------------------------------------------------------------------
(* A set of packages has one package for a key.                            *)

\* All numbers of the packages fit the width that the program provides for.
AllFit == \A e \in Entry : Fits(e.version) /\ \A k \in DOMAIN e.slot : Len(e.slot[k]) <= Width

\* Strings of slots are the same if the slots are.
LEMMA SameDotted ==
    ASSUME NEW numbers \in Seq(Short), numbers # <<>>,
           NEW others \in Seq(Short), others # <<>>
    PROVE  Dotted(numbers) = Dotted(others) <=> Values(numbers) = Values(others)
<1>1. <<>> \in Seq(Int) /\ BeforeDot(<<>>) /\ ~Less(<<>>, <<>>)
  <2>1. <<>> \in Seq(Int)
    BY EmptySeq
  <2> QED BY <2>1, LessIrreflexive DEF BeforeDot
<1>2. /\ Dotted(numbers) \in Seq(Int) /\ Dotted(others) \in Seq(Int)
      /\ Cat(Dotted(numbers), <<>>) = Dotted(numbers)
      /\ Cat(Dotted(others), <<>>) = Dotted(others)
  BY <1>1, DottedIs, CatIs
<1>3. /\ Less(Dotted(numbers), Dotted(others)) <=> Less(Values(numbers), Values(others))
      /\ Less(Dotted(others), Dotted(numbers)) <=> Less(Values(others), Values(numbers))
  <2>1. Less(Cat(Dotted(numbers), <<>>), Cat(Dotted(others), <<>>))
          <=> \/ Less(Values(numbers), Values(others))
              \/ Values(numbers) = Values(others) /\ Less(<<>>, <<>>)
    BY <1>1, LessDotted
  <2>2. Less(Cat(Dotted(others), <<>>), Cat(Dotted(numbers), <<>>))
          <=> \/ Less(Values(others), Values(numbers))
              \/ Values(others) = Values(numbers) /\ Less(<<>>, <<>>)
    BY <1>1, LessDotted
  <2> QED BY <1>1, <1>2, <2>1, <2>2
<1>4. Values(numbers) \in Seq(Int) /\ Values(others) \in Seq(Int)
  <2>1. \A n \in Seq(Short), x \in Short : Values(n) \in Seq(Int)
    BY LeadNumbers
  <2>2. <<>> \in Short
    <3>1. <<>> \in Seq(Digit) /\ Len(<<>>) = 0
      OBVIOUS
    <3> QED BY <3>1, WidthAssumption DEF Short
  <2> QED BY <2>1, <2>2
<1>5. /\ Dotted(numbers) = Dotted(others)
           <=> ~Less(Dotted(numbers), Dotted(others)) /\ ~Less(Dotted(others), Dotted(numbers))
      /\ Values(numbers) = Values(others)
           <=> ~Less(Values(numbers), Values(others)) /\ ~Less(Values(others), Values(numbers))
  BY <1>2, <1>4, LessOrEqual
<1> QED BY <1>3, <1>5

LEMMA SlotIs ==
    ASSUME AllFit, NEW e \in Entry
    PROVE  e.slot \in Seq(Short) /\ e.slot # <<>>
<1> DEFINE s == e.slot
           N == Len(s)
           S == Seq(Digit)
<1>1. s \in Seq(S) /\ s # <<>>
  BY EntryAssumption
<1>2. s = [k \in 1 .. N |-> s[k]] /\ N \in Nat /\ DOMAIN s = 1 .. N /\ \A k \in 1 .. N : s[k] \in S
  <2> HIDE DEF s, S
  <2> QED BY <1>1
<1>3. \A k \in 1 .. N : s[k] \in Short
  BY <1>1, <1>2 DEF AllFit, Short
<1>4. [k \in 1 .. N |-> s[k]] \in Seq(Short)
  <2> HIDE DEF s, N
  <2> QED BY <1>2, <1>3
<1> QED BY <1>1, <1>2, <1>4

LEMMA SameKeyIs ==
    ASSUME AllFit, NEW d \in Entry, NEW e \in Entry
    PROVE  SameKey(d, e) <=> d.name = e.name /\ Key(d) = Key(e)
<1>1. /\ IsVersion(d.version) /\ Fits(d.version)
      /\ IsVersion(e.version) /\ Fits(e.version)
  BY EntryAssumption DEF AllFit
<1>2. CASE Grouping = "slot"
  <2>1. Dotted(d.slot) = Dotted(e.slot) <=> Values(d.slot) = Values(e.slot)
    BY SlotIs, SameDotted
  <2> QED BY <2>1, <1>2 DEF SameKey, Key, GroupingKey
<1>3. CASE Grouping # "slot"
  <2>1. CompVer(d.version, "eq") = CompVer(e.version, "eq") <=> SameVersion(d.version, e.version)
    <3>1. CompVer(d.version, "eq") = WholeVer(d.version) /\ CompVer(e.version, "eq") = WholeVer(e.version)
      BY <1>1, OrderOfVersions
    <3>2. WholeVer(d.version) = WholeVer(e.version) <=> SameVersion(d.version, e.version)
      BY <1>1, OrderOfVersions
    <3> QED BY <3>1, <3>2
  <2> QED BY <2>1, <1>3 DEF SameKey, Key, GroupingKey
<1> QED BY <1>2, <1>3

\* The sequences have packages of their name, and none two of one key.
SetsRight ==
    /\ atoms \in [Names -> Seq(Entry)]
    /\ \A n \in Names : \A k \in DOMAIN atoms[n] : atoms[n][k].name = n
    /\ \A n \in Names : Distinct(atoms[n])

LEMMA SetsRightInit == Init => SetsRight
<1> SUFFICES ASSUME Init PROVE SetsRight
  OBVIOUS
<1>1. atoms = [n \in Names |-> <<>>] /\ <<>> \in Seq(Entry) /\ DOMAIN <<>> = {}
  BY DEF Init
<1> QED BY <1>1 DEF SetsRight, Distinct

\* What an operation leaves of a name's sequence, and of the set.
Changes(n, t) ==
    /\ atoms' = [atoms EXCEPT ![n] = t]
    /\ t \in Seq(Entry) /\ Distinct(t)
    /\ \A k \in DOMAIN t : t[k].name = n

LEMMA SetsRightChanged ==
    ASSUME SetsRight, NEW n \in Names, NEW t, Changes(n, t)
    PROVE  /\ SetsRight'
           /\ \A x : x \in Members' <=> \/ x \in Elements(t)
                                        \/ x \in Members /\ x.name # n
           /\ \A x : x \in Elements(atoms[n]) <=> x \in Members /\ x.name = n
<1>1. /\ atoms \in [Names -> Seq(Entry)] /\ atoms' = [atoms EXCEPT ![n] = t] /\ t \in Seq(Entry)
      /\ \A m \in Names : \A k \in DOMAIN atoms[m] : atoms[m][k].name = m
  BY DEF SetsRight, Changes
<1>2. /\ atoms' \in [Names -> Seq(Entry)] /\ atoms'[n] = t
      /\ \A m \in Names : m # n => atoms'[m] = atoms[m]
  BY <1>1
<1>3. SetsRight'
  BY <1>2 DEF SetsRight, Changes, Distinct, Key
<1>4. \A x : x \in Members <=> \E m \in Names : x \in Elements(atoms[m])
  BY DEF Members, Elements
<1>5. \A x : x \in Members' <=> \E m \in Names : x \in Elements(atoms'[m])
  BY DEF Members, Elements
<1>6. \A m \in Names : \A x \in Elements(atoms[m]) : x.name = m
  BY <1>1 DEF Elements
<1>7. \A x : x \in Members' <=> \/ x \in Elements(t)
                                \/ x \in Members /\ x.name # n
  BY <1>2, <1>4, <1>5, <1>6
<1> QED BY <1>3, <1>4, <1>6, <1>7

LEMMA AddIsKeyed ==
    ASSUME AllFit, SetsRight, NEW e \in Entry, AddAtom(e)
    PROVE  SetsRight' /\ Abstract!Add(e)
<1> DEFINE n == e.name
           s == atoms[n]
           t == Added(s, e, Grouping)
<1>1. /\ n \in Names /\ s \in Seq(Entry) /\ Distinct(s)
      /\ \A k \in DOMAIN s : s[k] \in Entry /\ s[k].name = n
      /\ atoms' = [atoms EXCEPT ![n] = t]
      /\ atoms \in [Names -> Seq(Entry)]
  BY DEF SetsRight, AddAtom, Names
<1>2. \A x \in Members : x \in Entry
  BY DEF SetsRight, Members
<1> HIDE DEF n, s, t
<1>3. CASE (\E k \in DOMAIN s : Key(s[k]) = Key(e)) /\ t = s
  <2>1. atoms' = atoms
    BY <1>1, <1>3 DEF s
  <2>2. Members' = Members
    BY <2>1 DEF Members
  <2>3. PICK k \in DOMAIN s : Key(s[k]) = Key(e)
    BY <1>3
  <2>4. s[k] \in Entry /\ s[k].name = e.name /\ s[k] \in Members
    BY <1>1 DEF Members, s, n
  <2>5. SameKey(s[k], e)
    BY <2>3, <2>4, SameKeyIs
  <2>6. Abstract!Add(e)
    BY <2>2, <2>4, <2>5 DEF Abstract!Add
  <2>7. SetsRight'
    BY <2>1 DEF SetsRight, Distinct, Key
  <2> QED BY <2>6, <2>7
<1>4. CASE /\ \A k \in DOMAIN s : Key(s[k]) # Key(e)
           /\ t \in Seq(Entry)
           /\ \E p \in Nat : Inserts(s, t, p, e)
  <2>1. PICK p \in Nat : Inserts(s, t, p, e)
    BY <1>4
  <2>2. Elements(t) = Elements(s) \cup {e} /\ Distinct(t)
    BY <1>1, <1>4, <2>1, InsertsKey
  <2>3. \A x \in Elements(t) : x.name = n
    <3>1. \A x \in Elements(s) : x.name = n
      BY <1>1 DEF Elements
    <3>2. e.name = n
      BY DEF n
    <3> QED BY <2>2, <3>1, <3>2
  <2>4. Changes(n, t)
    BY <1>1, <1>4, <2>2, <2>3 DEF Changes, Elements
  <2>5. /\ SetsRight'
        /\ \A x : x \in Members' <=> x \in Elements(t) \/ (x \in Members /\ x.name # n)
        /\ \A x : x \in Elements(s) <=> x \in Members /\ x.name = n
    BY <1>1, <2>4, SetsRightChanged DEF s
  <2>6. \A x \in Members : ~SameKey(x, e)
    <3> SUFFICES ASSUME NEW x \in Members, SameKey(x, e) PROVE FALSE
      OBVIOUS
    <3>1. x.name = n /\ Key(x) = Key(e)
      BY <1>2, SameKeyIs DEF n
    <3>2. x \in Elements(s)
      BY <2>5, <3>1
    <3> QED BY <1>4, <3>1, <3>2 DEF Elements
  <2>7. Members' = Members \cup {e}
    BY <2>2, <2>5
  <2>8. Abstract!Add(e)
    BY <2>6, <2>7 DEF Abstract!Add
  <2> QED BY <2>5, <2>8
<1> QED BY <1>1, <1>3, <1>4, AddedIs DEF t

LEMMA RemoveIsKeyed ==
    ASSUME AllFit, SetsRight, NEW e \in Entry, RemoveAtom(e)
    PROVE  SetsRight' /\ Abstract!Remove(e)
<1> DEFINE n == e.name
           s == atoms[n]
           t == Removed(s, e, Grouping)
<1>1. /\ n \in Names /\ s \in Seq(Entry) /\ Distinct(s)
      /\ \A k \in DOMAIN s : s[k] \in Entry /\ s[k].name = n
      /\ atoms' = [atoms EXCEPT ![n] = t]
      /\ atoms \in [Names -> Seq(Entry)]
  BY DEF SetsRight, RemoveAtom, Names
<1>2. \A x \in Members : x \in Entry
  BY DEF SetsRight, Members
<1>3. \A x \in Members : SameKey(x, e) <=> x.name = n /\ Key(x) = Key(e)
  BY <1>2, SameKeyIs DEF n
<1> HIDE DEF n, s, t
<1>4. CASE (\A k \in DOMAIN s : Key(s[k]) # Key(e)) /\ t = s
  <2>1. Changes(n, t)
    BY <1>1, <1>4 DEF Changes
  <2>2. /\ SetsRight'
        /\ \A x : x \in Members' <=> x \in Elements(t) \/ (x \in Members /\ x.name # n)
        /\ \A x : x \in Elements(s) <=> x \in Members /\ x.name = n
    BY <1>1, <2>1, SetsRightChanged DEF s
  <2>3. \A x \in Elements(s) : Key(x) # Key(e)
    BY <1>4 DEF Elements
  <2>4. Members' = {x \in Members : ~SameKey(x, e)}
    BY <1>3, <1>4, <2>2, <2>3
  <2> QED BY <2>2, <2>4 DEF Abstract!Remove
<1>5. CASE /\ t \in Seq(Entry)
           /\ \E p \in 1 .. Len(s) : Key(s[p]) = Key(e) /\ Removes(s, t, p)
  <2>1. PICK p \in 1 .. Len(s) : Key(s[p]) = Key(e) /\ Removes(s, t, p)
    BY <1>5
  <2>2. Elements(t) = {x \in Elements(s) : Key(x) # Key(e)} /\ Distinct(t)
    BY <1>1, <1>5, <2>1, RemovesKey
  <2>3. \A x \in Elements(t) : x.name = n
    BY <1>1, <2>2 DEF Elements
  <2>4. Changes(n, t)
    BY <1>1, <1>5, <2>2, <2>3 DEF Changes, Elements
  <2>5. /\ SetsRight'
        /\ \A x : x \in Members' <=> x \in Elements(t) \/ (x \in Members /\ x.name # n)
        /\ \A x : x \in Elements(s) <=> x \in Members /\ x.name = n
    BY <1>1, <2>4, SetsRightChanged DEF s
  <2>6. Members' = {x \in Members : ~SameKey(x, e)}
    BY <1>3, <2>2, <2>5
  <2> QED BY <2>5, <2>6 DEF Abstract!Remove
<1> QED BY <1>1, <1>4, <1>5, RemovedIs DEF t

LEMMA SetsRightNext ==
    ASSUME AllFit, SetsRight, [Next]_atoms
    PROVE  SetsRight' /\ [Abstract!Next]_Members
<1>1. ASSUME NEW e \in Entry, AddAtom(e)
      PROVE  SetsRight' /\ Abstract!Next
  BY <1>1, AddIsKeyed DEF Abstract!Next
<1>2. ASSUME NEW e \in Entry, RemoveAtom(e)
      PROVE  SetsRight' /\ Abstract!Next
  BY <1>2, RemoveIsKeyed DEF Abstract!Next
<1>3. ASSUME UNCHANGED atoms
      PROVE  SetsRight' /\ UNCHANGED Members
  BY <1>3 DEF SetsRight, Distinct, Key, Members
<1> QED BY <1>1, <1>2, <1>3 DEF Next

\* Entries are in a set once for each slot or version, however the strings of
\* their slots or versions came about, and it takes the removal of that slot or
\* version to get rid of one: MCAtoms' property, as long as all numbers fit.
THEOREM SetsAreKeyed ==
    ASSUME AllFit
    PROVE  Spec => ImplementsKeyedSet
<1>1. Init => Abstract!Init
  BY DEF Init, Abstract!Init, Members
<1>2. Init => SetsRight
  BY SetsRightInit
<1>3. SetsRight /\ [Next]_atoms => SetsRight' /\ [Abstract!Next]_Members
  BY SetsRightNext
<1> QED BY <1>1, <1>2, <1>3, PTL DEF Spec, ImplementsKeyedSet, Abstract!Spec

-----------------------------------------------------------------------------
(* What lies between a string and the next.                                *)

\* t lies between g and h.
Between(t, g, h) == ~Less(t, g) /\ Less(t, h)

LEMMA BetweenLeads ==
    ASSUME NEW a \in Int, NEW b \in Int, NEW t \in Seq(Int), NEW g \in Seq(Int), NEW h \in Seq(Int)
    PROVE  Between(Lead(a, t), Lead(b, g), Lead(b, h)) <=> a = b /\ Between(t, g, h)
<1>1. Less(Lead(a, t), Lead(b, g)) <=> a < b \/ (a = b /\ Less(t, g))
  BY LeadsCompared
<1>2. Less(Lead(a, t), Lead(b, h)) <=> a < b \/ (a = b /\ Less(t, h))
  BY LeadsCompared
<1> QED BY <1>1, <1>2 DEF Between

\* Between a character and the next character is what begins with it.
LEMMA BetweenSuccessors ==
    ASSUME NEW a \in Int, NEW b \in Int, NEW t \in Seq(Int)
    PROVE  Between(Lead(a, t), Lead(b, <<>>), Lead(b + 1, <<>>)) <=> a = b
<1>1. <<>> \in Seq(Int) /\ b + 1 \in Int /\ ~Less(t, <<>>)
  BY EmptySeq, LessEmpty
<1>2. Less(Lead(a, t), Lead(b, <<>>)) <=> a < b \/ (a = b /\ Less(t, <<>>))
  BY <1>1, LeadsCompared
<1> DEFINE c == b + 1
<1>3. c \in Int
  BY <1>1
<1> HIDE DEF c
<1>4. Less(Lead(a, t), Lead(c, <<>>)) <=> a < c \/ (a = c /\ Less(t, <<>>))
  BY <1>1, <1>3, LeadsCompared
<1>5. Less(Lead(a, t), Lead(b, <<>>)) <=> a < b
  BY <1>1, <1>2
<1>6. Less(Lead(a, t), Lead(c, <<>>)) <=> a < c
  BY <1>1, <1>4
<1>7. ~(a < b) /\ a < c <=> a = b
  BY DEF c
<1> QED BY <1>5, <1>6, <1>7 DEF Between, c

LEMMA LeadCases ==
    ASSUME NEW s \in Seq(Int)
    PROVE  s = <<>> \/ \E x \in Int, t \in Seq(Int) : s = Lead(x, t)
<1>1. CASE s # <<>>
  <2>1. PICK x \in Int, t \in Seq(Int) : s = <<x>> \o t
    BY <1>1, FirstAndRest
  <2>2. s = Lead(x, t)
    BY <2>1 DEF Lead
  <2> QED BY <2>2
<1> QED BY <1>1

\* Between a string and the one whose last character is the next one is what
\* begins with the string.
LEMMA BetweenNext ==
    ASSUME NEW a \in Int
    PROVE  \A p \in Seq(Int), t \in Seq(Int) :
             Between(t, Cat(p, Lead(a, <<>>)), Cat(p, Lead(a + 1, <<>>)))
               <=> \E u \in Seq(Int) : t = Cat(Cat(p, Lead(a, <<>>)), u)
<1> DEFINE A == Lead(a, <<>>)
           B == Lead(a + 1, <<>>)
           Right(p, t) == Between(t, Cat(p, A), Cat(p, B)) <=> \E u \in Seq(Int) : t = Cat(Cat(p, A), u)
           P == {p \in Seq(Int) : \A t \in Seq(Int) : Right(p, t)}
<1>1. <<>> \in Seq(Int) /\ a + 1 \in Int
  BY EmptySeq
<1>2. /\ A \in Seq(Int) /\ B \in Seq(Int) /\ A # <<>> /\ Less(<<>>, A)
      /\ \A u \in Seq(Int) : Cat(A, u) = Lead(a, u)
      /\ \A y \in Int, t \in Seq(Int) : Between(Lead(y, t), A, B) <=> y = a
  <2>1. /\ A \in Seq(Int) /\ B \in Seq(Int) /\ A # <<>> /\ Less(<<>>, A)
        /\ \A u \in Seq(Int) : Cat(A, u) = Lead(a, Cat(<<>>, u))
    <3>1. A \in Seq(Int) /\ A # <<>> /\ B \in Seq(Int)
      BY <1>1, LeadIs
    <3>2. \A u \in Seq(Int) : Cat(A, u) = Lead(a, Cat(<<>>, u))
      BY <1>1, LeadIs
    <3>3. Less(<<>>, A)
      BY <1>1, LeadLess
    <3> QED BY <3>1, <3>2, <3>3
  <2>2. \A u \in Seq(Int) : Cat(<<>>, u) = u
    BY CatIs
  <2>3. \A y \in Int, t \in Seq(Int) : Between(Lead(y, t), A, B) <=> y = a
    BY BetweenSuccessors
  <2> HIDE DEF A, B
  <2> QED BY <2>1, <2>2, <2>3
<1> HIDE DEF A, B
<1>3. Cat(<<>>, A) = A /\ Cat(<<>>, B) = B
  BY <1>2, CatIs
<1>4. <<>> \in P
  <2>1. ASSUME NEW t \in Seq(Int), t = <<>> PROVE Right(<<>>, t)
    <3>1. ~Between(t, A, B)
      BY <1>2, <2>1 DEF Between
    <3>2. \A u \in Seq(Int) : Cat(A, u) # t
      BY <1>2, <2>1, LeadIs
    <3> QED BY <1>3, <3>1, <3>2
  <2>2. ASSUME NEW y \in Int, NEW t \in Seq(Int) PROVE Right(<<>>, Lead(y, t))
    <3>1. Between(Lead(y, t), A, B) <=> y = a
      BY <1>2
    <3>2. y = a => Lead(y, t) = Cat(A, t)
      BY <1>2
    <3>3. \A u \in Seq(Int) : Lead(y, t) = Cat(A, u) => y = a
      BY <1>2, LeadsCompared
    <3> QED BY <1>3, <3>1, <3>2, <3>3
  <2> HIDE DEF Right
  <2> QED BY <1>1, <2>1, <2>2, LeadCases
<1>5. ASSUME NEW p \in Seq(Int), NEW x \in Int, p \in P PROVE Lead(x, p) \in P
  <2> DEFINE G == Cat(p, A)
             H == Cat(p, B)
  <2>1. G \in Seq(Int) /\ H \in Seq(Int)
    BY <1>2, CatIs
  <2>2. Cat(Lead(x, p), A) = Lead(x, G) /\ Cat(Lead(x, p), B) = Lead(x, H) /\ Lead(x, p) \in Seq(Int)
    <3>1. A \in Seq(Int) /\ B \in Seq(Int)
      BY <1>2
    <3> QED BY <3>1, LeadIs
  <2>3. \A t \in Seq(Int) : Between(t, G, H) <=> \E u \in Seq(Int) : t = Cat(G, u)
    BY <1>5
  <2> HIDE DEF G, H
  <2>4. \A u \in Seq(Int) : Cat(Lead(x, G), u) = Lead(x, Cat(G, u)) /\ Cat(G, u) \in Seq(Int)
    BY <2>1, LeadIs, CatIs
  <2>5. ASSUME NEW t \in Seq(Int), t = <<>> PROVE Right(Lead(x, p), t)
    <3>1. Less(<<>>, Lead(x, G))
      BY <2>1, LeadLess
    <3>2. ~Between(t, Lead(x, G), Lead(x, H))
      BY <2>5, <3>1 DEF Between
    <3>3. \A u \in Seq(Int) : Cat(Lead(x, G), u) # t
      BY <2>4, <2>5, LeadIs
    <3> QED BY <2>2, <3>2, <3>3
  <2>6. ASSUME NEW y \in Int, NEW t \in Seq(Int) PROVE Right(Lead(x, p), Lead(y, t))
    <3>1. Between(Lead(y, t), Lead(x, G), Lead(x, H)) <=> y = x /\ Between(t, G, H)
      BY <2>1, BetweenLeads
    <3>2. \A u \in Seq(Int) : Lead(y, t) = Cat(Lead(x, G), u) <=> y = x /\ t = Cat(G, u)
      BY <2>4, LeadsCompared
    <3> QED BY <2>2, <2>3, <3>1, <3>2
  <2> HIDE DEF Right
  <2> QED BY <2>2, <2>5, <2>6, LeadCases
<1> HIDE DEF P
<1>6. Prepends(Int, P)
  BY <1>5 DEF Prepends, Lead
<1>7. \A p \in Seq(Int) : p \in P
  BY <1>4, <1>6, PrependInduction
<1> QED BY <1>7 DEF P, A, B

LEMMA PrefixIs ==
    ASSUME NEW s \in Seq(Int), NEW t \in Seq(Int)
    PROVE  IsPrefix(s, t) <=> \E u \in Seq(Int) : t = Cat(s, u)
<1>1. ASSUME IsPrefix(s, t) PROVE \E u \in Seq(Int) : t = Cat(s, u)
  <2>1. Len(s) <= Len(t) /\ SubSeq(s, 1, Len(s)) = SubSeq(t, 1, Len(s)) /\ Len(s) \in Nat /\ Len(t) \in Nat
    BY <1>1 DEF IsPrefix
  <2>2. SubSeq(s, 1, Len(s)) = s /\ SubSeq(t, 1, Len(t)) = t
    BY SubSeqFull
  <2>3. SubSeq(t, 1, Len(s)) \o SubSeq(t, Len(s) + 1, Len(t)) = SubSeq(t, 1, Len(t))
    <3>1. /\ 1 \in 1 .. Len(t) + 1 /\ Len(s) \in 1 - 1 .. Len(t)
          /\ Len(t) \in Len(s) .. Len(t)
      BY <2>1
    <3> QED BY <3>1, ConcatAdjacentSubSeq, Zenon
  <2>4. SubSeq(t, Len(s) + 1, Len(t)) \in Seq(Int)
    <3>1. \A i \in Len(s) + 1 .. Len(t) : t[i] \in Int
      BY <2>1
    <3>2. Len(s) + 1 \in Int /\ Len(t) \in Int
      BY <2>1
    <3> QED BY <3>1, <3>2, SubSeqProperties
  <2>5. t = Cat(s, SubSeq(t, Len(s) + 1, Len(t)))
    BY <2>1, <2>2, <2>3 DEF Cat
  <2> QED BY <2>4, <2>5
<1>2. ASSUME NEW u \in Seq(Int), t = Cat(s, u) PROVE IsPrefix(s, t)
  <2>1. /\ Len(t) = Len(s) + Len(u) /\ Len(s) \in Nat /\ Len(u) \in Nat
        /\ \A k \in 1 .. Len(s) : t[k] = s[k]
    BY <1>2 DEF Cat
  <2>2. SubSeq(s, 1, Len(s)) = s
    BY SubSeqFull
  <2> DEFINE q == SubSeq(t, 1, Len(s))
  <2>3. /\ q \in Seq(Int) /\ Len(q) = IF 1 <= Len(s) THEN Len(s) - 1 + 1 ELSE 0
        /\ \A i \in 1 .. Len(s) - 1 + 1 : q[i] = t[1 + i - 1]
    <3>1. \A i \in 1 .. Len(s) : t[i] \in Int
      BY <2>1
    <3>2. Len(s) \in Int
      BY <2>1
    <3> QED BY <3>1, <3>2, SubSeqProperties
  <2> HIDE DEF q
  <2>4. Len(q) = Len(s) /\ \A i \in 1 .. Len(s) : q[i] = s[i]
    BY <2>1, <2>3
  <2>5. q = s
    BY <2>3, <2>4, SeqEqual
  <2> QED BY <2>1, <2>2, <2>5 DEF IsPrefix, q
<1> QED BY <1>1, <1>2

-----------------------------------------------------------------------------
(* The next string.                                                        *)

\* The last digit that is not a nine, and what incrementing it makes of the rest.
LastLow(s, p) ==
    /\ p \in DOMAIN s /\ s[p] < Radix - 1
    /\ \A k \in DOMAIN s : k > p => s[k] = Radix - 1
Raised(s, p) == [k \in DOMAIN s |-> IF k < p THEN s[k] ELSE IF k = p THEN s[k] + 1 ELSE 0]

LEMMA AppendIs ==
    ASSUME NEW s \in Seq(Digit), NEW x \in Digit
    PROVE  Append(s, x) = [k \in 1 .. Len(s) + 1 |-> IF k <= Len(s) THEN s[k] ELSE x]
<1> DEFINE t == Append(s, x)
           N == Len(s)
<1>1. /\ N \in Nat /\ DOMAIN t = 1 .. N + 1 /\ t[N + 1] = x
      /\ \A k \in 1 .. N : t[k] = s[k]
      /\ t \in Seq(Digit)
  OBVIOUS
<1> HIDE DEF t, N
<1>2. t = [k \in 1 .. N + 1 |-> t[k]]
  BY <1>1
<1>3. \A k \in 1 .. N + 1 : t[k] = IF k <= N THEN s[k] ELSE x
  BY <1>1
<1>4. t = [k \in 1 .. N + 1 |-> IF k <= N THEN s[k] ELSE x]
  BY <1>2, <1>3
<1> QED BY <1>4 DEF t, N

LEMMA RaisedIs ==
    \A s \in Seq(Digit) : \A p : LastLow(s, p) =>
        /\ Raised(s, p) \in Seq(Digit) /\ Len(Raised(s, p)) = Len(s)
        /\ Value(Raised(s, p)) = Value(s) + 1
<1> DEFINE Right(s, p) == /\ Raised(s, p) \in Seq(Digit) /\ Len(Raised(s, p)) = Len(s)
                          /\ Value(Raised(s, p)) = Value(s) + 1
           P == {s \in Seq(Digit) : \A p : LastLow(s, p) => Right(s, p)}
<1>1. <<>> \in P
  <2>1. <<>> \in Seq(Digit) /\ DOMAIN <<>> = {}
    OBVIOUS
  <2> QED BY <2>1 DEF LastLow
<1>2. ASSUME NEW s \in Seq(Digit), NEW x \in Digit, s \in P PROVE Append(s, x) \in P
  <2> DEFINE m == Append(s, x)
             N == Len(s)
  <2>1. /\ m \in Seq(Digit) /\ Len(m) = N + 1 /\ m[N + 1] = x /\ N \in Nat
        /\ DOMAIN m = 1 .. N + 1 /\ DOMAIN s = 1 .. N
        /\ \A k \in 1 .. N : m[k] = s[k]
    OBVIOUS
  <2>2. /\ Radix \in Nat /\ Radix > 1 /\ x \in Nat /\ x < Radix
        /\ 0 \in Digit /\ Value(s) \in Nat /\ \A y \in Int : 0 <= y /\ y < Radix => y \in Digit
    BY DigitsAreNumbers DEF Digit
  <2>3. Value(m) = Value(s) * Radix + x
    BY ValueAppend
  <2> HIDE DEF m, N, P
  <2>4. SUFFICES ASSUME NEW p, LastLow(m, p) PROVE Right(m, p)
    BY <2>1 DEF P, m
  <2>5. p \in 1 .. N + 1 /\ m[p] < Radix - 1 /\ \A k \in 1 .. N + 1 : k > p => m[k] = Radix - 1
    BY <2>1, <2>4 DEF LastLow
  <2>6. CASE p = N + 1
    <3>1. x + 1 \in Digit
      BY <2>1, <2>2, <2>5, <2>6
    <3>2. Raised(m, p) = Append(s, x + 1)
      <4>1. Raised(m, p) = [k \in 1 .. N + 1 |-> IF k <= N THEN s[k] ELSE x + 1]
        BY <2>1, <2>6 DEF Raised
      <4>2. Append(s, x + 1) = [k \in 1 .. N + 1 |-> IF k <= N THEN s[k] ELSE x + 1]
        BY <2>1 DEF N
      <4> QED BY <4>1, <4>2
    <3>3. Value(Append(s, x + 1)) = Value(s) * Radix + (x + 1)
      BY <3>1, ValueAppend
    <3>4. Append(s, x + 1) \in Seq(Digit) /\ Len(Append(s, x + 1)) = N + 1
      BY <3>1 DEF N
    <3>5. Value(s) * Radix \in Int
      BY <2>2
    <3>6. Value(s) * Radix + (x + 1) = Value(m) + 1
      BY <2>2, <2>3, <3>5
    <3> QED BY <2>1, <3>2, <3>3, <3>4, <3>6
  <2>7. CASE p \in 1 .. N
    <3>1. x = Radix - 1
      BY <2>1, <2>5, <2>7
    <3>2. LastLow(s, p)
      BY <2>1, <2>5, <2>7 DEF LastLow
    <3>3. Right(s, p)
      BY <1>2, <3>2 DEF P
    <3> DEFINE r == Raised(s, p)
    <3>4. r \in Seq(Digit) /\ Len(r) = N /\ Value(r) = Value(s) + 1
      BY <3>3 DEF N
    <3>5. \A k \in 1 .. N : r[k] = IF k < p THEN m[k] ELSE IF k = p THEN m[k] + 1 ELSE 0
      BY <2>1 DEF Raised
    <3> HIDE DEF r
    <3>6. Raised(m, p) = Append(r, 0)
      <4>1. Raised(m, p) = [k \in 1 .. N + 1 |-> IF k <= N THEN r[k] ELSE 0]
        BY <2>1, <2>7, <3>5 DEF Raised
      <4>2. Append(r, 0) = [k \in 1 .. N + 1 |-> IF k <= N THEN r[k] ELSE 0]
        <5>1. r \in Seq(Digit) /\ Len(r) = N /\ 0 \in Digit
          BY <2>2, <3>4
        <5>2. Append(r, 0) = [k \in 1 .. Len(r) + 1 |-> IF k <= Len(r) THEN r[k] ELSE 0]
          BY <5>1, AppendIs
        <5> QED BY <5>1, <5>2
      <4> QED BY <4>1, <4>2
    <3>7. Value(Append(r, 0)) = Value(r) * Radix + 0
      BY <2>2, <3>4, ValueAppend
    <3>8. Append(r, 0) \in Seq(Digit) /\ Len(Append(r, 0)) = N + 1
      BY <2>2, <3>4
    <3>9. (Value(s) + 1) * Radix + 0 = Value(s) * Radix + (Radix - 1) + 1
      BY <2>2
    <3> QED BY <2>1, <2>3, <3>1, <3>4, <3>6, <3>7, <3>8, <3>9
  <2> QED BY <2>1, <2>5, <2>6, <2>7
<1> HIDE DEF P
<1>3. \A s \in Seq(Digit) : s \in P
  BY <1>1, <1>2, AppendInduction
<1> QED BY <1>3 DEF P

LEMMA IncrementIs ==
    ASSUME NEW digits \in Seq(Digit), ~Overflows(digits)
    PROVE  LET next == IncrementDecimal(digits)
           IN  /\ next \in Seq(Digit) /\ Len(next) = Len(digits)
               /\ Value(next) = Value(digits) + 1
<1> DEFINE low == {k \in DOMAIN digits : digits[k] < Radix - 1}
           p == CHOOSE n \in DOMAIN digits :
                  /\ digits[n] < Radix - 1
                  /\ \A k \in DOMAIN digits : k > n => digits[k] = Radix - 1
<1>1. DOMAIN digits = 1 .. Len(digits) /\ Len(digits) \in Nat
  OBVIOUS
<1>2. \A k \in DOMAIN digits : digits[k] \in Int /\ digits[k] <= Radix - 1
  <2>1. \A k \in DOMAIN digits : digits[k] \in Digit
    OBVIOUS
  <2> QED BY <2>1, RadixAssumption DEF Digit
<1>3. low \in SUBSET (1 .. Len(digits)) /\ low # {}
  <2>1. Radix \in Int
    BY RadixAssumption
  <2>2. PICK k \in DOMAIN digits : digits[k] # Radix - 1
    BY DEF Overflows
  <2>3. k \in low
    BY <1>2, <2>1, <2>2
  <2> QED BY <1>1, <2>3
<1>4. PICK n \in low : \A m \in low : m <= n
  <2> HIDE DEF low
  <2> QED BY <1>1, <1>3, GreatestUpTo
<1>5. \A k \in DOMAIN digits : k > n => digits[k] = Radix - 1
  <2>1. Radix \in Int
    BY RadixAssumption
  <2>2. SUFFICES ASSUME NEW k \in DOMAIN digits, k > n, digits[k] # Radix - 1 PROVE FALSE
    OBVIOUS
  <2>3. k \in low
    BY <1>2, <2>1, <2>2
  <2>4. k <= n /\ k \in Int /\ n \in Int
    BY <1>1, <1>3, <1>4, <2>3
  <2> QED BY <2>2, <2>4
<1>6. LastLow(digits, p)
  <2>1. n \in DOMAIN digits /\ digits[n] < Radix - 1
    OBVIOUS
  <2>2. \E m \in DOMAIN digits : /\ digits[m] < Radix - 1
                                 /\ \A k \in DOMAIN digits : k > m => digits[k] = Radix - 1
    BY <1>5, <2>1
  <2> HIDE DEF low
  <2> QED BY <2>2 DEF LastLow
<1>7. IncrementDecimal(digits) = Raised(digits, p)
  BY DEF IncrementDecimal, Raised
<1> HIDE DEF p
<1> QED BY <1>6, <1>7, RaisedIs

\* What comes before a number at the end of a string.
EndsBefore(s) == s = <<>> \/ ~IsDigitChar(s[Len(s)])

LEMMA FrontOfCat ==
    ASSUME NEW s \in Seq(Int), NEW t \in Seq(Int)
    PROVE  /\ SubSeq(Cat(s, t), 1, Len(s)) = s
           /\ Len(Cat(s, t)) = Len(s) + Len(t) /\ Len(s) \in Nat /\ Len(t) \in Nat
           /\ \A k \in 1 .. Len(s) : Cat(s, t)[k] = s[k]
           /\ \A k \in 1 .. Len(t) : Cat(s, t)[Len(s) + k] = t[k]
<1> DEFINE c == s \o t
<1>1. /\ Len(c) = Len(s) + Len(t) /\ Len(s) \in Nat /\ Len(t) \in Nat
      /\ \A k \in 1 .. Len(s) : c[k] = s[k] /\ c[k] \in Int
      /\ \A k \in 1 .. Len(t) : c[Len(s) + k] = t[k]
  OBVIOUS
<1> DEFINE q == SubSeq(c, 1, Len(s))
<1> HIDE DEF c
<1>2. /\ q \in Seq(Int) /\ Len(q) = IF 1 <= Len(s) THEN Len(s) - 1 + 1 ELSE 0
      /\ \A i \in 1 .. Len(s) - 1 + 1 : q[i] = c[1 + i - 1]
  <2>1. Len(s) \in Int /\ \A i \in 1 .. Len(s) : c[i] \in Int
    BY <1>1
  <2> QED BY <2>1, SubSeqProperties
<1> HIDE DEF q
<1>3. Len(q) = Len(s) /\ \A i \in 1 .. Len(s) : q[i] = s[i]
  BY <1>1, <1>2
<1>4. q = s
  BY <1>2, <1>3, SeqEqual
<1> QED BY <1>1, <1>4 DEF Cat, c, q

\* The number at the end of a string is incremented.
LEMMA NextOfNumber ==
    ASSUME NEW s \in Seq(Int), EndsBefore(s), NEW d \in Short,
           NextVerEnds(Cat(s, Number(d)))
    PROVE  \E n \in Short : /\ n # <<>> /\ Value(n) = Value(d) + 1
                            /\ MakeNextVer(Cat(s, Number(d))) = Cat(s, Number(n))
<1> DEFINE c == Cat(s, Number(d))
           pad == PadNumericSegment(d)
           N == Len(s)
<1>1. /\ Number(d) \in Seq(Int) /\ Len(Number(d)) = Width
      /\ \A k \in 1 .. Width : IsDigitChar(Number(d)[k])
      /\ \A k \in 1 .. Width : DigitOf(Number(d)[k]) = pad[k]
      /\ pad \in Seq(Digit) /\ Len(pad) = Width /\ Value(pad) = Value(d)
  BY NumberIs, Padded DEF Short
<1>2. Width \in Nat /\ Width > 0
  BY WidthAssumption
<1>3. /\ SubSeq(c, 1, N) = s /\ Len(c) = N + Width /\ N \in Nat
      /\ \A k \in 1 .. N : c[k] = s[k]
      /\ \A k \in 1 .. Width : c[N + k] = Number(d)[k]
  BY <1>1, FrontOfCat
<1>4. N = 0 \/ (N \in 1 .. N /\ ~IsDigitChar(c[N]))
  <2>1. s = <<>> => N = 0
    OBVIOUS
  <2>2. N = 0 \/ N \in 1 .. N
    BY <1>3
  <2> QED BY <1>3, <2>1, <2>2 DEF EndsBefore
<1> HIDE DEF c, pad, N
<1>5. \A k \in N + 1 .. N + Width : IsDigitChar(c[k])
  <2> SUFFICES ASSUME NEW k \in N + 1 .. N + Width PROVE IsDigitChar(c[k])
    OBVIOUS
  <2>1. k - N \in 1 .. Width /\ N + (k - N) = k
    BY <1>2, <1>3
  <2>2. c[N + (k - N)] = Number(d)[k - N] /\ IsDigitChar(Number(d)[k - N])
    BY <1>1, <1>3, <2>1
  <2> QED BY <2>1, <2>2
<1>6. Stem(c) = N
  <2> DEFINE Ends(n) == /\ \A k \in n + 1 .. Len(c) : IsDigitChar(c[k])
                        /\ n > 0 => ~IsDigitChar(c[n])
  <2>1. N \in 0 .. Len(c) /\ Ends(N)
    BY <1>2, <1>3, <1>4, <1>5
  <2>2. \A n \in 0 .. Len(c) : Ends(n) => n = N
    <3> SUFFICES ASSUME NEW n \in 0 .. Len(c), Ends(n) PROVE n = N
      OBVIOUS
    <3>1. CASE n < N
      <4>1. N \in n + 1 .. Len(c) /\ N # 0
        BY <1>2, <1>3, <3>1
      <4> QED BY <1>4, <4>1
    <3>2. CASE n > N
      <4>1. n \in N + 1 .. N + Width /\ n > 0
        BY <1>2, <1>3, <3>2
      <4> QED BY <1>5, <4>1
    <3> QED BY <1>3, <3>1, <3>2
  <2>3. Stem(c) = CHOOSE n \in 0 .. Len(c) : Ends(n)
    BY DEF Stem
  <2> HIDE DEF Ends
  <2>4. (CHOOSE n \in 0 .. Len(c) : Ends(n)) = N
    BY <2>1, <2>2
  <2> QED BY <2>3, <2>4
<1>7. Run(c) = pad
  <2>1. Run(c) = [k \in 1 .. Len(c) - N |-> DigitOf(c[N + k])]
    BY <1>6 DEF Run
  <2>2. Len(c) - N = Width
    BY <1>2, <1>3
  <2>3. Run(c) = [k \in 1 .. Width |-> pad[k]]
    BY <2>1, <2>2, <1>1, <1>3
  <2>4. pad = [k \in 1 .. Width |-> pad[k]]
    BY <1>1
  <2> QED BY <2>3, <2>4
<1> DEFINE next == IncrementDecimal(pad)
<1>8. /\ next \in Seq(Digit) /\ Len(next) = Width /\ Value(next) = Value(d) + 1
      /\ next # <<>>
  <2>1. pad # <<>>
    BY <1>1, <1>2
  <2>2. ~Overflows(pad)
    BY <1>7, <2>1 DEF NextVerEnds, c
  <2>3. next \in Seq(Digit) /\ Len(next) = Width /\ Value(next) = Value(d) + 1
    BY <1>1, <2>2, IncrementIs
  <2> HIDE DEF next
  <2> QED BY <1>2, <2>3
<1> HIDE DEF next
<1>9. next \in Short
  BY <1>2, <1>8 DEF Short
<1>10. PadNumericSegment(next) = next
  <2>1. PadNumericSegment(next) = [k \in 1 .. 0 |-> 0] \o next
    BY <1>2, <1>8 DEF PadNumericSegment
  <2>2. [k \in 1 .. 0 |-> 0] = <<>> /\ <<>> \o next = next
    BY <1>8
  <2> QED BY <2>1, <2>2
<1>11. Number(next) = [k \in DOMAIN next |-> DigitChar(next[k])]
  BY <1>10 DEF Number
<1>12. IsDigitChar(c[Len(c)])
  <2>1. Len(c) \in N + 1 .. N + Width
    BY <1>2, <1>3
  <2> QED BY <1>5, <2>1
<1>13. MakeNextVer(c) = SubSeq(c, 1, N) \o Number(next)
  BY <1>6, <1>7, <1>11, <1>12 DEF MakeNextVer, next
<1>14. MakeNextVer(c) = Cat(s, Number(next))
  BY <1>3, <1>13 DEF Cat
<1> QED BY <1>8, <1>9, <1>14 DEF c

\* Otherwise the last character of a string is a letter, and the next letter is
\* taken, or the character after the space before a z.
LEMMA NextOfLetter ==
    ASSUME NEW s \in Seq(Int), NEW x \in Int, ~IsDigitChar(x), x < z
    PROVE  MakeNextVer(Cat(s, Lead(x, <<>>))) = Cat(s, Lead(x + 1, <<>>))
<1> DEFINE t == Lead(x, <<>>)
           c == Cat(s, t)
           n == Len(c)
<1>1. t = <<x>> /\ t \in Seq(Int) /\ Len(t) = 1 /\ t[1] = x
  BY DEF Lead
<1> HIDE DEF t
<1>2. /\ SubSeq(c, 1, Len(s)) = s /\ n = Len(s) + 1 /\ Len(s) \in Nat
      /\ c[n] = x
  <2>1. 1 \in 1 .. Len(t)
    BY <1>1
  <2>2. /\ SubSeq(c, 1, Len(s)) = s /\ n = Len(s) + 1 /\ Len(s) \in Nat
        /\ c[Len(s) + 1] = x
    BY <1>1, <2>1, FrontOfCat
  <2> HIDE DEF c, n
  <2> QED BY <2>2
<1> HIDE DEF c, n
<1>3. n - 1 = Len(s)
  BY <1>2
<1>4. MakeNextVer(c) = SubSeq(c, 1, n - 1) \o <<c[n] + 1>>
  BY <1>2 DEF MakeNextVer, n
<1>5. MakeNextVer(c) = s \o <<x + 1>>
  BY <1>2, <1>3, <1>4
<1>6. Lead(x + 1, <<>>) = <<x + 1>>
  BY DEF Lead
<1> QED BY <1>5, <1>6 DEF Cat, c, t

LEMMA NextOfLastLetter ==
    ASSUME NEW s \in Seq(Int), NEW y \in Int, NEW x \in Int, ~IsDigitChar(x), ~(x < z)
    PROVE  MakeNextVer(Cat(s, Lead(y, Lead(x, <<>>)))) = Cat(s, Lead(y + 1, <<>>))
<1> DEFINE t == Lead(y, Lead(x, <<>>))
           c == Cat(s, t)
           n == Len(c)
<1>1. t = <<y, x>> /\ t \in Seq(Int) /\ Len(t) = 2 /\ t[1] = y /\ t[2] = x
  <2>1. <<>> \in Seq(Int)
    BY EmptySeq
  <2>2. <<y, x>> \o <<>> = Lead(y, Lead(x, <<>>))
    BY <2>1, TwoLeads
  <2>3. <<y, x>> \o <<>> = <<y, x>> /\ <<y, x>> \in Seq(Int)
    OBVIOUS
  <2>4. t = <<y, x>>
    BY <2>2, <2>3
  <2> HIDE DEF t
  <2> QED BY <2>3, <2>4
<1> HIDE DEF t
<1>2. /\ SubSeq(c, 1, Len(s)) = s /\ n = Len(s) + 2 /\ Len(s) \in Nat
      /\ c[n] = x /\ c[n - 1] = y
  <2>1. 1 \in 1 .. Len(t) /\ 2 \in 1 .. Len(t)
    BY <1>1
  <2>4. /\ SubSeq(c, 1, Len(s)) = s /\ n = Len(s) + Len(t) /\ Len(s) \in Nat
        /\ \A k \in 1 .. Len(t) : c[Len(s) + k] = t[k]
    BY <1>1, FrontOfCat
  <2> HIDE DEF c, n
  <2>2. /\ SubSeq(c, 1, Len(s)) = s /\ n = Len(s) + 2 /\ Len(s) \in Nat
        /\ c[Len(s) + 1] = y /\ c[Len(s) + 2] = x
    BY <1>1, <2>1, <2>4
  <2>3. n - 1 = Len(s) + 1
    BY <2>2
  <2> QED BY <2>2, <2>3
<1> HIDE DEF c, n
<1>3. n - 1 - 1 = Len(s)
  BY <1>2
<1>4. MakeNextVer(c) = SubSeq(c, 1, n - 1 - 1) \o <<c[n - 1] + 1>>
  BY <1>2 DEF MakeNextVer, n
<1>5. MakeNextVer(c) = s \o <<y + 1>>
  BY <1>2, <1>3, <1>4
<1>6. Lead(y + 1, <<>>) = <<y + 1>>
  BY DEF Lead
<1> QED BY <1>5, <1>6 DEF Cat, c, t

-----------------------------------------------------------------------------
(* Ranges.                                                                 *)

LEMMA BetweenTails ==
    ASSUME NEW numbers \in Seq(Short), numbers # <<>>,
           NEW others \in Seq(Short), others # <<>>,
           NEW t \in Seq(Int), BeforeDot(t),
           NEW g \in Seq(Int), BeforeDot(g), NEW h \in Seq(Int), BeforeDot(h)
    PROVE  Between(Cat(Dotted(numbers), t), Cat(Dotted(others), g), Cat(Dotted(others), h))
             <=> Values(numbers) = Values(others) /\ Between(t, g, h)
<1>1. Less(Cat(Dotted(numbers), t), Cat(Dotted(others), g))
        <=> \/ Less(Values(numbers), Values(others))
            \/ Values(numbers) = Values(others) /\ Less(t, g)
  BY LessDotted
<1>2. Less(Cat(Dotted(numbers), t), Cat(Dotted(others), h))
        <=> \/ Less(Values(numbers), Values(others))
            \/ Values(numbers) = Values(others) /\ Less(t, h)
  BY LessDotted
<1>3. Less(Values(numbers), Values(others)) => Values(numbers) # Values(others)
  <2>1. Values(numbers) \in Seq(Int)
    <3>1. PICK n \in Short, rest \in Seq(Short) : numbers = Lead(n, rest)
      BY LeadFirst
    <3> QED BY <3>1, LeadNumbers
  <2> QED BY <2>1, LessIrreflexive
<1> QED BY <1>1, <1>2, <1>3 DEF Between

LEMMA BetweenLettered ==
    ASSUME NEW l \in 0 .. 26, NEW m \in 0 .. 26,
           NEW q \in Seq(Int), NEW g \in Seq(Int), NEW h \in Seq(Int)
    PROVE  Between(Lettered(l, Under(q)), Lettered(m, Under(g)), Lettered(m, Under(h)))
             <=> l = m /\ Between(q, g, h)
<1>1. Less(Lettered(l, Under(q)), Lettered(m, Under(g))) <=> l < m \/ (l = m /\ Less(q, g))
  BY LessLettered
<1>2. Less(Lettered(l, Under(q)), Lettered(m, Under(h))) <=> l < m \/ (l = m /\ Less(q, h))
  BY LessLettered
<1> QED BY <1>1, <1>2 DEF Between

LEMMA EndsWith ==
    ASSUME NEW s \in Seq(Int), NEW x \in Int, ~IsDigitChar(x)
    PROVE  EndsBefore(Cat(s, Lead(x, <<>>)))
<1> DEFINE t == Lead(x, <<>>)
           c == Cat(s, t)
<1>1. t \in Seq(Int) /\ Len(t) = 1 /\ t[1] = x
  BY DEF Lead
<1> HIDE DEF t
<1>2. Len(c) = Len(s) + 1 /\ c[Len(s) + 1] = x
  <2>1. 1 \in 1 .. Len(t)
    BY <1>1
  <2>2. Len(c) = Len(s) + Len(t) /\ \A k \in 1 .. Len(t) : c[Len(s) + k] = t[k]
    BY <1>1, FrontOfCat
  <2> HIDE DEF c
  <2> QED BY <1>1, <2>1, <2>2
<1> HIDE DEF c
<1>3. c[Len(c)] = x
  BY <1>2
<1> QED BY <1>3 DEF EndsBefore, c, t

\* The last of the numbers of a version.
LEMMA LastNumber ==
    ASSUME NEW p \in Seq(Short), NEW d \in Short
    PROVE  /\ AfterDots(Append(p, d)) = Cat(AfterDots(p), Lead(Dot, Number(d)))
           /\ Values(Append(p, d)) = Cat(Values(p), Lead(Value(d), <<>>))
           /\ Append(p, d) \in Seq(Short) /\ Append(p, d) # <<>>
           /\ Values(p) \in Seq(Int) /\ AfterDots(p) \in Seq(Int)
           /\ Value(d) \in Int /\ Number(d) \in Seq(Int)
<1> DEFINE more == Append(p, d)
           N == Len(p)
           strings(u) == [k \in DOMAIN u |-> Number(u[k])]
<1>1. /\ N \in Nat /\ DOMAIN p = 1 .. N /\ DOMAIN more = 1 .. N + 1 /\ more[N + 1] = d
      /\ \A k \in 1 .. N : more[k] = p[k] /\ p[k] \in Short
      /\ more \in Seq(Short) /\ more # <<>>
  OBVIOUS
<1> HIDE DEF more, N
<1>2. Dot \in Int /\ \A c \in Short : Number(c) \in Seq(Int) /\ Value(c) \in Int
  BY CatNumbers DEF Dot
<1>3. /\ strings(p) \in Seq(Seq(Int)) /\ Len(strings(p)) = N
      /\ Append(strings(p), Number(d)) = [k \in 1 .. N + 1 |-> IF k <= N THEN Number(p[k]) ELSE Number(d)]
  <2> DEFINE String == Seq(Int)
             q == strings(p)
  <2>1. q = [k \in 1 .. N |-> Number(p[k])]
    BY <1>1
  <2>2. \A k \in 1 .. N : Number(p[k]) \in String
    BY <1>1, <1>2
  <2>3. Number(d) \in String
    BY <1>2
  <2> HIDE DEF String, q
  <2>4. q \in Seq(String) /\ Len(q) = N /\ \A k \in 1 .. N : q[k] = Number(p[k])
    BY <1>1, <2>1, <2>2
  <2> DEFINE a == Append(q, Number(d))
  <2>5. /\ DOMAIN a = 1 .. N + 1 /\ a[N + 1] = Number(d)
        /\ \A k \in 1 .. N : a[k] = q[k]
        /\ a \in Seq(String)
    BY <1>1, <2>3, <2>4
  <2> HIDE DEF a
  <2>6. a = [k \in 1 .. N + 1 |-> a[k]]
    BY <2>5
  <2>7. \A k \in 1 .. N + 1 : a[k] = IF k <= N THEN Number(p[k]) ELSE Number(d)
    BY <1>1, <2>4, <2>5
  <2>8. a = [k \in 1 .. N + 1 |-> IF k <= N THEN Number(p[k]) ELSE Number(d)]
    BY <2>6, <2>7
  <2> QED BY <2>4, <2>8 DEF a, q, String
<1>4. strings(more) = [k \in 1 .. N + 1 |-> IF k <= N THEN Number(p[k]) ELSE Number(d)]
  <2>1. \A k \in 1 .. N + 1 : Number(more[k]) = IF k <= N THEN Number(p[k]) ELSE Number(d)
    BY <1>1
  <2> QED BY <1>1, <2>1
<1> HIDE DEF strings
<1>5. Separated(Dot, Append(strings(p), Number(d)))
        = Separated(Dot, strings(p)) \o <<Dot>> \o Number(d)
  <2> DEFINE q == strings(p)
             n == Number(d)
  <2>1. q \in Seq(Seq(Int)) /\ n \in Seq(Int) /\ Dot \in Int
    BY <1>2, <1>3
  <2> HIDE DEF q, n
  <2>2. Separated(Dot, Append(q, n)) = Separated(Dot, q) \o <<Dot>> \o n
    BY <2>1, SeparatedAppend
  <2> QED BY <2>2 DEF q, n
<1>6. AfterDots(p) \in Seq(Int) /\ Values(p) \in Seq(Int)
  BY LeadNumbers
<1> DEFINE a == Separated(Dot, strings(p))
           b == <<Dot>>
           c == Number(d)
<1>7. (a \o b) \o c = a \o (b \o c)
  <2>1. a \in Seq(Int) /\ b \in Seq(Int) /\ c \in Seq(Int)
    BY <1>2, <1>6 DEF AfterDots, strings
  <2> HIDE DEF a, b, c
  <2>2. Cat(Cat(a, b), c) = Cat(a, Cat(b, c))
    BY <2>1, CatIs
  <2> QED BY <2>2 DEF Cat
<1>8. AfterDots(more) = Cat(AfterDots(p), Lead(Dot, Number(d)))
  <2>1. Separated(Dot, strings(more)) = a \o (b \o c)
    BY <1>3, <1>4, <1>5, <1>7
  <2> QED BY <2>1 DEF AfterDots, strings, Cat, Lead
<1>9. Values(more) = Cat(Values(p), Lead(Value(d), <<>>))
  <2> DEFINE q == Values(p)
  <2>1. q = [k \in 1 .. N |-> Value(p[k])] /\ q \in Seq(Int) /\ Value(d) \in Int
    BY <1>1, <1>2, <1>6 DEF Values
  <2> HIDE DEF q
  <2>2. Len(q) = N /\ \A k \in 1 .. N : q[k] = Value(p[k])
    BY <1>1, <2>1
  <2> DEFINE w == Append(q, Value(d))
  <2>3. /\ DOMAIN w = 1 .. N + 1 /\ w[N + 1] = Value(d)
        /\ \A k \in 1 .. N : w[k] = q[k]
        /\ w \in Seq(Int)
    BY <1>1, <2>1, <2>2
  <2>4. w = q \o <<Value(d)>>
    BY <2>1, AppendIsConcat
  <2> HIDE DEF w
  <2>5. w = [k \in 1 .. N + 1 |-> w[k]]
    BY <2>3
  <2>6. \A k \in 1 .. N + 1 : w[k] = Value(more[k])
    BY <1>1, <2>2, <2>3
  <2>7. w = Values(more)
    BY <1>1, <2>5, <2>6 DEF Values
  <2>8. Lead(Value(d), <<>>) = <<Value(d)>>
    BY DEF Lead
  <2> QED BY <2>4, <2>7, <2>8 DEF Cat, q
<1> QED BY <1>1, <1>2, <1>6, <1>8, <1>9 DEF more

\* What is before it in the string.
LEMMA FrontOfDotted ==
    ASSUME NEW p \in Seq(Short)
    PROVE  \E s \in Seq(Int) : /\ EndsBefore(s)
                               /\ \A d \in Short : Dotted(Append(p, d)) = Cat(s, Number(d))
<1>1. Dot \in Int /\ ~IsDigitChar(Dot) /\ <<>> \in Seq(Int)
  BY EmptySeq DEF Dot, IsDigitChar
<1>2. ASSUME NEW d \in Short
      PROVE  /\ Lead(Dot, Dotted(Append(p, d))) = Cat(AfterDots(p), Lead(Dot, Number(d)))
             /\ Dotted(Append(p, d)) \in Seq(Int) /\ Number(d) \in Seq(Int)
             /\ Lead(Dot, Number(d)) \in Seq(Int)
  <2>1. Append(p, d) \in Seq(Short) /\ Append(p, d) # <<>> /\ Number(d) \in Seq(Int)
    BY LastNumber
  <2>2. Dotted(Append(p, d)) \in Seq(Int) /\ AfterDots(Append(p, d)) = Lead(Dot, Dotted(Append(p, d)))
    BY <2>1, DottedIs
  <2> QED BY <1>1, <2>1, <2>2, LastNumber, LeadIs
<1>3. CASE p = <<>>
  <2>1. AfterDots(p) = <<>>
    <3>1. <<>> \in Short
      BY WidthAssumption DEF Short
    <3> QED BY <1>3, <3>1, LeadNumbers
  <2>2. ASSUME NEW d \in Short PROVE Dotted(Append(p, d)) = Cat(<<>>, Number(d))
    <3>1. Lead(Dot, Dotted(Append(p, d))) = Lead(Dot, Number(d))
      BY <1>2, <2>1, CatIs
    <3>2. Dotted(Append(p, d)) = Number(d)
      BY <1>1, <1>2, <3>1, LeadsCompared
    <3> QED BY <1>2, <3>2, CatIs
  <2> QED BY <1>1, <2>2 DEF EndsBefore
<1>4. CASE p # <<>>
  <2> DEFINE a == Dotted(p)
             e == Lead(Dot, <<>>)
  <2>1. a \in Seq(Int) /\ AfterDots(p) = Lead(Dot, a)
    BY <1>4, DottedIs
  <2>2. e \in Seq(Int) /\ Cat(a, e) \in Seq(Int)
    BY <1>1, <2>1, LeadIs, CatIs
  <2>3. EndsBefore(Cat(a, e))
    BY <1>1, <2>1, EndsWith
  <2>4. ASSUME NEW d \in Short PROVE Dotted(Append(p, d)) = Cat(Cat(a, e), Number(d))
    <3> DEFINE n == Number(d)
               x == Dotted(Append(p, d))
    <3>1. /\ Lead(Dot, x) = Cat(Lead(Dot, a), Lead(Dot, n))
          /\ x \in Seq(Int) /\ n \in Seq(Int) /\ Lead(Dot, n) \in Seq(Int)
      BY <1>2, <2>1
    <3> HIDE DEF a, n, x
    <3>2. Cat(Lead(Dot, a), Lead(Dot, n)) = Lead(Dot, Cat(a, Lead(Dot, n)))
      BY <1>1, <2>1, <3>1, LeadIs
    <3>3. Cat(a, Lead(Dot, n)) \in Seq(Int)
      BY <2>1, <3>1, CatIs
    <3>4. x = Cat(a, Lead(Dot, n))
      BY <1>1, <3>1, <3>2, <3>3, LeadsCompared
    <3>5. Cat(e, n) = Lead(Dot, n)
      <4>1. Cat(e, n) = Lead(Dot, Cat(<<>>, n))
        <5>1. Dot \in Int /\ <<>> \in Seq(Int)
          BY <1>1
        <5>2. \A u \in Seq(Int) : Cat(Lead(Dot, <<>>), u) = Lead(Dot, Cat(<<>>, u))
          BY <5>1, LeadIs
        <5> QED BY <3>1, <5>2
      <4> QED BY <3>1, <4>1, CatIs
    <3> HIDE DEF e
    <3>6. Cat(Cat(a, e), n) = Cat(a, Cat(e, n))
      BY <2>1, <2>2, <3>1, CatIs
    <3> QED BY <3>4, <3>5, <3>6 DEF n, x
  <2> HIDE DEF a, e
  <2> QED BY <2>2, <2>3, <2>4
<1> QED BY <1>3, <1>4

\* In the range of some numbers are the versions that begin with these.
LEMMA RangeOfNumbers ==
    ASSUME NEW numbers \in Seq(Short), numbers # <<>>,
           NEW others \in Seq(Short), others # <<>>,
           NEW t \in Seq(Int), BeforeDot(t), NextVerEnds(Dotted(others))
    PROVE  Between(Cat(Dotted(numbers), t), Dotted(others), MakeNextVer(Dotted(others)))
             <=> IsPrefix(Values(others), Values(numbers))
<1>1. <<>> \in Seq(Int) /\ BeforeDot(<<>>) /\ ~Less(t, <<>>)
  BY EmptySeq, LessEmpty DEF BeforeDot
<1>2. PICK p \in Seq(Short), d \in Short : others = Append(p, d)
  BY SequenceEmptyOrAppend
<1>3. PICK s \in Seq(Int) : /\ EndsBefore(s)
                            /\ \A c \in Short : Dotted(Append(p, c)) = Cat(s, Number(c))
  BY FrontOfDotted
<1>4. PICK n \in Short : Value(n) = Value(d) + 1
                         /\ MakeNextVer(Cat(s, Number(d))) = Cat(s, Number(n))
  <2>1. NextVerEnds(Cat(s, Number(d)))
    BY <1>2, <1>3
  <2> QED BY <1>3, <2>1, NextOfNumber
<1>5. /\ Append(p, n) \in Seq(Short) /\ Append(p, n) # <<>>
      /\ MakeNextVer(Dotted(others)) = Dotted(Append(p, n))
  BY <1>2, <1>3, <1>4, LastNumber
<1>6. /\ Dotted(others) \in Seq(Int) /\ Cat(Dotted(others), <<>>) = Dotted(others)
      /\ Dotted(Append(p, n)) \in Seq(Int)
      /\ Cat(Dotted(Append(p, n)), <<>>) = Dotted(Append(p, n))
  BY <1>1, <1>5, DottedIs, CatIs
<1>7. Less(Cat(Dotted(numbers), t), Dotted(others)) <=> Less(Values(numbers), Values(others))
  <2>1. Less(Cat(Dotted(numbers), t), Cat(Dotted(others), <<>>))
          <=> \/ Less(Values(numbers), Values(others))
              \/ Values(numbers) = Values(others) /\ Less(t, <<>>)
    BY <1>1, LessDotted
  <2> QED BY <1>1, <1>6, <2>1
<1>8. Less(Cat(Dotted(numbers), t), Dotted(Append(p, n)))
        <=> Less(Values(numbers), Values(Append(p, n)))
  <2>1. Less(Cat(Dotted(numbers), t), Cat(Dotted(Append(p, n)), <<>>))
          <=> \/ Less(Values(numbers), Values(Append(p, n)))
              \/ Values(numbers) = Values(Append(p, n)) /\ Less(t, <<>>)
    BY <1>1, <1>5, LessDotted
  <2> QED BY <1>1, <1>6, <2>1
<1> DEFINE a == Value(d)
           x == Values(p)
           w == Values(numbers)
<1>9. a \in Int /\ x \in Seq(Int) /\ Values(others) = Cat(x, Lead(a, <<>>))
  BY <1>2, LastNumber
<1>10. Values(Append(p, n)) = Cat(x, Lead(a + 1, <<>>))
  BY <1>4, LastNumber
<1>11. w \in Seq(Int)
  <2>1. PICK m \in Short, rest \in Seq(Short) : numbers = Lead(m, rest)
    BY LeadFirst
  <2> QED BY <2>1, LeadNumbers
<1>12. Between(w, Cat(x, Lead(a, <<>>)), Cat(x, Lead(a + 1, <<>>)))
         <=> \E u \in Seq(Int) : w = Cat(Cat(x, Lead(a, <<>>)), u)
  <2> HIDE DEF a, x, w
  <2> QED BY <1>9, <1>11, BetweenNext
<1>13. IsPrefix(Values(others), w) <=> \E u \in Seq(Int) : w = Cat(Values(others), u)
  <2>1. Values(others) \in Seq(Int)
    <3> HIDE DEF a, x
    <3>1. Lead(a, <<>>) \in Seq(Int)
      BY <1>1, <1>9, LeadIs
    <3> QED BY <1>9, <3>1, CatIs
  <2> HIDE DEF w
  <2> QED BY <1>11, <2>1, PrefixIs
<1> HIDE DEF a, x
<1> QED BY <1>5, <1>7, <1>8, <1>9, <1>10, <1>12, <1>13 DEF Between, w

\* The tails of strings, put together.
LEMMA TailsPut ==
    ASSUME NEW v, IsVersion(v), Fits(v), NEW g \in Seq(Int), NEW t \in Seq(Int)
    PROVE  /\ Ending(v, g) \in Seq(Int) /\ Cat(Ending(v, g), t) = Ending(v, Cat(g, t))
           /\ Under(g) \in Seq(Int) /\ Cat(Under(g), t) = Under(Cat(g, t))
           /\ Ranked(v, g) \in Seq(Int) /\ Cat(Ranked(v, g), t) = Ranked(v, Cat(g, t))
           /\ Cat(g, t) \in Seq(Int)
<1> DEFINE d == Dotted(v.numbers)
           l == Lettered(v.letter, g)
           m == Counted(v.suffixNumber, g)
           c == LetterChar(SuffixLetter[v.suffix])
<1>1. /\ d \in Seq(Int) /\ v.letter \in 0 .. 26 /\ v.suffixNumber \in Short
      /\ SuffixLetter[v.suffix] \in 0 .. 26
  <2>1. SuffixLetter[v.suffix] \in 1 .. 16
    BY FitsIs
  <2> QED BY <2>1, FitsIs, DottedIs
<1>2. Space \in Int /\ Underscore \in Int /\ c \in Int
  BY <1>1, CharactersAre
<1>3. l \in Seq(Int) /\ Cat(l, t) = Lettered(v.letter, Cat(g, t))
  <2>1. v.letter \in 0 .. 26
    BY <1>1
  <2>2. l \in Seq(Int) /\ \A u \in Seq(Int) : Cat(l, u) = Lettered(v.letter, Cat(g, u))
    BY <2>1, LetteredIs
  <2> QED BY <2>2
<1>4. Cat(g, t) \in Seq(Int)
  BY CatIs
<1>5. Cat(d, l) \in Seq(Int) /\ Cat(Cat(d, l), t) = Cat(d, Cat(l, t))
  <2>1. d \in Seq(Int) /\ l \in Seq(Int)
    BY <1>1, <1>3
  <2> HIDE DEF d, l
  <2> QED BY <2>1, CatIs
<1>6. /\ Lead(Underscore, g) \in Seq(Int)
      /\ Cat(Lead(Underscore, g), t) = Lead(Underscore, Cat(g, t))
  BY <1>2, LeadIs
<1>7. /\ Lead(Space, Lead(Underscore, g)) \in Seq(Int)
      /\ Cat(Lead(Space, Lead(Underscore, g)), t) = Lead(Space, Cat(Lead(Underscore, g), t))
  BY <1>2, <1>6, LeadIs
<1>8. m \in Seq(Int) /\ Cat(m, t) = Counted(v.suffixNumber, Cat(g, t))
  <2>1. Number(v.suffixNumber) \in Seq(Int)
    BY <1>1, CatNumbers
  <2>2. /\ Cat(Number(v.suffixNumber), g) \in Seq(Int)
        /\ Cat(Cat(Number(v.suffixNumber), g), t) = Cat(Number(v.suffixNumber), Cat(g, t))
    BY <2>1, CatIs
  <2> QED BY <2>2 DEF Counted
<1>9. Lead(c, m) \in Seq(Int) /\ Cat(Lead(c, m), t) = Lead(c, Cat(m, t))
  <2> HIDE DEF c, m
  <2> QED BY <1>2, <1>8, LeadIs
<1>10. Ending(v, g) \in Seq(Int) /\ Cat(Ending(v, g), t) = Ending(v, Cat(g, t))
  BY <1>3, <1>5 DEF Ending
<1>11. Under(g) \in Seq(Int) /\ Cat(Under(g), t) = Under(Cat(g, t))
  BY <1>6, <1>7 DEF Under
<1>12. Ranked(v, g) \in Seq(Int) /\ Cat(Ranked(v, g), t) = Ranked(v, Cat(g, t))
  BY <1>8, <1>9 DEF Ranked
<1> QED BY <1>4, <1>10, <1>11, <1>12

\* A version without suffix, but with a letter.
LEMMA RangeOfLetter ==
    ASSUME NEW v, IsVersion(v), Fits(v), NEW r, IsVersion(r), Fits(r), r.letter # NoLetter,
           NEW q \in Seq(Int)
    PROVE  Between(Ending(v, Under(q)), Ending(r, <<>>), MakeNextVer(Ending(r, <<>>)))
             <=> Values(v.numbers) = Values(r.numbers) /\ v.letter = r.letter
<1> DEFINE d == Dotted(r.numbers)
           e == Dotted(v.numbers)
           l == r.letter
           x == LetterChar(l)
           y == LetterChar(v.letter)
           g == Lead(Space, Lead(x, <<>>))
           t == Lettered(v.letter, Under(q))
<1>1. /\ v.numbers \in Seq(Short) /\ v.numbers # <<>> /\ v.letter \in 0 .. 26
      /\ r.numbers \in Seq(Short) /\ r.numbers # <<>> /\ l \in 1 .. 26 /\ l \in 0 .. 26
  <2>1. l \in 0 .. 26 /\ l # 0
    BY FitsIs DEF NoLetter
  <2>2. l \in 1 .. 26
    BY <2>1
  <2> QED BY <2>1, <2>2, FitsIs
<1>2. /\ Space \in Int /\ x \in Int /\ y \in Int /\ Space < Dot /\ ~IsDigitChar(x)
      /\ (y = x <=> v.letter = l) /\ (y < x <=> v.letter < l)
      /\ <<>> \in Seq(Int)
  BY <1>1, CharactersAre, EmptySeq
<1>3. d \in Seq(Int) /\ e \in Seq(Int)
  BY <1>1, DottedIs
<1>4. Ending(r, <<>>) = Cat(d, g)
  BY <1>1 DEF Ending, Lettered
<1>5. Ending(v, Under(q)) = Cat(e, t)
  BY DEF Ending
<1>6. PICK f \in Seq(Int) : t = Lead(Space, Lead(y, f))
  BY <1>1, LessLettered
<1>7. /\ Lead(x, <<>>) \in Seq(Int) /\ Lead(x + 1, <<>>) \in Seq(Int) /\ Lead(y, f) \in Seq(Int)
      /\ x + 1 \in Int /\ Space + 1 \in Int
  <2>1. x + 1 \in Int /\ Space + 1 \in Int
    BY <1>2
  <2> HIDE DEF x, y
  <2> QED BY <1>2, <1>6, <2>1, LeadIs
<1> HIDE DEF x, y, d, e, t
<1>8. /\ t \in Seq(Int) /\ BeforeDot(t) /\ g \in Seq(Int) /\ BeforeDot(g)
  BY <1>2, <1>6, <1>7, LeadIs DEF BeforeDot
<1>9. ASSUME NEW h \in Seq(Int), BeforeDot(h), MakeNextVer(Cat(d, g)) = Cat(d, h),
             Between(t, g, h) <=> v.letter = l
      PROVE  Between(Ending(v, Under(q)), Ending(r, <<>>), MakeNextVer(Ending(r, <<>>)))
               <=> Values(v.numbers) = Values(r.numbers) /\ v.letter = r.letter
  <2>1. Between(Cat(e, t), Cat(d, g), Cat(d, h))
          <=> Values(v.numbers) = Values(r.numbers) /\ Between(t, g, h)
    <3> HIDE DEF g
    <3> QED BY <1>1, <1>8, <1>9, BetweenTails DEF d, e
  <2> QED BY <1>4, <1>5, <1>9, <2>1
<1>10. CASE l < 26
  <2> DEFINE h == Lead(Space, Lead(x + 1, <<>>))
  <2>1. x < z
    <3>1. 26 \in 0 .. 26
      OBVIOUS
    <3> QED BY <1>1, <1>10, <3>1, CharactersAre DEF x, z
  <2>2. h \in Seq(Int) /\ BeforeDot(h)
    BY <1>2, <1>7, LeadIs DEF BeforeDot
  <2>3. MakeNextVer(Cat(d, g)) = Cat(d, h)
    <3> DEFINE s == Cat(d, Lead(Space, <<>>))
    <3>1. Lead(Space, <<>>) \in Seq(Int) /\ s \in Seq(Int)
      BY <1>2, <1>3, LeadIs, CatIs
    <3>2. ASSUME NEW u \in Seq(Int) PROVE Cat(s, u) = Cat(d, Lead(Space, u))
      <4>1. Cat(s, u) = Cat(d, Cat(Lead(Space, <<>>), u))
        BY <1>3, <3>1, CatIs
      <4>2. Cat(Lead(Space, <<>>), u) = Lead(Space, Cat(<<>>, u))
        <5>1. Space \in Int /\ <<>> \in Seq(Int)
          BY <1>2
        <5> QED BY <5>1, LeadIs
      <4>3. Cat(<<>>, u) = u
        BY CatIs
      <4> QED BY <4>1, <4>2, <4>3
    <3> HIDE DEF s
    <3>3. MakeNextVer(Cat(s, Lead(x, <<>>))) = Cat(s, Lead(x + 1, <<>>))
      BY <1>2, <2>1, <3>1, NextOfLetter
    <3> QED BY <1>7, <3>2, <3>3
  <2>4. Between(t, g, h) <=> v.letter = l
    <3>1. Between(Lead(Space, Lead(y, f)), Lead(Space, Lead(x, <<>>)), Lead(Space, Lead(x + 1, <<>>)))
            <=> Space = Space /\ Between(Lead(y, f), Lead(x, <<>>), Lead(x + 1, <<>>))
      BY <1>2, <1>7, BetweenLeads
    <3>2. Between(Lead(y, f), Lead(x, <<>>), Lead(x + 1, <<>>)) <=> y = x
      BY <1>2, BetweenSuccessors
    <3> QED BY <1>2, <1>6, <3>1, <3>2
  <2> HIDE DEF h, g
  <2> QED BY <1>9, <2>2, <2>3, <2>4
<1>11. CASE l = 26
  <2> DEFINE h == Lead(Space + 1, <<>>)
  <2>1. ~(x < z) /\ x \in Int
    BY <1>2, <1>11 DEF x, z
  <2>2. h \in Seq(Int) /\ BeforeDot(h)
    <3>1. Space + 1 < Dot
      BY DEF Space, Dot
    <3> QED BY <1>2, <1>7, <3>1, LeadIs DEF BeforeDot
  <2>3. MakeNextVer(Cat(d, g)) = Cat(d, h)
    BY <1>2, <1>3, <2>1, NextOfLastLetter
  <2>4. Between(t, g, h) <=> v.letter = l
    <3>1. Less(t, h)
      <4>1. Space < Space + 1
        BY <1>2
      <4>2. Less(Lead(Space, Lead(y, f)), Lead(Space + 1, <<>>))
              <=> Space < Space + 1 \/ (Space = Space + 1 /\ Less(Lead(y, f), <<>>))
        <5> DEFINE i == Space + 1
                   o == Lead(y, f)
        <5>1. Space \in Int /\ i \in Int /\ o \in Seq(Int) /\ <<>> \in Seq(Int)
          BY <1>2, <1>7
        <5> HIDE DEF i, o
        <5>2. Less(Lead(Space, o), Lead(i, <<>>)) <=> Space < i \/ (Space = i /\ Less(o, <<>>))
          BY <5>1, LeadsCompared
        <5> QED BY <5>2 DEF i, o
      <4> QED BY <1>6, <4>1, <4>2
    <3>2. Less(t, g) <=> y < x
      <4>1. Less(Lead(Space, Lead(y, f)), Lead(Space, Lead(x, <<>>)))
              <=> Less(Lead(y, f), Lead(x, <<>>))
        BY <1>2, <1>7, LeadsCompared
      <4>2. Less(Lead(y, f), Lead(x, <<>>)) <=> y < x \/ (y = x /\ Less(f, <<>>))
        BY <1>2, LeadsCompared
      <4>3. ~Less(f, <<>>)
        BY LessEmpty
      <4> QED BY <1>6, <4>1, <4>2, <4>3
    <3>3. v.letter < l <=> v.letter # l
      <4> DEFINE k == v.letter
      <4>1. k \in 0 .. 26 /\ l = 26
        BY <1>1, <1>11
      <4> HIDE DEF k, l
      <4>2. k < l <=> k # l
        BY <4>1
      <4> QED BY <4>2 DEF k, l
    <3> QED BY <1>2, <3>1, <3>2, <3>3 DEF Between
  <2> HIDE DEF h, g
  <2> QED BY <1>9, <2>2, <2>3, <2>4
<1>12. l < 26 \/ l = 26
  <2>1. l \in 0 .. 26
    BY <1>1
  <2> HIDE DEF l
  <2> QED BY <2>1
<1> QED BY <1>10, <1>11, <1>12

\* A version with a suffix: its string up to the suffix is that of those in its
\* range, and what comes after it decides.
LEMMA BetweenSuffixes ==
    ASSUME NEW v, IsVersion(v), Fits(v), NEW r, IsVersion(r), Fits(r),
           NEW q \in Seq(Int), NEW g \in Seq(Int), NEW h \in Seq(Int)
    PROVE  Between(Ending(v, Under(q)), Ending(r, Under(g)), Ending(r, Under(h)))
             <=> /\ Values(v.numbers) = Values(r.numbers) /\ v.letter = r.letter
                 /\ Between(q, g, h)
<1> DEFINE t == Lettered(v.letter, Under(q))
           a == Lettered(r.letter, Under(g))
           b == Lettered(r.letter, Under(h))
<1>1. /\ v.numbers \in Seq(Short) /\ v.numbers # <<>> /\ v.letter \in 0 .. 26
      /\ r.numbers \in Seq(Short) /\ r.numbers # <<>> /\ r.letter \in 0 .. 26
  BY FitsIs
<1>2. /\ Under(q) \in Seq(Int) /\ BeforeDot(Under(q))
      /\ Under(g) \in Seq(Int) /\ BeforeDot(Under(g))
      /\ Under(h) \in Seq(Int) /\ BeforeDot(Under(h))
  BY <1>1, LessLettered
<1>3. /\ t \in Seq(Int) /\ BeforeDot(t) /\ a \in Seq(Int) /\ BeforeDot(a)
      /\ b \in Seq(Int) /\ BeforeDot(b)
  BY <1>1, <1>2, LetteredIs
<1>4. Between(t, a, b) <=> v.letter = r.letter /\ Between(q, g, h)
  BY <1>1, BetweenLettered
<1> HIDE DEF t, a, b
<1>5. Between(Cat(Dotted(v.numbers), t), Cat(Dotted(r.numbers), a), Cat(Dotted(r.numbers), b))
        <=> Values(v.numbers) = Values(r.numbers) /\ Between(t, a, b)
  BY <1>1, <1>3, BetweenTails
<1> QED BY <1>4, <1>5 DEF Ending, t, a, b

LEMMA SuffixLetterIs ==
    ASSUME NEW r, IsVersion(r), Fits(r)
    PROVE  LET c == LetterChar(SuffixLetter[r.suffix])
           IN  /\ c \in Int /\ ~IsDigitChar(c) /\ c < z
               /\ \A v : IsVersion(v) /\ Fits(v) =>
                    (LetterChar(SuffixLetter[v.suffix]) = c
                       <=> SuffixLetter[v.suffix] = SuffixLetter[r.suffix])
<1>1. \A v : IsVersion(v) /\ Fits(v) => SuffixLetter[v.suffix] \in 0 .. 26
  <2> SUFFICES ASSUME NEW v, IsVersion(v), Fits(v) PROVE SuffixLetter[v.suffix] \in 0 .. 26
    OBVIOUS
  <2>1. SuffixLetter[v.suffix] \in 1 .. 16
    BY FitsIs
  <2> QED BY <2>1
<1>2. SuffixLetter[r.suffix] \in 1 .. 16
  BY FitsIs
<1>3. SuffixLetter[r.suffix] < 26 /\ 26 \in 0 .. 26
  BY <1>2
<1> QED BY <1>1, <1>3, CharactersAre DEF z

\* The range of a version with a suffix that has no number.
LEMMA RangeOfSuffix ==
    ASSUME NEW v, IsVersion(v), Fits(v), NEW r, IsVersion(r), Fits(r), r.suffixNumber = <<>>,
           NEW s \in Seq(Int)
    PROVE  LET c == Ending(r, Suffixing(r, <<>>))
           IN  Between(Ending(v, Suffixing(v, s)), c, MakeNextVer(c))
                 <=> /\ Values(v.numbers) = Values(r.numbers) /\ v.letter = r.letter
                     /\ SuffixLetter[v.suffix] = SuffixLetter[r.suffix]
<1> DEFINE x == LetterChar(SuffixLetter[r.suffix])
           y == LetterChar(SuffixLetter[v.suffix])
           m == Counted(v.suffixNumber, s)
           e == Ending(r, Under(<<>>))
<1>1. /\ x \in Int /\ ~IsDigitChar(x) /\ x < z /\ y \in Int
      /\ y = x <=> SuffixLetter[v.suffix] = SuffixLetter[r.suffix]
  BY SuffixLetterIs
<1>2. <<>> \in Seq(Int) /\ m \in Seq(Int)
  BY EmptySeq, SuffixingIs
<1>3. Suffixing(v, s) = Under(Lead(y, m)) /\ Suffixing(r, <<>>) = Under(Lead(x, <<>>))
  BY DEF Suffixing, Under, Counted
<1> HIDE DEF x, y, m
<1>4. x + 1 \in Int
  BY <1>1
<1>5. Lead(x, <<>>) \in Seq(Int) /\ Lead(x + 1, <<>>) \in Seq(Int) /\ Lead(y, m) \in Seq(Int)
  BY <1>1, <1>2, <1>4, LeadIs
<1>6. ASSUME NEW u \in Seq(Int) PROVE Cat(e, u) = Ending(r, Under(u))
  <2>1. /\ Under(<<>>) \in Seq(Int) /\ Cat(Under(<<>>), u) = Under(Cat(<<>>, u))
    BY <1>2, TailsPut
  <2>2. Cat(e, u) = Ending(r, Cat(Under(<<>>), u))
    BY <2>1, TailsPut
  <2>3. Cat(<<>>, u) = u
    BY CatIs
  <2> QED BY <2>1, <2>2, <2>3
<1>7. e \in Seq(Int)
  <2>1. Under(<<>>) \in Seq(Int)
    BY <1>2, TailsPut
  <2> QED BY <2>1, TailsPut
<1> HIDE DEF e
<1>8. MakeNextVer(Cat(e, Lead(x, <<>>))) = Cat(e, Lead(x + 1, <<>>))
  BY <1>1, <1>7, NextOfLetter
<1>9. MakeNextVer(Ending(r, Under(Lead(x, <<>>)))) = Ending(r, Under(Lead(x + 1, <<>>)))
  BY <1>5, <1>6, <1>8
<1>10. Between(Ending(v, Under(Lead(y, m))), Ending(r, Under(Lead(x, <<>>))),
               Ending(r, Under(Lead(x + 1, <<>>))))
         <=> /\ Values(v.numbers) = Values(r.numbers) /\ v.letter = r.letter
             /\ Between(Lead(y, m), Lead(x, <<>>), Lead(x + 1, <<>>))
  BY <1>5, BetweenSuffixes
<1>11. Between(Lead(y, m), Lead(x, <<>>), Lead(x + 1, <<>>)) <=> y = x
  BY <1>1, <1>2, BetweenSuccessors
<1> QED BY <1>1, <1>3, <1>9, <1>10, <1>11

\* The range of one with a numbered suffix.
LEMMA RangeOfCount ==
    ASSUME NEW v, IsVersion(v), Fits(v), NEW r, IsVersion(r), Fits(r), r.suffixNumber # <<>>,
           NEW s \in Seq(Int), BeforeDot(s), NextVerEnds(Ending(r, Suffixing(r, <<>>)))
    PROVE  LET c == Ending(r, Suffixing(r, <<>>))
           IN  Between(Ending(v, Suffixing(v, s)), c, MakeNextVer(c))
                 <=> /\ Values(v.numbers) = Values(r.numbers) /\ v.letter = r.letter
                     /\ SuffixLetter[v.suffix] = SuffixLetter[r.suffix]
                     /\ Count(v) = Count(r)
<1> DEFINE x == LetterChar(SuffixLetter[r.suffix])
           y == LetterChar(SuffixLetter[v.suffix])
           m == Counted(v.suffixNumber, s)
           d == r.suffixNumber
           e == Ending(r, Under(Lead(x, <<>>)))
<1>1. /\ x \in Int /\ ~IsDigitChar(x) /\ x < z /\ y \in Int
      /\ y = x <=> SuffixLetter[v.suffix] = SuffixLetter[r.suffix]
  BY SuffixLetterIs
<1>2. /\ <<>> \in Seq(Int) /\ m \in Seq(Int) /\ d \in Short /\ d # <<>>
      /\ v.suffixNumber \in Short
  BY FitsIs, EmptySeq, SuffixingIs
<1>3. Number(d) \in Seq(Int) /\ Cat(Number(d), <<>>) = Number(d)
  BY <1>2, CatNumbers, CatIs
<1>4. /\ Suffixing(v, s) = Under(Lead(y, m))
      /\ Suffixing(r, <<>>) = Under(Lead(x, Number(d)))
  BY <1>2, <1>3 DEF Suffixing, Under, Counted
<1>5. Count(r) = Value(d)
  BY DEF Count
<1> HIDE DEF x, y, d
<1>6. Lead(x, <<>>) \in Seq(Int)
  BY <1>1, <1>2, LeadIs
<1>7. ASSUME NEW u \in Seq(Int) PROVE Cat(e, u) = Ending(r, Under(Lead(x, u)))
  <2>1. Cat(Lead(x, <<>>), u) = Lead(x, u)
    <3>1. x \in Int /\ <<>> \in Seq(Int) /\ u \in Seq(Int)
      BY <1>1, <1>2
    <3> HIDE DEF e, m
    <3>2. Cat(Lead(x, <<>>), u) = Lead(x, Cat(<<>>, u))
      BY <3>1, LeadIs
    <3>3. Cat(<<>>, u) = u
      BY CatIs
    <3> QED BY <3>2, <3>3
  <2>2. /\ Under(Lead(x, <<>>)) \in Seq(Int)
        /\ Cat(Under(Lead(x, <<>>)), u) = Under(Cat(Lead(x, <<>>), u))
    BY <1>6, TailsPut
  <2>3. Cat(e, u) = Ending(r, Cat(Under(Lead(x, <<>>)), u))
    BY <2>2, TailsPut
  <2> QED BY <2>1, <2>2, <2>3
<1>8. e \in Seq(Int) /\ EndsBefore(e)
  <2> DEFINE f == Ending(r, Under(<<>>))
  <2>1. Under(<<>>) \in Seq(Int) /\ Cat(Under(<<>>), Lead(x, <<>>)) = Under(Cat(<<>>, Lead(x, <<>>)))
    BY <1>2, <1>6, TailsPut
  <2>2. f \in Seq(Int) /\ Cat(f, Lead(x, <<>>)) = Ending(r, Cat(Under(<<>>), Lead(x, <<>>)))
    BY <1>6, <2>1, TailsPut
  <2>3. Cat(<<>>, Lead(x, <<>>)) = Lead(x, <<>>)
    BY <1>6, CatIs
  <2>4. e = Cat(f, Lead(x, <<>>))
    BY <2>1, <2>2, <2>3
  <2> HIDE DEF e, f
  <2>5. EndsBefore(e)
    BY <1>1, <2>2, <2>4, EndsWith
  <2>6. e \in Seq(Int)
    BY <1>6, <2>2, <2>4, CatIs
  <2> QED BY <2>5, <2>6
<1> HIDE DEF e
<1>9. PICK n \in Short : /\ n # <<>> /\ Value(n) = Value(d) + 1
                         /\ MakeNextVer(Cat(e, Number(d))) = Cat(e, Number(n))
  <2>1. NextVerEnds(Cat(e, Number(d)))
    BY <1>3, <1>4, <1>7
  <2> QED BY <1>2, <1>8, <2>1, NextOfNumber
<1>10. Number(n) \in Seq(Int) /\ Cat(Number(n), <<>>) = Number(n)
  BY <1>2, CatNumbers, CatIs
<1>11. MakeNextVer(Ending(r, Under(Lead(x, Number(d))))) = Ending(r, Under(Lead(x, Number(n))))
  BY <1>3, <1>7, <1>9, <1>10
<1>12. /\ Lead(x, Number(d)) \in Seq(Int) /\ Lead(x, Number(n)) \in Seq(Int)
       /\ Lead(y, m) \in Seq(Int)
  <2> HIDE DEF m
  <2> QED BY <1>1, <1>2, <1>3, <1>10, LeadIs
<1>13. Between(Ending(v, Under(Lead(y, m))), Ending(r, Under(Lead(x, Number(d)))),
               Ending(r, Under(Lead(x, Number(n)))))
         <=> /\ Values(v.numbers) = Values(r.numbers) /\ v.letter = r.letter
             /\ Between(Lead(y, m), Lead(x, Number(d)), Lead(x, Number(n)))
  <2> HIDE DEF m
  <2> QED BY <1>12, BetweenSuffixes
<1>14. Between(Lead(y, m), Lead(x, Number(d)), Lead(x, Number(n)))
         <=> y = x /\ Between(m, Number(d), Number(n))
  <2> HIDE DEF m
  <2> QED BY <1>1, <1>2, <1>3, <1>10, BetweenLeads
<1>15. Between(m, Number(d), Number(n)) <=> Count(v) = Value(d)
  <2>1. BeforeDot(<<>>) /\ ~Less(s, <<>>)
    BY LessEmpty DEF BeforeDot
  <2>2. Number(d) = Counted(d, <<>>) /\ Number(n) = Counted(n, <<>>)
    BY <1>2, <1>3, <1>9, <1>10 DEF Counted
  <2>3. Less(m, Counted(d, <<>>)) <=> Count(v) < Value(d) \/ (Count(v) = Value(d) /\ Less(s, <<>>))
    BY <1>2, <2>1, LessCounted DEF Count
  <2>4. Less(m, Counted(n, <<>>)) <=> Count(v) < Value(n) \/ (Count(v) = Value(n) /\ Less(s, <<>>))
    BY <1>2, <1>9, <2>1, LessCounted DEF Count
  <2>5. Count(v) \in Int /\ Value(d) \in Int /\ Value(n) = Value(d) + 1
    BY <1>2, <1>9, CatNumbers DEF Count
  <2> HIDE DEF m
  <2> QED BY <2>1, <2>2, <2>3, <2>4, <2>5 DEF Between
<1> QED BY <1>1, <1>4, <1>5, <1>11, <1>13, <1>14, <1>15

LEMMA BetweenNumbers ==
    ASSUME NEW c \in Short, NEW d \in Short, NEW n \in Short, Value(n) = Value(d) + 1
    PROVE  Between(Number(c), Number(d), Number(n)) <=> Value(c) = Value(d)
<1>1. <<>> \in Seq(Int) /\ ~Less(<<>>, <<>>)
  BY EmptySeq, LessEmpty
<1>2. /\ Number(c) \in Seq(Int) /\ Number(d) \in Seq(Int) /\ Number(n) \in Seq(Int)
      /\ Value(c) \in Nat /\ Value(d) \in Nat
  BY CatNumbers
<1>3. /\ Cat(Number(c), <<>>) = Number(c) /\ Cat(Number(d), <<>>) = Number(d)
      /\ Cat(Number(n), <<>>) = Number(n)
  BY <1>2, CatIs
<1>4. Less(Cat(Number(c), <<>>), Cat(Number(d), <<>>))
        <=> Value(c) < Value(d) \/ (Value(c) = Value(d) /\ Less(<<>>, <<>>))
  BY <1>1, CatNumbers
<1>5. Less(Cat(Number(c), <<>>), Cat(Number(n), <<>>))
        <=> Value(c) < Value(n) \/ (Value(c) = Value(n) /\ Less(<<>>, <<>>))
  BY <1>1, CatNumbers
<1> QED BY <1>1, <1>2, <1>3, <1>4, <1>5 DEF Between

\* The range of one with suffix and revision.
LEMMA RangeOfRevision ==
    ASSUME NEW v, IsVersion(v), Fits(v), NEW r, IsVersion(r), Fits(r),
           NextVerEnds(WholeVer(r))
    PROVE  Between(WholeVer(v), WholeVer(r), MakeNextVer(WholeVer(r)))
             <=> /\ Values(v.numbers) = Values(r.numbers) /\ v.letter = r.letter
                 /\ SuffixLetter[v.suffix] = SuffixLetter[r.suffix]
                 /\ Count(v) = Count(r) /\ Value(v.revision) = Value(r.revision)
<1> DEFINE x == LetterChar(18)
           c == Revised(v)
           d == Revised(r)
           E(u) == Ending(r, Under(Ranked(r, u)))
           R(u) == Lead(Space, Lead(x, u))
<1>1. /\ c \in Short /\ Value(c) = Value(v.revision)
      /\ d \in Short /\ Value(d) = Value(r.revision)
  BY FitsIs
<1>2. /\ Space \in Int /\ Space < Dot /\ x \in Int /\ ~IsDigitChar(x) /\ <<>> \in Seq(Int)
  <2>1. 18 \in 0 .. 26
    OBVIOUS
  <2> QED BY <2>1, CharactersAre, EmptySeq
<1>3. Revising(v) = R(Number(c)) /\ Revising(r) = R(Number(d))
  BY DEF Revising
<1>4. WholeVer(v) = Ending(v, Under(Ranked(v, R(Number(c))))) /\ WholeVer(r) = E(R(Number(d)))
  BY <1>3 DEF WholeVer, Suffixing, Under, Ranked
<1>5. Number(c) \in Seq(Int) /\ Number(d) \in Seq(Int)
  BY <1>1, CatNumbers
<1> HIDE DEF x, c, d
<1>6. ASSUME NEW u \in Seq(Int)
      PROVE  Lead(x, u) \in Seq(Int) /\ R(u) \in Seq(Int) /\ BeforeDot(R(u))
  <2>1. Lead(x, u) \in Seq(Int)
    BY <1>2, LeadIs
  <2> QED BY <1>2, <2>1, LeadIs DEF BeforeDot
<1>7. ASSUME NEW g \in Seq(Int), NEW t \in Seq(Int)
      PROVE  E(g) \in Seq(Int) /\ Cat(E(g), t) = E(Cat(g, t))
  <2>1. Ranked(r, g) \in Seq(Int) /\ Cat(Ranked(r, g), t) = Ranked(r, Cat(g, t))
    BY TailsPut
  <2>2. Under(Ranked(r, g)) \in Seq(Int) /\ Cat(Under(Ranked(r, g)), t) = Under(Cat(Ranked(r, g), t))
    BY <2>1, TailsPut
  <2>3. /\ Ending(r, Under(Ranked(r, g))) \in Seq(Int)
        /\ Cat(Ending(r, Under(Ranked(r, g))), t) = Ending(r, Cat(Under(Ranked(r, g)), t))
    BY <2>2, TailsPut
  <2> QED BY <2>1, <2>2, <2>3
<1>8. ASSUME NEW u \in Seq(Int) PROVE Cat(R(<<>>), u) = R(u)
  <2> DEFINE i == Lead(x, <<>>)
  <2>0. i \in Seq(Int) /\ Space \in Int /\ u \in Seq(Int)
    BY <1>2, <1>6
  <2> HIDE DEF i
  <2>4. Cat(Lead(Space, i), u) = Lead(Space, Cat(i, u))
    BY <2>0, LeadIs
  <2>1. Cat(R(<<>>), u) = Lead(Space, Cat(Lead(x, <<>>), u))
    BY <2>4 DEF i
  <2>2. Cat(Lead(x, <<>>), u) = Lead(x, Cat(<<>>, u))
    BY <1>2, LeadIs
  <2>3. Cat(<<>>, u) = u
    BY CatIs
  <2> QED BY <2>1, <2>2, <2>3
<1> DEFINE e == E(R(<<>>))
<1>9. ASSUME NEW u \in Seq(Int) PROVE Cat(e, u) = E(R(u))
  <2>1. R(<<>>) \in Seq(Int)
    BY <1>2, <1>6
  <2> HIDE DEF R, E
  <2> QED BY <1>7, <1>8, <2>1
<1>10. e \in Seq(Int) /\ EndsBefore(e)
  <2> DEFINE s == Lead(Space, <<>>)
  <2>1. s \in Seq(Int) /\ Lead(x, <<>>) \in Seq(Int) /\ R(<<>>) \in Seq(Int)
    BY <1>2, <1>6, LeadIs
  <2>2. Cat(s, Lead(x, <<>>)) = R(<<>>)
    <3> DEFINE i == Lead(x, <<>>)
    <3>0. i \in Seq(Int) /\ Space \in Int /\ <<>> \in Seq(Int)
      BY <1>2, <2>1
    <3> HIDE DEF i
    <3>3. Cat(Lead(Space, <<>>), i) = Lead(Space, Cat(<<>>, i))
      BY <3>0, LeadIs
    <3>1. Cat(s, Lead(x, <<>>)) = Lead(Space, Cat(<<>>, Lead(x, <<>>)))
      BY <3>3 DEF i
    <3>2. Cat(<<>>, Lead(x, <<>>)) = Lead(x, <<>>)
      BY <2>1, CatIs
    <3> QED BY <3>1, <3>2
  <2> HIDE DEF s, R, E
  <2>3. e = Cat(E(s), Lead(x, <<>>)) /\ E(s) \in Seq(Int) /\ e \in Seq(Int)
    BY <1>7, <2>1, <2>2
  <2>4. EndsBefore(Cat(E(s), Lead(x, <<>>)))
    BY <1>2, <2>3, EndsWith
  <2> QED BY <2>3, <2>4
<1> HIDE DEF e
<1>11. PICK n \in Short : /\ Value(n) = Value(d) + 1
                          /\ MakeNextVer(Cat(e, Number(d))) = Cat(e, Number(n))
  <2>1. NextVerEnds(Cat(e, Number(d)))
    BY <1>4, <1>5, <1>9
  <2> QED BY <1>1, <1>10, <2>1, NextOfNumber
<1>12. Number(n) \in Seq(Int)
  BY CatNumbers
<1>13. MakeNextVer(WholeVer(r)) = E(R(Number(n)))
  BY <1>4, <1>5, <1>9, <1>11, <1>12
<1>14. /\ R(Number(c)) \in Seq(Int) /\ BeforeDot(R(Number(c)))
       /\ R(Number(d)) \in Seq(Int) /\ BeforeDot(R(Number(d)))
       /\ R(Number(n)) \in Seq(Int) /\ BeforeDot(R(Number(n)))
  <2> HIDE DEF R
  <2> QED BY <1>5, <1>6, <1>12
<1>15. Between(R(Number(c)), R(Number(d)), R(Number(n))) <=> Value(c) = Value(d)
  <2> DEFINE i == Lead(x, Number(c))
             j == Lead(x, Number(d))
             k == Lead(x, Number(n))
  <2>1. i \in Seq(Int) /\ j \in Seq(Int) /\ k \in Seq(Int)
    BY <1>5, <1>6, <1>12
  <2>2. Between(i, j, k) <=> Between(Number(c), Number(d), Number(n))
    BY <1>2, <1>5, <1>12, BetweenLeads
  <2> HIDE DEF i, j, k
  <2>3. Between(Lead(Space, i), Lead(Space, j), Lead(Space, k)) <=> Between(i, j, k)
    BY <1>2, <2>1, BetweenLeads
  <2>4. Between(Number(c), Number(d), Number(n)) <=> Value(c) = Value(d)
    BY <1>1, <1>11, BetweenNumbers
  <2> QED BY <2>2, <2>3, <2>4 DEF i, j, k
<1> HIDE DEF R
<1> DEFINE s == R(Number(c))
           g == R(Number(d))
           h == R(Number(n))
           a == SuffixLetter[v.suffix]
           b == SuffixLetter[r.suffix]
<1> HIDE DEF s, g, h
<1>16. /\ s \in Seq(Int) /\ BeforeDot(s) /\ g \in Seq(Int) /\ BeforeDot(g)
       /\ h \in Seq(Int) /\ BeforeDot(h)
       /\ Between(s, g, h) <=> Value(c) = Value(d)
  BY <1>14, <1>15 DEF s, g, h
<1>17. /\ Ranked(v, s) \in Seq(Int) /\ Ranked(r, g) \in Seq(Int) /\ Ranked(r, h) \in Seq(Int)
  BY <1>16, TailsPut
<1>18. Between(Ranked(v, s), Ranked(r, g), Ranked(r, h))
         <=> a = b /\ Count(v) = Count(r) /\ Between(s, g, h)
  <2>1. Less(Ranked(v, s), Ranked(r, g))
          <=> \/ a < b
              \/ a = b /\ Count(v) < Count(r)
              \/ a = b /\ Count(v) = Count(r) /\ Less(s, g)
    BY <1>16, LessRanked
  <2>2. Less(Ranked(v, s), Ranked(r, h))
          <=> \/ a < b
              \/ a = b /\ Count(v) < Count(r)
              \/ a = b /\ Count(v) = Count(r) /\ Less(s, h)
    BY <1>16, LessRanked
  <2>3. a \in 1 .. 16 /\ b \in 1 .. 16 /\ Count(v) \in Int /\ Count(r) \in Int
    <3>1. v.suffixNumber \in Short /\ r.suffixNumber \in Short
      BY FitsIs
    <3>2. Value(v.suffixNumber) \in Nat /\ Value(r.suffixNumber) \in Nat
      BY <3>1, CatNumbers
    <3> QED BY <3>2, FitsIs DEF Count
  <2> HIDE DEF a, b
  <2>4. (a < b => a # b) /\ (Count(v) < Count(r) => Count(v) # Count(r))
    BY <2>3
  <2> QED BY <2>1, <2>2, <2>4 DEF Between
<1>19. Between(Ending(v, Under(Ranked(v, s))), Ending(r, Under(Ranked(r, g))), Ending(r, Under(Ranked(r, h))))
         <=> /\ Values(v.numbers) = Values(r.numbers) /\ v.letter = r.letter
             /\ Between(Ranked(v, s), Ranked(r, g), Ranked(r, h))
  BY <1>17, BetweenSuffixes
<1>20. /\ WholeVer(v) = Ending(v, Under(Ranked(v, s)))
       /\ WholeVer(r) = Ending(r, Under(Ranked(r, g)))
       /\ MakeNextVer(WholeVer(r)) = Ending(r, Under(Ranked(r, h)))
  BY <1>4, <1>13 DEF s, g, h
<1> QED BY <1>1, <1>16, <1>18, <1>19, <1>20

\* What a range gives, case by case.
LEMMA InRangeIs ==
    ASSUME NEW v, IsVersion(v), Fits(v), NEW r, IsVersion(r), Fits(r)
    PROVE  LET vs == Values(v.numbers)
               rs == Values(r.numbers)
           IN  /\ r.suffix = "none" /\ r.letter = NoLetter => (InRange(v, r) <=> IsPrefix(rs, vs))
               /\ r.suffix = "none" /\ r.letter # NoLetter =>
                    (InRange(v, r) <=> vs = rs /\ v.letter = r.letter)
               /\ r.suffix # "none" /\ r.revision = <<>> /\ r.suffixNumber = <<>> =>
                    (InRange(v, r) <=> /\ vs = rs /\ v.letter = r.letter
                                       /\ SuffixLetter[v.suffix] = SuffixLetter[r.suffix])
               /\ r.suffix # "none" /\ r.revision = <<>> /\ r.suffixNumber # <<>> =>
                    (InRange(v, r) <=> /\ vs = rs /\ v.letter = r.letter
                                       /\ SuffixLetter[v.suffix] = SuffixLetter[r.suffix]
                                       /\ Count(v) = Count(r))
               /\ r.suffix # "none" /\ r.revision # <<>> =>
                    (InRange(v, r) <=> /\ vs = rs /\ v.letter = r.letter
                                       /\ SuffixLetter[v.suffix] = SuffixLetter[r.suffix]
                                       /\ Count(v) = Count(r)
                                       /\ Value(v.revision) = Value(r.revision))
<1> DEFINE vs == Values(v.numbers)
           rs == Values(r.numbers)
           Agrees(n) == \A k \in 1 .. n : Rank(v)[k] = Rank(r)[k]
           a == SuffixLetter[v.suffix] = SuffixLetter[r.suffix]
           b == Count(v) = Count(r)
           c == Value(v.revision) = Value(r.revision)
<1>1. /\ Rank(v)[1] = SuffixLetter[v.suffix] /\ Rank(v)[2] = Count(v) /\ Rank(v)[3] = Value(v.revision)
      /\ Rank(r)[1] = SuffixLetter[r.suffix] /\ Rank(r)[2] = Count(r) /\ Rank(r)[3] = Value(r.revision)
  BY DEF Rank, Count
<1>2. 1 .. 0 = {} /\ 1 .. 1 = {1} /\ 1 .. 2 = {1, 2} /\ 1 .. 3 = {1, 2, 3}
  OBVIOUS
<1>3. (Agrees(0) <=> TRUE) /\ (Agrees(1) <=> a) /\ (Agrees(2) <=> a /\ b) /\ (Agrees(3) <=> a /\ b /\ c)
  <2>1. /\ (Rank(v)[1] = Rank(r)[1]) <=> a
        /\ (Rank(v)[2] = Rank(r)[2]) <=> b
        /\ (Rank(v)[3] = Rank(r)[3]) <=> c
    BY <1>1
  <2> DEFINE A(k) == Rank(v)[k] = Rank(r)[k]
  <2>2. \A n : Agrees(n) <=> \A k \in 1 .. n : A(k)
    OBVIOUS
  <2>3. (A(1) <=> a) /\ (A(2) <=> b) /\ (A(3) <=> c)
    BY <2>1
  <2> HIDE DEF A, Agrees, a, b, c
  <2> QED BY <1>2, <2>2, <2>3
<1>4. vs = rs => IsPrefix(rs, vs)
  <2>1. Len(vs) \in Nat
    <3>1. v.numbers \in Seq(Short) /\ v.numbers # <<>>
      BY FitsIs
    <3>2. PICK m \in Short, rest \in Seq(Short) : v.numbers = Lead(m, rest)
      BY <3>1, LeadFirst
    <3>3. vs \in Seq(Int)
      BY <3>2, LeadNumbers
    <3> HIDE DEF vs
    <3> QED BY <3>3
  <2> QED BY <2>1 DEF IsPrefix
<1>5. InRange(v, r) <=>
        /\ IsPrefix(rs, vs)
        /\ r.letter # NoLetter \/ r.suffix # "none" => vs = rs /\ v.letter = r.letter
        /\ Agrees(IF r.suffix = "none" THEN 0
                  ELSE IF r.revision # <<>> THEN 3
                  ELSE IF r.suffixNumber # <<>> THEN 2 ELSE 1)
  BY DEF InRange
<1> HIDE DEF vs, rs, Agrees, a, b, c
<1>6. CASE r.suffix = "none"
  <2>1. InRange(v, r) <=> /\ IsPrefix(rs, vs)
                          /\ r.letter # NoLetter => vs = rs /\ v.letter = r.letter
    BY <1>3, <1>5, <1>6
  <2> QED BY <1>4, <1>6, <2>1 DEF vs, rs
<1>7. CASE r.suffix # "none" /\ r.revision # <<>>
  <2>1. InRange(v, r) <=> vs = rs /\ v.letter = r.letter /\ a /\ b /\ c
    BY <1>3, <1>4, <1>5, <1>7
  <2> QED BY <1>7, <2>1 DEF vs, rs, a, b, c
<1>8. CASE r.suffix # "none" /\ r.revision = <<>> /\ r.suffixNumber # <<>>
  <2>1. InRange(v, r) <=> vs = rs /\ v.letter = r.letter /\ a /\ b
    BY <1>3, <1>4, <1>5, <1>8
  <2> QED BY <1>8, <2>1 DEF vs, rs, a, b
<1>9. CASE r.suffix # "none" /\ r.revision = <<>> /\ r.suffixNumber = <<>>
  <2>1. InRange(v, r) <=> vs = rs /\ v.letter = r.letter /\ a
    BY <1>3, <1>4, <1>5, <1>9
  <2> QED BY <1>9, <2>1 DEF vs, rs, a
<1> QED BY <1>6, <1>7, <1>8, <1>9

\* What lies between the string of a range and the next string are the versions
\* that agree with the range's in whatever it gives.
THEOREM RangeIsExact ==
    ASSUME NEW v, IsVersion(v), Fits(v), NEW r, IsVersion(r), Fits(r),
           NextVerEnds(CompVer(r, "range"))
    PROVE  /\ CompVer(r, "range") \in Seq(Int)
           /\ Between(WholeVer(v), CompVer(r, "range"), MakeNextVer(CompVer(r, "range")))
                <=> InRange(v, r)
<1> DEFINE c == CompVer(r, "range")
           s == Revising(v)
           Is == Between(WholeVer(v), c, MakeNextVer(c)) <=> InRange(v, r)
<1>1. /\ s \in Seq(Int) /\ BeforeDot(s) /\ <<>> \in Seq(Int)
      /\ Suffixing(v, s) \in Seq(Int) /\ BeforeDot(Suffixing(v, s))
      /\ Suffixing(r, <<>>) \in Seq(Int)
      /\ Suffixing(r, Revising(r)) \in Seq(Int)
  BY EmptySeq, RevisingIs, SuffixingIs
<1>2. /\ v.numbers \in Seq(Short) /\ v.numbers # <<>> /\ v.letter \in 0 .. 26
      /\ r.numbers \in Seq(Short) /\ r.numbers # <<>> /\ r.letter \in 0 .. 26
  BY FitsIs
<1>3. WholeVer(v) = Ending(v, Suffixing(v, s))
  BY DEF WholeVer
<1> HIDE DEF s
<1>9. ASSUME NEW g \in Seq(Int) PROVE Ending(r, g) \in Seq(Int)
  <2>1. Ending(r, g) \in Seq(Int) /\ Cat(Ending(r, g), g) = Ending(r, Cat(g, g))
    BY TailsPut
  <2> QED BY <2>1
<1>4. CASE r.suffix = "none" /\ r.letter = NoLetter
  <2> DEFINE t == Lettered(v.letter, Suffixing(v, s))
             d == Dotted(r.numbers)
  <2>1. t \in Seq(Int) /\ BeforeDot(t)
    BY <1>1, <1>2, LetteredIs
  <2>2. d \in Seq(Int) /\ Cat(d, <<>>) = d
    BY <1>2, DottedIs, CatIs
  <2>3. c = d
    BY <1>4, <2>2, CompVerIs DEF Ending, Lettered
  <2>4. WholeVer(v) = Cat(Dotted(v.numbers), t)
    BY <1>3 DEF Ending
  <2>5. NextVerEnds(Dotted(r.numbers))
    BY <2>3
  <2> HIDE DEF t
  <2>6. Between(Cat(Dotted(v.numbers), t), Dotted(r.numbers), MakeNextVer(Dotted(r.numbers)))
          <=> IsPrefix(Values(r.numbers), Values(v.numbers))
    BY <1>2, <2>1, <2>5, RangeOfNumbers
  <2>7. InRange(v, r) <=> IsPrefix(Values(r.numbers), Values(v.numbers))
    BY <1>4, InRangeIs
  <2> QED BY <2>2, <2>3, <2>4, <2>6, <2>7
<1>5. CASE r.suffix = "none" /\ r.letter # NoLetter
  <2> DEFINE q == Ranked(v, s)
  <2>1. q \in Seq(Int) /\ Suffixing(v, s) = Under(q)
    BY <1>1, TailsPut DEF Suffixing, Under, Ranked
  <2>2. c = Ending(r, <<>>) /\ c \in Seq(Int)
    BY <1>1, <1>5, <1>9, CompVerIs
  <2> HIDE DEF q
  <2>3. Between(Ending(v, Under(q)), Ending(r, <<>>), MakeNextVer(Ending(r, <<>>)))
          <=> Values(v.numbers) = Values(r.numbers) /\ v.letter = r.letter
    BY <1>5, <2>1, RangeOfLetter
  <2>4. InRange(v, r) <=> Values(v.numbers) = Values(r.numbers) /\ v.letter = r.letter
    BY <1>5, InRangeIs
  <2> QED BY <1>3, <2>1, <2>2, <2>3, <2>4
<1>6. CASE r.suffix # "none" /\ r.revision = <<>> /\ r.suffixNumber = <<>>
  <2>1. c = Ending(r, Suffixing(r, <<>>)) /\ c \in Seq(Int)
    BY <1>1, <1>6, <1>9, CompVerIs
  <2>2. Between(Ending(v, Suffixing(v, s)), Ending(r, Suffixing(r, <<>>)),
                MakeNextVer(Ending(r, Suffixing(r, <<>>))))
          <=> /\ Values(v.numbers) = Values(r.numbers) /\ v.letter = r.letter
              /\ SuffixLetter[v.suffix] = SuffixLetter[r.suffix]
    BY <1>1, <1>6, RangeOfSuffix
  <2>3. InRange(v, r) <=> /\ Values(v.numbers) = Values(r.numbers) /\ v.letter = r.letter
                          /\ SuffixLetter[v.suffix] = SuffixLetter[r.suffix]
    BY <1>6, InRangeIs
  <2> QED BY <1>3, <2>1, <2>2, <2>3
<1>7. CASE r.suffix # "none" /\ r.revision = <<>> /\ r.suffixNumber # <<>>
  <2>1. c = Ending(r, Suffixing(r, <<>>)) /\ c \in Seq(Int)
    BY <1>1, <1>7, <1>9, CompVerIs
  <2>2. NextVerEnds(Ending(r, Suffixing(r, <<>>)))
    BY <2>1
  <2>3. Between(Ending(v, Suffixing(v, s)), Ending(r, Suffixing(r, <<>>)),
                MakeNextVer(Ending(r, Suffixing(r, <<>>))))
          <=> /\ Values(v.numbers) = Values(r.numbers) /\ v.letter = r.letter
              /\ SuffixLetter[v.suffix] = SuffixLetter[r.suffix]
              /\ Count(v) = Count(r)
    BY <1>1, <1>7, <2>2, RangeOfCount
  <2>4. InRange(v, r) <=> /\ Values(v.numbers) = Values(r.numbers) /\ v.letter = r.letter
                          /\ SuffixLetter[v.suffix] = SuffixLetter[r.suffix]
                          /\ Count(v) = Count(r)
    BY <1>7, InRangeIs
  <2> QED BY <1>3, <2>1, <2>3, <2>4
<1>8. CASE r.suffix # "none" /\ r.revision # <<>>
  <2>1. c = WholeVer(r) /\ c \in Seq(Int)
    BY <1>1, <1>8, <1>9, CompVerIs DEF WholeVer
  <2>2. NextVerEnds(WholeVer(r))
    BY <2>1
  <2>3. Between(WholeVer(v), WholeVer(r), MakeNextVer(WholeVer(r)))
          <=> /\ Values(v.numbers) = Values(r.numbers) /\ v.letter = r.letter
              /\ SuffixLetter[v.suffix] = SuffixLetter[r.suffix]
              /\ Count(v) = Count(r) /\ Value(v.revision) = Value(r.revision)
    BY <2>2, RangeOfRevision
  <2>4. InRange(v, r) <=> /\ Values(v.numbers) = Values(r.numbers) /\ v.letter = r.letter
                          /\ SuffixLetter[v.suffix] = SuffixLetter[r.suffix]
                          /\ Count(v) = Count(r) /\ Value(v.revision) = Value(r.revision)
    BY <1>8, InRangeIs
  <2> QED BY <2>1, <2>3, <2>4
<1> QED BY <1>4, <1>5, <1>6, <1>7, <1>8

-----------------------------------------------------------------------------
(* What an atom matches.                                                   *)

\* Comparing the strings an atom and a package are given is comparing their
\* versions.
THEOREM CompareIsExact ==
    ASSUME NEW v, IsVersion(v), Fits(v), NEW r, IsVersion(r), Fits(r), NEW relop \in Relop,
           relop = "range" => NextVerEnds(CompVer(r, relop))
    PROVE  Compare(relop, CompVer(r, relop), CompVer(v, "eq")) <=> Related(relop, r, v)
<1> DEFINE C == CompVer(r, relop)
           t == WholeVer(v)
           c == WholeVer(r)
<1>1. CompVer(v, "eq") = t /\ t \in Seq(Int) /\ c \in Seq(Int) /\ (relop # "range" => C = c)
  BY OrderOfVersions
<1>2. /\ Less(t, c) <=> Precedes(v, r)
      /\ Less(c, t) <=> Precedes(r, v)
      /\ t = c <=> SameVersion(v, r)
  BY OrderOfVersions
<1>3. /\ t = c <=> ~Less(t, c) /\ ~Less(c, t)
      /\ Less(t, c) => ~Less(c, t)
  <2> HIDE DEF t, c
  <2> QED BY <1>1, LessOrEqual, LessAsymmetric
<1>4. relop = "range" =>
        (~Less(t, C) /\ Less(t, MakeNextVer(C)) <=> InRange(v, r))
  BY RangeIsExact DEF Between
<1> HIDE DEF C, t, c
<1>5. CASE relop = "none"
  BY <1>5 DEF Compare, Related
<1>6. CASE relop = "lt"
  <2>1. Compare("lt", c, t) <=> Less(t, c)
    BY DEF Compare
  <2>2. Related("lt", r, v) <=> Precedes(v, r)
    BY DEF Related
  <2> QED BY <1>1, <1>2, <1>6, <2>1, <2>2 DEF C
<1>7. CASE relop = "le"
  <2>1. Compare("le", c, t) <=> Less(t, c) \/ t = c
    BY DEF Compare
  <2>2. Related("le", r, v) <=> ~Precedes(r, v)
    BY DEF Related
  <2> QED BY <1>1, <1>2, <1>3, <1>7, <2>1, <2>2 DEF C
<1>8. CASE relop = "eq"
  <2>1. Compare("eq", c, t) <=> t = c
    BY DEF Compare
  <2>2. Related("eq", r, v) <=> SameVersion(v, r)
    BY DEF Related
  <2> QED BY <1>1, <1>2, <1>8, <2>1, <2>2 DEF C
<1>9. CASE relop = "ge"
  <2>1. Compare("ge", c, t) <=> ~Less(t, c)
    BY DEF Compare
  <2>2. Related("ge", r, v) <=> ~Precedes(v, r)
    BY DEF Related
  <2> QED BY <1>1, <1>2, <1>9, <2>1, <2>2 DEF C
<1>10. CASE relop = "gt"
  <2>1. Compare("gt", c, t) <=> Less(c, t)
    BY DEF Compare
  <2>2. Related("gt", r, v) <=> Precedes(r, v)
    BY DEF Related
  <2> QED BY <1>1, <1>2, <1>10, <2>1, <2>2 DEF C
<1>11. CASE relop = "range"
  <2>1. Compare("range", C, t) <=> ~Less(t, C) /\ Less(t, MakeNextVer(C))
    BY DEF Compare
  <2>2. Related("range", r, v) <=> InRange(v, r)
    BY DEF Related
  <2> QED BY <1>1, <1>4, <1>11, <2>1, <2>2 DEF C
<1> QED BY <1>5, <1>6, <1>7, <1>8, <1>9, <1>10, <1>11 DEF Relop

\* What FilterAtoms takes of a sequence of packages is what the atom matches.
LEMMA FilterIs ==
    ASSUME NEW s \in Seq(Entry), NEW dep, NEW context
    PROVE  ToSet(FilterAtoms(dep, s, context))
             = {e \in ToSet(s) : /\ VersionAndSlotMatch(dep, e)
                                 /\ FlagsMatch(dep.uses, e.flags, context)}
<1> DEFINE T == {e \in ToSet(s) : /\ VersionAndSlotMatch(dep, e)
                                  /\ FlagsMatch(dep.uses, e.flags, context)}
           f == Only(s, T)
<1>1. FilterAtoms(dep, s, context) = f /\ T \in SUBSET ToSet(s)
  BY DEF FilterAtoms
<1>2. \A x : x \in ToSet(s) <=> \E k \in 1 .. Len(s) : x = s[k]
  BY DEF ToSet
<1> HIDE DEF T
<1>3. f \in Seq(Entry \cap T)
  BY OnlyType
<1>4. ASSUME NEW m \in 1 .. Len(s), s[m] \in T PROVE \E k \in DOMAIN f : f[k] = s[m]
  BY <1>4, OnlyComplete
<1> HIDE DEF f
<1>5. \A x \in ToSet(f) : x \in T
  BY <1>3 DEF ToSet
<1>6. \A x \in T : x \in ToSet(f)
  BY <1>1, <1>2, <1>4 DEF ToSet
<1> QED BY <1>1, <1>5, <1>6 DEF T

\* The sequences are of packages.
SetsAreOfEntries == atoms \in [Names -> Seq(Entry)]

LEMMA SetsStayOfEntries ==
    SetsAreOfEntries /\ [Next]_atoms => SetsAreOfEntries'
<1> SUFFICES ASSUME SetsAreOfEntries, [Next]_atoms PROVE SetsAreOfEntries'
  OBVIOUS
<1>1. CASE UNCHANGED atoms
  BY <1>1 DEF SetsAreOfEntries
<1>2. ASSUME NEW e \in Entry, AddAtom(e) PROVE SetsAreOfEntries'
  <2>1. e.name \in Names /\ atoms[e.name] \in Seq(Entry)
    BY DEF Names, SetsAreOfEntries
  <2>2. Added(atoms[e.name], e, Grouping) \in Seq(Entry)
    BY <2>1, AddedIs
  <2> QED BY <1>2, <2>1, <2>2 DEF AddAtom, SetsAreOfEntries
<1>3. ASSUME NEW e \in Entry, RemoveAtom(e) PROVE SetsAreOfEntries'
  <2>1. e.name \in Names /\ atoms[e.name] \in Seq(Entry)
    BY DEF Names, SetsAreOfEntries
  <2>2. Removed(atoms[e.name], e, Grouping) \in Seq(Entry)
    BY <2>1, RemovedIs
  <2> QED BY <1>3, <2>1, <2>2 DEF RemoveAtom, SetsAreOfEntries
<1> QED BY <1>1, <1>2, <1>3 DEF Next

LEMMA EntriesMatchExactly == SetsAreOfEntries => MatchIsExact
<1> SUFFICES ASSUME SetsAreOfEntries,
                    NEW n \in Names, NEW v \in Version, NEW relop \in Relop,
                    Fits(v), \A e \in ToSet(atoms[n]) : Fits(e.version),
                    relop = "range" => NextVerEnds(CompVer(v, relop))
             PROVE  ToSet(FilterAtoms(AtomOf(n, relop, v), atoms[n], <<>>))
                      = {e \in ToSet(atoms[n]) : Related(relop, v, e.version)}
  BY DEF MatchIsExact
<1> DEFINE dep == AtomOf(n, relop, v)
           s == atoms[n]
<1>1. s \in Seq(Entry)
  BY DEF SetsAreOfEntries
<1>2. ToSet(FilterAtoms(dep, s, <<>>))
        = {e \in ToSet(s) : VersionAndSlotMatch(dep, e) /\ FlagsMatch(dep.uses, e.flags, <<>>)}
  <2> HIDE DEF dep, s
  <2> QED BY <1>1, FilterIs
<1>3. ASSUME NEW e \in ToSet(s)
      PROVE  VersionAndSlotMatch(dep, e) /\ FlagsMatch(dep.uses, e.flags, <<>>)
               <=> Related(relop, v, e.version)
  <2>1. IsVersion(e.version) /\ Fits(e.version) /\ IsVersion(v) /\ Fits(v)
    <3>1. e \in Entry
      BY <1>1 DEF ToSet
    <3> QED BY <3>1, EntryAssumption, VersionAssumption
  <2>2. /\ dep.slotRelop = "none" /\ dep.uses = <<>> /\ dep.relop = relop /\ dep.version = v
    BY DEF AtomOf
  <2>3. FlagsMatch(dep.uses, e.flags, <<>>)
    BY <2>2 DEF FlagsMatch, ToSet
  <2> HIDE DEF dep
  <2>4. Compare(dep.slotRelop, Dotted(dep.slot), Dotted(e.slot))
    BY <2>2 DEF Compare
  <2>5. VersionAndSlotMatch(dep, e) <=> Compare(relop, CompVer(v, relop), CompVer(e.version, "eq"))
    BY <2>2, <2>4 DEF VersionAndSlotMatch
  <2>6. Compare(relop, CompVer(v, relop), CompVer(e.version, "eq")) <=> Related(relop, v, e.version)
    BY <2>1, CompareIsExact
  <2> QED BY <2>3, <2>5, <2>6
<1> QED BY <1>2, <1>3

\* Of a name's packages an atom matches those whose versions have the relation
\* to its own that it asks for, for every relation: the operators, and the ranges
\* with a tilde before the atom or an asterisk after it.
THEOREM MatchesAreExact == Spec => []MatchIsExact
<1>1. Init => SetsAreOfEntries
  BY DEF Init, SetsAreOfEntries
<1>2. SetsAreOfEntries /\ [Next]_atoms => SetsAreOfEntries'
  BY SetsStayOfEntries
<1>3. SetsAreOfEntries => MatchIsExact
  BY EntriesMatchExactly
<1> QED BY <1>1, <1>2, <1>3, PTL DEF Spec
=============================================================================
