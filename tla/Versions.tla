------------------------------ MODULE Versions ------------------------------
(***************************************************************************)
(* Versions of packages, and how atoms compare them.                       *)
(*                                                                         *)
(* Portage's versions have an order of their own.  The program makes each  *)
(* version into a string such that the order of the strings is meant to be *)
(* that order: numbers are padded with zeros, release suffixes are spelt   *)
(* with letters in the order of their rank.  A range (~ before the atom, * *)
(* after it) is what lies between a string and the next one that does not  *)
(* begin with it.                                                          *)
(*                                                                         *)
(* A number is the sequence of its digits.                                 *)
(***************************************************************************)
EXTENDS Strings, SequencesExt

CONSTANTS Radix,   \* how many digits there are: 10 in the code
          Width    \* numericVersionSegmentWidth: 5 in the code

ASSUME RadixAssumption == Radix \in Nat \ {0, 1}
ASSUME WidthAssumption == Width \in Nat \ {0}

Digit == 0 .. Radix - 1

\* A version: numbers with dots between, a letter, a release suffix with its
\* number, a revision.  What is not there is NoLetter, "none" or <<>>.  Portage and
\* the parser take several suffixes, one after the other: those are left out.
NoLetter == 0
Letter == 1 .. 26
Suffixed == {"_alpha", "_beta", "_pre", "_rc", "_p"}

IsVersion(v) ==
    /\ v \in [numbers : Seq(Seq(Digit)) \ {<<>>}, letter : Letter \cup {NoLetter},
              suffix : Suffixed \cup {"none"}, suffixNumber : Seq(Digit), revision : Seq(Digit)]
    /\ v.suffix = "none" => v.suffixNumber = <<>>

-----------------------------------------------------------------------------
(* The strings.                                                            *)

Space == 0
Dot == 2
DigitChar(d) == 3 + d
Underscore == 3 + Radix
LetterChar(k) == Underscore + k

IsDigitChar(c) == Dot < c /\ c < Underscore
DigitOf(c) == c - 3
z == LetterChar(26)

\* padNumericSegment.  A longer number is left as it is.
PadNumericSegment(digits) ==
    [k \in 1 .. Width - Len(digits) |-> 0] \o digits

Number(digits) ==
    LET padded == PadNumericSegment(digits)
    IN  [k \in DOMAIN padded |-> DigitChar(padded[k])]

\* The numbers of a version or a slot, with dots between them.
Dotted(numbers) == Tail(Separated(Dot, [k \in DOMAIN numbers |-> Number(numbers[k])]))

\* The letters by which releases are ordered: releaseSuffixAlpha and so on.
SuffixLetter == [s \in Suffixed \cup {"none"} |->
    CASE s = "_alpha" -> 1 [] s = "_beta" -> 2 [] s = "_pre" -> 3
      [] s = "_rc" -> 4 [] s = "none" -> 14 [] s = "_p" -> 16]

BaseVer(v) == Dotted(v.numbers) \o
    IF v.letter = NoLetter THEN <<>> ELSE <<Space, LetterChar(v.letter)>>
Suffix(v) == <<Underscore, LetterChar(SuffixLetter[v.suffix])>> \o
    IF v.suffixNumber = <<>> THEN <<>> ELSE Number(v.suffixNumber)
Revision(v) == <<LetterChar(18)>> \o Number(IF v.revision = <<>> THEN <<0>> ELSE v.revision)

Relop == {"none", "lt", "le", "eq", "ge", "gt", "range"}

\* RawParseAtomAtCursor: the comparison string.  That of a range ends with
\* what the atom gives; without a suffix its revision does not count either.
CompVer(v, relop) ==
    LET full == relop # "range"
    IN  BaseVer(v)
          \o (IF full \/ v.suffix # "none" THEN <<Space>> \o Suffix(v) ELSE <<>>)
          \o (IF full \/ (v.suffix # "none" /\ v.revision # <<>>)
              THEN <<Space>> \o Revision(v) ELSE <<>>)

-----------------------------------------------------------------------------
(* MakeNextVer and makeVersionComparer.                                    *)

\* How long a string is without the digits at its end, and those digits.
Stem(s) == CHOOSE n \in 0 .. Len(s) :
    /\ \A k \in n + 1 .. Len(s) : IsDigitChar(s[k])
    /\ n > 0 => ~IsDigitChar(s[n])
Run(s) == [k \in 1 .. Len(s) - Stem(s) |-> DigitOf(s[Stem(s) + k])]

Overflows(digits) == \A k \in DOMAIN digits : digits[k] = Radix - 1

\* incrementDecimal, of a number that does not overflow.  That a number of
\* eight digits may be a date is left out.
IncrementDecimal(digits) ==
    LET p == CHOOSE n \in DOMAIN digits :
                /\ digits[n] < Radix - 1
                /\ \A k \in DOMAIN digits : k > n => digits[k] = Radix - 1
    IN  [k \in DOMAIN digits |-> IF k < p THEN digits[k]
                                 ELSE IF k = p THEN digits[k] + 1 ELSE 0]

\* MakeNextVer begins again with the same string, for ever, when the number at
\* its end is all nines.
NextVerEnds(s) == Run(s) = <<>> \/ ~Overflows(Run(s))

\* MakeNextVer of a comparison string: the number at its end is incremented, or
\* the letter; a letter z, which follows a space, takes the space for a letter.
MakeNextVer(s) ==
    LET n == Len(s)
        succ(k) == SubSeq(s, 1, k - 1) \o <<s[k] + 1>>
        next == IncrementDecimal(Run(s))
    IN  IF IsDigitChar(s[n])
        THEN SubSeq(s, 1, Stem(s)) \o [k \in DOMAIN next |-> DigitChar(next[k])]
        ELSE IF s[n] < z THEN succ(n) ELSE succ(n - 1)

\* makeVersionComparer, for the comparison strings of an atom and of a package.
Compare(relop, comparison, tested) ==
    CASE relop = "none"  -> TRUE
      [] relop = "lt"    -> Less(tested, comparison)
      [] relop = "le"    -> Less(tested, comparison) \/ tested = comparison
      [] relop = "eq"    -> tested = comparison
      [] relop = "ge"    -> ~Less(tested, comparison)
      [] relop = "gt"    -> Less(comparison, tested)
      [] relop = "range" -> /\ ~Less(tested, comparison)
                            /\ Less(tested, MakeNextVer(comparison))

-----------------------------------------------------------------------------
(* What the strings stand for: the order of versions, number by number.    *)

Value(digits) ==
    LET value[n \in 0 .. Len(digits)] ==
          IF n = 0 THEN 0 ELSE value[n-1] * Radix + digits[n]
    IN  value[Len(digits)]
Values(numbers) == [k \in DOMAIN numbers |-> Value(numbers[k])]

Rank(v) == <<SuffixLetter[v.suffix],
             IF v.suffixNumber = <<>> THEN -1 ELSE Value(v.suffixNumber),
             Value(v.revision)>>

\* The numbers decide, then the letter, the suffix and the revision.
Precedes(v, w) ==
    LET vs == Values(v.numbers)  ws == Values(w.numbers)
    IN  \/ Less(vs, ws)
        \/ vs = ws /\ Less(<<v.letter>> \o Rank(v), <<w.letter>> \o Rank(w))

SameVersion(v, w) == ~Precedes(v, w) /\ ~Precedes(w, v)

\* A version is in the range of another if it agrees with it in whatever the
\* other gives: the first numbers; all of them from the letter on.  A revision
\* without a suffix counts for nothing.
InRange(v, r) ==
    LET vs == Values(v.numbers)  rs == Values(r.numbers)
        exact == r.letter # NoLetter \/ r.suffix # "none"
        given == IF r.suffix = "none" THEN 0
                 ELSE IF r.revision # <<>> THEN 3
                 ELSE IF r.suffixNumber # <<>> THEN 2 ELSE 1
    IN  /\ IsPrefix(rs, vs)
        /\ exact => vs = rs /\ v.letter = r.letter
        /\ \A k \in 1 .. given : Rank(v)[k] = Rank(r)[k]

\* The relation an atom asks for.
Related(relop, r, v) ==
    CASE relop = "none"  -> TRUE
      [] relop = "lt"    -> Precedes(v, r)
      [] relop = "le"    -> ~Precedes(r, v)
      [] relop = "eq"    -> SameVersion(v, r)
      [] relop = "ge"    -> ~Precedes(v, r)
      [] relop = "gt"    -> Precedes(r, v)
      [] relop = "range" -> InRange(v, r)

\* All numbers of a version fit the width they are padded to.
Fits(v) == \A n \in ToSet(v.numbers) \cup {v.suffixNumber, v.revision} : Len(n) <= Width
=============================================================================
