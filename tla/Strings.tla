------------------------------ MODULE Strings -------------------------------
(***************************************************************************)
(* Strings as the program makes and compares them.  A string is the        *)
(* sequence of its characters, and a character its place in the character  *)
(* set.                                                                    *)
(***************************************************************************)
EXTENDS Integers, Sequences

\* Go's < on strings: the first character in which they differ decides, and a
\* string that begins with the other is the greater one.
Less(s, t) ==
    \E n \in 1 .. Len(t) :
        /\ n <= Len(s) + 1
        /\ \A k \in 1 .. n - 1 : s[k] = t[k]
        /\ n <= Len(s) => s[n] < t[n]

\* Strings made into one, each after a separator.
Separated(separator, strings) ==
    LET separated[n \in 0 .. Len(strings)] ==
          IF n = 0 THEN <<>>
          ELSE separated[n-1] \o <<separator>> \o strings[n]
    IN  separated[Len(strings)]
=============================================================================
