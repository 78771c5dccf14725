------------------------------ MODULE Filtering ------------------------------
(***************************************************************************)
(* The members of a sequence that are in a set.  (SelectSeq with a set for *)
(* the test.)                                                              *)
(***************************************************************************)
EXTENDS Integers, Sequences

\* The loops that append what passes a test to a slice.
Only(s, T) ==
    LET only[k \in 0 .. Len(s)] ==
          IF k = 0 THEN <<>>
          ELSE IF s[k] \in T THEN Append(only[k - 1], s[k]) ELSE only[k - 1]
    IN  only[Len(s)]
=============================================================================
