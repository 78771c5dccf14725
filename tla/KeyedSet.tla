------------------------------ MODULE KeyedSet ------------------------------
(***************************************************************************)
(* What a set of packages promises: it has one package for each key, the   *)
(* first that was added since that key was last removed.                   *)
(***************************************************************************)
CONSTANTS Entry,       \* what can be added
          Same(_, _)   \* whether two entries have the same key

VARIABLE members

Init == members = {}

Add(e) == members' = IF \E m \in members : Same(m, e) THEN members
                     ELSE members \cup {e}

Remove(e) == members' = {m \in members : ~Same(m, e)}

Next == \E e \in Entry : Add(e) \/ Remove(e)

Spec == Init /\ [][Next]_members
=============================================================================
