-------------------------- MODULE PackageSelection --------------------------
(***************************************************************************)
(* What the resolution of dependencies promises: it selects packages that  *)
(* are asked for, by the user or by a package selected before, and it is   *)
(* done only when all dependencies of what it has selected are met.        *)
(*                                                                         *)
(* A dependency is a record with its type; with the deps it is made of; as *)
(* an atom with the atom, as a condition with the USE flag.                *)
(***************************************************************************)
EXTENDS Integers, Sequences

CONSTANTS Package,            \* the installed packages
          Requested,          \* stands for the user, who asks for packages
          Dep,                \* the dependencies there are, and their parts
          Candidates(_, _),   \* the packages an atom stands for, in the order
                              \* found, for the package that depends on it
          FlagIsSet(_, _)     \* whether a USE flag is set for a package

VARIABLES depends,    \* the dependencies of each package and of the user
          selected,   \* the packages selected
          outcome     \* "running", "done" or "failed"

Elements(s) == {s[k] : k \in DOMAIN s}
Found(d, q) == Elements(Candidates(d, q))

Choice == {"any_of", "exactly_one_of", "at_most_one_of"}

\* Whether a condition holds for package q, or d is no condition.
Applies(d, q) ==
    /\ d.type = "when_use_set" => FlagIsSet(d.flag, q)
    /\ d.type = "when_use_unset" => ~FlagIsSet(d.flag, q)

\* For each dependency of q, it and all its parts that apply to q.
AllParts(q) ==
    LET parts[d \in Dep] ==
          {d} \cup IF Applies(d, q) THEN UNION {parts[e] : e \in Elements(d.deps)} ELSE {}
    IN  parts
Parts(q) == UNION {AllParts(q)[d] : d \in Elements(depends[q])}

\* The packages that q's dependencies name, blockers aside.
Asked(q) == UNION {Found(d, q) : d \in {e \in Parts(q) : e.type = "atom"}}

\* Those that one of them names.
Names(q) ==
    LET names[d \in Dep] ==
          IF d.type = "atom" THEN Found(d, q)
          ELSE IF Applies(d, q) THEN UNION {names[e] : e \in Elements(d.deps)} ELSE {}
    IN  names

\* Whether the selection S meets dependency d of q.  An atom wants all it stands
\* for, a choice some package of those it names.
Met(S, q) ==
    LET met[d \in Dep] ==
          CASE d.type = "atom" -> Found(d, q) # {} /\ Found(d, q) \subseteq S
            [] d.type = "blocker" -> Found(d, q) \cap S = {}
            [] d.type \in {"any_of", "exactly_one_of"} -> Names(q)[d] \cap S # {}
            [] d.type = "at_most_one_of" -> TRUE
            [] OTHER -> Applies(d, q) => \A e \in Elements(d.deps) : met[e]
    IN  met
Meets(S, q) == \A d \in Elements(depends[q]) : Met(S, q)[d]

\* No blocker of a selected package, wherever it stands, has its target in S.
Unblocked(S, q) == \A d \in Parts(q) : d.type = "blocker" => Found(d, q) \cap S = {}

Solves(S) == \A q \in S \cup {Requested} : Meets(S, q) /\ Unblocked(S, q)

-----------------------------------------------------------------------------
Init == selected = {} /\ outcome = "running"

Select(p) ==
    /\ outcome = "running" /\ p \notin selected
    /\ \E q \in selected \cup {Requested} : p \in Asked(q)
    /\ selected' = selected \cup {p}
    /\ UNCHANGED outcome

Succeed == /\ outcome = "running" /\ Solves(selected)
           /\ outcome' = "done"
           /\ UNCHANGED selected

Fail == /\ outcome = "running"
        /\ outcome' = "failed"
        /\ UNCHANGED selected

Next == (\E p \in Package : Select(p)) \/ Succeed \/ Fail

Spec == Init /\ [][Next]_<<selected, outcome>>
=============================================================================
