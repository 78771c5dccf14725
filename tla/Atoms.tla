------------------------------- MODULE Atoms --------------------------------
(***************************************************************************)
(* Package atoms: sets of the packages that are installed, and which of    *)
(* them the atom of a dependency stands for.                               *)
(*                                                                         *)
(* A package is a record with its name, version, slot (a sequence of       *)
(* numbers, as in 3.11) and USE flags, a function from the flags that it   *)
(* has to whether they are set.  The atom of a dependency has a name,      *)
(* relop and version, slotRelop and slot, and uses, the USE dependencies.  *)
(***************************************************************************)
EXTENDS Versions, Filtering

-----------------------------------------------------------------------------
(* AtomSet: for every name a sequence of packages, one for each key.       *)

\* GetGroupingKey.
GroupingKey(e, grouping) ==
    IF grouping = "slot" THEN Dotted(e.slot) ELSE CompVer(e.version, "eq")

\* Where in the sequence the packages with e's key are: nowhere or at one place.
Places(s, e, grouping) ==
    {k \in DOMAIN s : GroupingKey(s[k], grouping) = GroupingKey(e, grouping)}

\* Mutation: the scan stops at the first smaller entry, and so does the search
\* for the key.
AddedUnsearched(s, e, grouping) ==
    LET smaller == {k \in DOMAIN s : Less(GroupingKey(s[k], grouping),
                                          GroupingKey(e, grouping))}
    IN  IF smaller # {} THEN InsertAt(s, CHOOSE k \in smaller : \A j \in smaller : k <= j, e)
        ELSE IF Places(s, e, grouping) # {} THEN s ELSE Append(s, e)

\* Add: not if the key is there; before the last entry that is smaller.
Added(s, e, grouping) ==
    LET smaller == {k \in DOMAIN s : Less(GroupingKey(s[k], grouping),
                                          GroupingKey(e, grouping))}
    IN  IF Places(s, e, grouping) # {} THEN s
        ELSE IF smaller = {} THEN Append(s, e)
        ELSE InsertAt(s, CHOOSE k \in smaller : \A j \in smaller : j <= k, e)

\* Remove.
Removed(s, e, grouping) ==
    LET places == Places(s, e, grouping)
    IN  IF places = {} THEN s
        ELSE RemoveAt(s, CHOOSE k \in places : \A j \in places : k <= j)

-----------------------------------------------------------------------------
(* USE flags.                                                              *)

\* NewUseFlagSetFromIUSE and SetFlagsFromUSE: of the flags in IUSE those in
\* USE are set, the others are not, whatever default IUSE marks.
UseFlags(iuse, use) == [f \in iuse |-> f \in use]

\* A flag the referrer does not have counts as not set: a map's zero value.
Context(flags, f) == f \in DOMAIN flags /\ flags[f]

\* FlagsMatch.  A package without the flag is an error, which FilterAtoms
\* takes for no match, unless the USE dependency gives a default.
FlagMatches(dep, flags, context) ==
    LET f == dep.flag
        state == IF f \in DOMAIN flags THEN flags[f] ELSE dep.default = "enabled"
    IN  /\ f \in DOMAIN flags \/ dep.default # "none"
        /\ CASE dep.type = "enabled"       -> state
             [] dep.type = "same"          -> state = Context(context, f)
             [] dep.type = "opposite"      -> state # Context(context, f)
             [] dep.type = "set_only_if"   -> Context(context, f) => state
             [] dep.type = "unset_only_if" -> ~(Context(context, f) /\ state)
             [] dep.type = "disabled"      -> ~state

FlagsMatch(deps, flags, context) == \A d \in ToSet(deps) : FlagMatches(d, flags, context)

-----------------------------------------------------------------------------
(* Which packages an atom stands for.                                      *)

\* Mutation: the version is compared with the string of the whole version also
\* if the atom gives a range.
VersionAndSlotMatchWhole(dep, e) ==
    /\ Compare(dep.slotRelop, Dotted(dep.slot), Dotted(e.slot))
    /\ Compare(dep.relop, CompVer(dep.version, "eq"), CompVer(e.version, "eq"))

\* VersionAndSlotMatch.
VersionAndSlotMatch(dep, e) ==
    /\ Compare(dep.slotRelop, Dotted(dep.slot), Dotted(e.slot))
    /\ Compare(dep.relop, CompVer(dep.version, dep.relop), CompVer(e.version, "eq"))

\* FilterAtoms.
FilterAtoms(dep, entries, context) ==
    Only(entries, {e \in ToSet(entries) : /\ VersionAndSlotMatch(dep, e)
                                          /\ FlagsMatch(dep.uses, e.flags, context)})
=============================================================================
