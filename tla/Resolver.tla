------------------------------ MODULE Resolver ------------------------------
(***************************************************************************)
(* The resolution of dependencies over the installed packages: which of    *)
(* them go into a stage.                                                   *)
(*                                                                         *)
(* The code is recursive twice over: Resolve goes down into the groups of  *)
(* a dependency, and findDependencies, called for every package that is    *)
(* added, starts anew with the dependencies of that package.  The stack    *)
(* below has a frame for each installedResolverData: one for the user's    *)
(* request, one for each package that is being added, and one for each     *)
(* group to choose from that Resolve is in.  A group without a choice      *)
(* shares the frame: its parts take its place, and a mark after them says  *)
(* where ResolveEach goes over the packages found so far.                  *)
(***************************************************************************)
EXTENDS Filtering, FiniteSets

CONSTANTS Package, Requested, Dep, Candidates(_, _), FlagIsSet(_, _),
          Entered,      \* the atoms a user may enter
          Blocks(_),    \* whether one is a blocker
          Meaning(_),   \* what it may mean, one dependency for each category
                        \* that has a package of the name
          Start,        \* the dependencies of the packages there may be, and
                        \* what the user enters
          Depth(_)      \* how deep the groups of a dependency go

ASSUME RequestedAssumption == Requested \notin Package
ASSUME CandidatesAssumption ==
    \A d \in Dep, q \in Package \cup {Requested} : Candidates(d, q) \in Seq(Package)
ASSUME FlagAssumption ==
    \A d \in Dep, q \in Package \cup {Requested} : FlagIsSet(d.flag, q) \in BOOLEAN
\* The decoder makes trees, whose leaves are the atoms.
ASSUME DepAssumption ==
    \A d \in Dep : /\ d.type \in {"atom", "blocker", "all", "when_use_set", "when_use_unset",
                                  "any_of", "exactly_one_of", "at_most_one_of"}
                   /\ d.deps \in Seq(Dep)
                   /\ d.type \in {"atom", "blocker"} => d.deps = <<>>
                   /\ Depth(d) \in Nat
                   /\ \A k \in DOMAIN d.deps : Depth(d.deps[k]) < Depth(d)
ASSUME MeaningAssumption == \A e \in Entered : Meaning(e) \subseteq Dep
ASSUME StartAssumption ==
    \A s \in Start : /\ s.depends \in [Package -> Seq(Dep)]
                     /\ s.entered \in Seq(Entered)

VARIABLES
    depends,   \* the dependencies of each package and, at last, of the request
    entered,   \* what the user has entered
    added,     \* the packages marked Added, which are those in Resolution
    blocked,   \* the packages marked Blocked
    stack,     \* the frames, the innermost last
    status     \* "reading", "running", "done" or the error

vars == <<depends, entered, added, blocked, stack, status>>

Error == {"no package", "ambiguous", "missing", "no choice", "blocks", "blocked", "unreadable"}

Settle == [type |-> "settle"]   \* the mark

Frame == [ctx : Package \cup {Requested},   \* contextAtom
          todo : Seq(Dep \cup {Settle}),    \* what Resolve has yet to go through
          resolved : Seq(Package),
          conditional : BOOLEAN,            \* conditionalAtomMode
          min : {0, 1}, max : Nat]          \* how many to choose

Elements(s) == {s[k] : k \in DOMAIN s}

\* Type correctness.  Frames in which packages are added belong to different
\* packages: cyclic dependencies do not make the stack grow for ever.
TypeOK ==
    /\ depends \in [Package \cup {Requested} -> Seq(Dep)]
    /\ entered \in Seq(Entered)
    /\ added \subseteq Package /\ blocked \subseteq Package
    /\ stack \in Seq(Frame)
    /\ status \in {"reading", "running", "done"} \cup Error
    /\ \A j, k \in DOMAIN stack :
          /\ ~stack[j].conditional /\ ~stack[k].conditional
          /\ stack[j].ctx = stack[k].ctx
          => j = k

NewFrame(q, todo, conditional, min, max) ==
    [ctx |-> q, todo |-> todo, resolved |-> <<>>, conditional |-> conditional,
     min |-> min, max |-> max]

Init == \E s \in Start :
    /\ depends = [q \in Package \cup {Requested} |->
                    IF q = Requested THEN <<>> ELSE s.depends[q]]
    /\ entered = s.entered
    /\ added = {} /\ blocked = {}
    /\ stack = <<>>
    /\ status = "reading"

-----------------------------------------------------------------------------
(* ResolveUserDeps.                                                        *)

Entries(blocker) ==
    LET those == Only(entered, {e \in Entered : Blocks(e) = blocker /\ Meaning(e) # {}})
    IN  [k \in DOMAIN those |-> CHOOSE d \in Meaning(those[k]) : TRUE]

\* The first atom that is in no category, or in several, ends it; a blocker
\* that is in no category is passed over.
EntryError(e) == IF Cardinality(Meaning(e)) > 1 THEN "ambiguous"
                 ELSE IF Meaning(e) = {} /\ ~Blocks(e) THEN "no package" ELSE "none"

RequestFails ==
    /\ status = "reading"
    /\ \E k \in DOMAIN entered :
          /\ EntryError(entered[k]) # "none"
          /\ \A j \in 1 .. k - 1 : EntryError(entered[j]) = "none"
          /\ status' = EntryError(entered[k])
    /\ UNCHANGED <<depends, entered, added, blocked, stack>>

\* The blockers go first.
ReadRequest ==
    LET request == Entries(TRUE) \o Entries(FALSE)
    IN  /\ status = "reading"
        /\ \A k \in DOMAIN entered : EntryError(entered[k]) = "none"
        /\ depends' = [depends EXCEPT ![Requested] = request]
        /\ stack' = <<NewFrame(Requested, Append(request, Settle), FALSE, 0, 0)>>
        /\ status' = "running"
        /\ UNCHANGED <<entered, added, blocked>>

-----------------------------------------------------------------------------
(* Resolve: the next dependency of the innermost frame.                    *)

Top == stack[Len(stack)]
Below == SubSeq(stack, 1, Len(stack) - 1)

AtType(types) == /\ status = "running" /\ stack # <<>> /\ Top.todo # <<>>
                 /\ Head(Top.todo).type \in types

\* The next dependency is replaced by those of the sequence.
ReplaceBy(deps) == [Top EXCEPT !.todo = deps \o Tail(@)]

\* An error goes up through all frames.
FailWith(error) == /\ status' = error
                   /\ UNCHANGED <<depends, entered, added, stack>>

\* Mutation: that there is no such package is an error nowhere.
TakeAtomOptional ==
    /\ AtType({"atom"})
    /\ stack' = Append(Below, [ReplaceBy(<<>>) EXCEPT !.resolved =
                                 @ \o Candidates(Head(Top.todo), Top.ctx)])
    /\ UNCHANGED <<depends, entered, added, blocked, status>>

\* ResolveAtom.
TakeAtom ==
    LET found == Candidates(Head(Top.todo), Top.ctx)
    IN  /\ AtType({"atom"})
        /\ found # <<>> \/ Top.conditional
        /\ stack' = Append(Below, [ReplaceBy(<<>>) EXCEPT !.resolved = @ \o found])
        /\ UNCHANGED <<depends, entered, added, blocked, status>>

AtomMissing ==
    /\ AtType({"atom"})
    /\ Candidates(Head(Top.todo), Top.ctx) = <<>> /\ ~Top.conditional
    /\ FailWith("missing")
    /\ UNCHANGED blocked

\* Mutation: packages that are added already are marked all the same.
TakeBlockerUnchecked ==
    LET found == Candidates(Head(Top.todo), Top.ctx)
    IN  /\ AtType({"blocker"})
        /\ blocked' = blocked \cup Elements(found)
        /\ stack' = Append(Below, ReplaceBy(<<>>))
        /\ UNCHANGED <<depends, entered, added, status>>

TakeBlocker ==
    LET found == Candidates(Head(Top.todo), Top.ctx)
    IN  /\ AtType({"blocker"})
        /\ Elements(found) \cap added = {}
        /\ blocked' = blocked \cup Elements(found)
        /\ stack' = Append(Below, ReplaceBy(<<>>))
        /\ UNCHANGED <<depends, entered, added, status>>

\* Of the packages found those before the one that is added are marked.
BlockerFails ==
    LET found == Candidates(Head(Top.todo), Top.ctx)
    IN  /\ AtType({"blocker"})
        /\ Elements(found) \cap added # {}
        /\ blocked' = blocked \cup
             {found[k] : k \in {j \in DOMAIN found : \A i \in 1 .. j : found[i] \notin added}}
        /\ FailWith("blocks")

EnterAll ==
    /\ AtType({"all"})
    /\ stack' = Append(Below, ReplaceBy(Append(Head(Top.todo).deps, Settle)))
    /\ UNCHANGED <<depends, entered, added, blocked, status>>

\* Mutation: ! before the flag is overlooked.
EnterConditionSet ==
    LET d == Head(Top.todo)
    IN  /\ AtType({"when_use_set", "when_use_unset"})
        /\ stack' = Append(Below, ReplaceBy(IF FlagIsSet(d.flag, Top.ctx) THEN d.deps ELSE <<>>))
        /\ UNCHANGED <<depends, entered, added, blocked, status>>

EnterCondition ==
    LET d == Head(Top.todo)
    IN  /\ AtType({"when_use_set", "when_use_unset"})
        /\ stack' = Append(Below, ReplaceBy(
                      IF FlagIsSet(d.flag, Top.ctx) <=> d.type = "when_use_set"
                      THEN d.deps ELSE <<>>))
        /\ UNCHANGED <<depends, entered, added, blocked, status>>

\* ResolveSomeOf begins.
EnterChoice ==
    LET d == Head(Top.todo)
    IN  /\ AtType({"any_of", "exactly_one_of", "at_most_one_of"})
        /\ stack' = Below \o <<ReplaceBy(<<>>),
                NewFrame(Top.ctx, d.deps, TRUE, IF d.type = "at_most_one_of" THEN 0 ELSE 1,
                         IF d.type = "any_of" THEN Len(d.deps) ELSE 1)>>
        /\ UNCHANGED <<depends, entered, added, blocked, status>>

-----------------------------------------------------------------------------
(* ResolveEach goes over what has been found, in order.                    *)

AtSettle == /\ status = "running" /\ stack # <<>> /\ Top.todo # <<>>
            /\ Head(Top.todo) = Settle

\* Mutation: the mark Added is not looked at.
PendingAnew == {k \in DOMAIN Top.resolved : ~Top.conditional \/ Top.resolved[k] \in blocked}

\* The packages that are neither added nor, in a choice, left as they are.
Pending == {k \in DOMAIN Top.resolved :
              Top.resolved[k] \in blocked
                \/ (Top.resolved[k] \notin added /\ ~Top.conditional)}
First(S) == CHOOSE k \in S : \A j \in S : k <= j

\* Mutation: in a choice the packages have to be added before it goes on.
SettledInChoice == /\ AtSettle /\ Pending = {}
                   /\ stack' = IF Elements(Top.resolved) \subseteq added
                               THEN Append(Below, ReplaceBy(<<>>)) ELSE stack
                   /\ UNCHANGED <<depends, entered, added, blocked, status>>

Settled == /\ AtSettle /\ Pending = {}
           /\ stack' = Append(Below, ReplaceBy(<<>>))
           /\ UNCHANGED <<depends, entered, added, blocked, status>>

FoundBlocked == /\ AtSettle /\ Pending # {}
                /\ Top.resolved[First(Pending)] \in blocked
                /\ FailWith("blocked")
                /\ UNCHANGED blocked

\* findDependencies.
AddPackage ==
    LET p == Top.resolved[First(Pending)]
    IN  /\ AtSettle /\ Pending # {}
        /\ p \notin blocked
        /\ added' = added \cup {p}
        /\ stack' = Append(stack, NewFrame(p, Append(depends[p], Settle), FALSE, 0, 0))
        /\ UNCHANGED <<depends, entered, blocked, status>>

\* A file with dependencies of the package just added cannot be read, or what is
\* in it cannot be decoded.  The package stays marked.
DependenciesFail ==
    /\ status = "running" /\ stack # <<>>
    /\ Top.ctx # Requested /\ ~Top.conditional
    /\ Top.todo = Append(depends[Top.ctx], Settle) /\ Top.resolved = <<>>
    /\ FailWith("unreadable")
    /\ UNCHANGED blocked

-----------------------------------------------------------------------------
(* The end of a frame.                                                     *)

AtEnd == status = "running" /\ stack # <<>> /\ Top.todo = <<>>

\* ResolveSomeOf chooses the first packages of those found.
Chosen == SubSeq(Top.resolved, 1,
                 IF Len(Top.resolved) > Top.max THEN Top.max ELSE Len(Top.resolved))

Choose ==
    /\ AtEnd /\ Top.conditional
    /\ Len(Top.resolved) >= Top.min
    /\ stack' = [Below EXCEPT ![Len(Below)].resolved = @ \o Chosen]
    /\ UNCHANGED <<depends, entered, added, blocked, status>>

NothingToChoose == /\ AtEnd /\ Top.conditional
                   /\ Len(Top.resolved) < Top.min
                   /\ FailWith("no choice")
                   /\ UNCHANGED blocked

Return == /\ AtEnd /\ ~Top.conditional
          /\ stack' = Below
          /\ status' = IF Below = <<>> THEN "done" ELSE "running"
          /\ UNCHANGED <<depends, entered, added, blocked>>

-----------------------------------------------------------------------------
Next == \/ RequestFails \/ ReadRequest
        \/ TakeAtom \/ AtomMissing \/ TakeBlocker \/ BlockerFails
        \/ EnterAll \/ EnterCondition \/ EnterChoice
        \/ Settled \/ FoundBlocked \/ AddPackage \/ DependenciesFail
        \/ Choose \/ NothingToChoose \/ Return

Spec == Init /\ [][Next]_vars /\ WF_vars(Next)

-----------------------------------------------------------------------------
\* A package that something selected blocks is never selected, in whatever
\* order packages and blockers are come to.
NeverBlockedAndAdded == added \cap blocked = {}

\* The packages are a selection as PackageSelection has it: each is asked for
\* by the user or one selected before, and at the end what they depend on is
\* there and what they block is not.
Selection == INSTANCE PackageSelection WITH
    Package <- Package, Requested <- Requested, Dep <- Dep,
    Candidates <- Candidates, FlagIsSet <- FlagIsSet,
    depends <- depends, selected <- added,
    outcome <- IF status \in {"reading", "running"} THEN "running"
               ELSE IF status = "done" THEN "done" ELSE "failed"
ImplementsSelection == Selection!Spec

\* Without choices the order does not matter: an error means that no set of
\* packages has what all its members, and the user, depend on.
Plain == \A q \in Package \cup {Requested} : \A d \in Selection!Parts(q) :
            d.type \notin Selection!Choice
FailsOnlyIfUnsolvable ==
    Plain /\ status \in {"missing", "blocks", "blocked"}
        => \A S \in SUBSET Package : ~Selection!Solves(S)

\* The resolution comes to an end, also when packages depend on one another.
AlwaysEnds == <>(status \notin {"reading", "running"})
=============================================================================
